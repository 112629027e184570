-------------------------- MODULE MCLanguageServer --------------------------
(* One language, one document, a few calls and servers. *)
EXTENDS LanguageServer
CONSTANTS a, b

\* Text a has nothing but ASCII, so that an increment from it is exact; the
\* increment from b to a counts columns behind something else.
FromAscii == {<<a, b>>}
=============================================================================
