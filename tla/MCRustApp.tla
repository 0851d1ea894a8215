----------------------------- MODULE MCRustApp -----------------------------
(* Identifiers of two bytes; the Go node and an address where nobody is.    *)
EXTENDS RustApp

CONSTANTS go, nobody

MCMyId == <<"m", "y">>
MCGoId == <<"g", "o">>
MCAddresses == {go, nobody}
MCTransactionIds == {<<"a">>, <<"b">>}

\* What others send: a response that find_node of another program might give
\* to one of the queries, and no bencode.
MCForeign ==
  {Undecodable,
   [t |-> String(<<"a">>), y |-> String(<<"r">>),
    r |-> Dict([id |-> String(<<"x", "y">>), nodes |-> String(<<"m", "y">>)])]}

=============================================================================
