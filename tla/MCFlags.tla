------------------------------ MODULE MCFlags ------------------------------
(***************************************************************************)
(* Every command line of up to three tokens, of a set that holds each kind *)
(* of flag, one of another program, a value and misspelt flags.            *)
(***************************************************************************)
EXTENDS Flags

CONSTANTS loopback, published, elsewhere

Tok(n, word) == [dashes |-> 2, name |-> n, value |-> word]

MCWord == {loopback, published, elsewhere, Empty, "true", "false"}

Tokens ==
    { Flag("http"), Tok("http", "false"), Flag("http-addr"), Tok("http-addr", elsewhere),
      Flag("unix"), Flag("log-level"), Flag("other"), Tok("other", elsewhere), Flag(Empty),
      [dashes |-> 1, name |-> "unix", value |-> elsewhere],
      [dashes |-> 3, name |-> "http", value |-> None],
      Tok("http", elsewhere), Plain(elsewhere), Plain(Empty) }

MCArgv == UNION {[1 .. n -> Tokens] : n \in 0 .. 3}
=============================================================================
