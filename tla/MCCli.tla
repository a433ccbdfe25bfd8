-------------------------------- MODULE MCCli --------------------------------
(***************************************************************************)
(* Cli on directories of two or three stems, one of them with a dot.       *)
(***************************************************************************)
EXTENDS Cli, TLC

CONSTANTS s1, s2, wild   \* two sources that compile, one that cannot be laid out

A == <<"a">>
AB == <<"a", "b">>
C == <<"c">>
SmallStems == <<A, AB, C>>
SmallSources == {s1, s2, wild}
GoodSources == {s1, s2}

File(s, e) == [stem |-> s, ext |-> e]
OneCommands ==
  {[kind |-> k, ir |-> File(A, e), out |-> A] :
     k \in {"compile", "mock-compile"}, e \in {"zkir", "bzkir"}}
ManyCommands == {[kind |-> k, ir |-> File(A, "zkir"), out |-> A] : k \in OverDirectory}
AllCommands == OneCommands \cup ManyCommands

Holding(d) == [f \in Files |-> IF f \in DOMAIN d THEN d[f] ELSE "absent"]
PlainDisks ==
  {Holding(File(A, "zkir") :> x @@ File(C, e) :> y) :
     x \in {s1, "partial"}, y \in {s1, s2, wild}, e \in {"zkir", "bzkir"}}
  \cup {Holding(File(A, "zkir") :> s1 @@ File(A, "bzkir") :> s2)}
DottedDisks ==
  {Holding(File(A, "zkir") :> s1 @@ File(AB, e) :> s2) : e \in {"zkir", "bzkir"}}
  \cup {Holding(File(AB, "zkir") :> s2)}
SmallDisks == PlainDisks \cup DottedDisks
==============================================================================
