------------------------------ MODULE Cli_proofs ------------------------------
(***************************************************************************)
(* The safety properties of Cli for every directory, every set of sources  *)
(* and commands, and any number of runs, edits, errors and crashes.        *)
(* None is inductive by itself.  PairsMatch needs what the two key files   *)
(* hold at each step between their creation and the end of their writers   *)
(* (Emptied), and that the position of a run stays within its lists        *)
(* (Placed).  What holds at the end of a run needs an account of the whole *)
(* of it: the sources stay what they were when it began (SourcesKept), its *)
(* list is the directory's (Listed), what it has loaded is what they hold  *)
(* (Loaded), and so on to the binaries and keys it has made so far, of     *)
(* which two stems of one name share a file (BinariesDone, KeysDone).      *)
(***************************************************************************)
EXTENDS Cli, TLAPS

KeySteps == {"create_pk", "create_vk", "keygen", "write_pk", "write_vk", "drop"}
LoadSteps == {"open", "create_bin", "write_bin"}

Placed ==
  /\ step # "idle" =>
       IF cmd.kind \in OverDirectory THEN files \in Seq(ToSet(Stems)) ELSE Len(files) = 1
  /\ step = "list" => cmd.kind \in OverDirectory /\ i = 1 /\ loaded = <<>>
  /\ step \in LoadSteps \cup KeySteps \cup {"model"} => i <= Len(files)
  /\ step \in KeySteps => cmd.kind \in {"compile", "compile-many"}
  /\ step = "open" => Len(loaded) = i - 1
  /\ step \in {"create_bin", "write_bin", "model"} => Len(loaded) = i
  /\ step \in KeySteps => Len(loaded) = Len(files)

Emptied ==
  LET pk == disk[Key("prover")]
      vk == disk[Key("verifier")]
  IN /\ step = "create_vk" => pk = "empty"
     /\ step = "model" /\ cmd.kind = "compile" => pk = "empty" /\ vk = "empty"
     /\ step \in {"keygen", "write_pk"} => pk = "empty" /\ vk = "empty"
     /\ step = "write_vk" => pk = "partial" /\ vk = "empty"
     /\ step = "drop" => pk = "partial" /\ vk = "partial"

IInv == TypeOK /\ Placed /\ Emptied /\ PairsMatch

------------------------------------------------------------------------------
(* The names of the files a run touches.                                     *)

LEMMA StemsInDir ==
  ASSUME NEW s \in ToSet(Stems)
  PROVE  s \in Dir /\ Trunk(s) \in Dir
BY DEF Dir

LEMMA KeyFiles ==
  ASSUME TypeOK, Placed, step # "idle", step # "list", i <= Len(files), NEW e \in Exts
  PROVE  \E k \in Dir : Key(e) = [stem |-> k, ext |-> e]
<1>1. CASE cmd.kind = "compile-many"
  <2>1. files \in Seq(ToSet(Stems)) /\ i \in 1..Len(files)
    BY <1>1 DEF TypeOK, Placed, OverDirectory
  <2>2. files[i] \in ToSet(Stems)
    BY <2>1
  <2> QED
    BY <1>1, <2>2, StemsInDir DEF Key, WithExtension
<1>2. CASE cmd.kind # "compile-many"
  <2>1. cmd.out \in Dir
    BY CliAssumption DEF TypeOK
  <2> QED
    BY <1>2, <2>1 DEF Key
<1> QED
  BY <1>1, <1>2

LEMMA BinaryFile ==
  ASSUME TypeOK, Placed, step \in LoadSteps
  PROVE  \E k \in Dir : Binary = [stem |-> k, ext |-> "bzkir"]
<1>1. CASE cmd.kind \in OverDirectory
  <2>1. files \in Seq(ToSet(Stems)) /\ i \in 1..Len(files)
    BY <1>1 DEF TypeOK, Placed, LoadSteps
  <2>2. files[i] \in ToSet(Stems)
    BY <2>1
  <2> QED
    BY <1>1, <2>2, StemsInDir DEF Binary, Input, InputOf, WithExtension
<1>2. CASE cmd.kind \notin OverDirectory
  <2>1. cmd.ir \in Files
    BY CliAssumption DEF TypeOK, Files, SourceFiles, Exts
  <2> QED
    BY <1>2, <2>1 DEF Binary, Input, Files
<1> QED
  BY <1>1, <1>2

LEMMA InputFile ==
  ASSUME TypeOK, Placed, step \in LoadSteps
  PROVE  Input \in Files
<1>1. CASE cmd.kind \in OverDirectory
  <2>1. files \in Seq(ToSet(Stems)) /\ i \in 1..Len(files)
    BY <1>1 DEF TypeOK, Placed, LoadSteps
  <2>2. files[i] \in ToSet(Stems)
    BY <2>1
  <2> QED
    BY <1>1, <2>2, StemsInDir DEF Input, InputOf, WithExtension, Files, Exts
<1>2. CASE cmd.kind \notin OverDirectory
  BY <1>2, CliAssumption DEF TypeOK, Input, Files, SourceFiles, Exts
<1> QED
  BY <1>1, <1>2

\* A sequence of stems of the directory lists files of Dir.
LEMMA StemLists ==
  ASSUME NEW fs \in Seq(ToSet(Stems))
  PROVE  fs \in Seq(Dir)
BY StemsInDir

LEMMA ListingsAreLists ==
  ASSUME NEW d, NEW fs \in Listings(d)
  PROVE  fs \in Seq(ToSet(Stems))
<1>1. PICK n \in 0..Len(Stems) : fs \in [1..n -> Present(d)]
  BY DEF Listings
<1>2. Len(Stems) \in Nat
  BY CliAssumption
<1>3. fs \in [1..n -> ToSet(Stems)] /\ n \in Nat
  BY <1>1, <1>2 DEF Present
<1> QED
  BY <1>3

------------------------------------------------------------------------------
(* Type correctness and the position.                                        *)

LEMMA InitPlaced ==
  ASSUME Init
  PROVE  TypeOK /\ Placed
BY CliAssumption DEF Init, TypeOK, Placed, Steps, Exits, LoadSteps, KeySteps

LEMMA StartPlaced ==
  ASSUME TypeOK, Placed, NEW c \in Commands, Start(c)
  PROVE  TypeOK' /\ Placed'
<1>1. c.kind \in Kinds /\ c.ir \in Files /\ c.ir.stem \in Dir
  BY CliAssumption DEF Files, SourceFiles, Exts
<1>2. files' \in Seq(Dir) /\ step' \in {"list", "open"} /\ loaded' = <<>> /\ i' = 1 /\ cmd' = c
  <2>1. CASE c.kind \in OverDirectory
    BY <2>1 DEF Start
  <2>2. CASE c.kind \notin OverDirectory
    <3>1. files' = <<c.ir.stem>> /\ step' = "open"
      BY <2>2 DEF Start
    <3>2. <<c.ir.stem>> \in Seq(Dir)
      BY <1>1
    <3> QED
      BY <3>1, <3>2 DEF Start
  <2> QED
    BY <2>1, <2>2
<1>3. TypeOK'
  BY <1>2 DEF TypeOK, Start, Steps, Exits
<1>4. CASE c.kind \in OverDirectory
  <2>1. step' = "list" /\ files' = <<>>
    BY <1>4 DEF Start
  <2> QED
    BY <1>2, <1>3, <1>4, <2>1 DEF Placed, LoadSteps, KeySteps
<1>5. CASE c.kind \notin OverDirectory
  <2>1. step' = "open" /\ files' = <<c.ir.stem>>
    BY <1>5 DEF Start
  <2> QED
    BY <1>2, <1>3, <1>5, <2>1 DEF Placed, LoadSteps, KeySteps
<1> QED
  BY <1>3, <1>4, <1>5

LEMMA ListPlaced ==
  ASSUME TypeOK, Placed, List
  PROVE  TypeOK' /\ Placed'
<1>1. files' \in Seq(ToSet(Stems)) /\ files' \in Seq(Dir)
  BY ListingsAreLists, StemLists DEF List
<1>2. CASE files' = <<>>
  BY <1>1, <1>2 DEF TypeOK, List, Placed, LoadSteps, KeySteps, Exit, Steps, Exits, counters
<1>3. CASE files' # <<>>
  <2>1. step' = "open" /\ i' = i /\ exit' = exit
    BY <1>3 DEF List, GoTo
  <2>2. TypeOK'
    BY <1>1, <2>1 DEF TypeOK, List, Steps, counters
  <2>3. Len(files') \in Nat /\ Len(files') # 0
    BY <1>1, <1>3
  <2>4. cmd' = cmd /\ loaded' = <<>> /\ i' = 1 /\ cmd.kind \in OverDirectory
    BY <2>1 DEF List, Placed
  <2> QED
    BY <1>1, <2>1, <2>2, <2>3, <2>4 DEF Placed, LoadSteps, KeySteps
<1> QED
  BY <1>2, <1>3

\* What a step of a run leaves alone.
Bystanders ==
  /\ cmd' = cmd /\ files' = files /\ before' = before /\ runs' = runs /\ edits' = edits
  /\ disk' \in [Files -> Contents] /\ mishaps' \subseteq {"lost", "fault"} /\ troubles' \in Nat

LEMMA OpenPlaced ==
  ASSUME TypeOK, Placed, Open
  PROVE  TypeOK' /\ Placed'
<1>1. Bystanders
  BY DEF Open, run, Bystanders, TypeOK
<1>2. CASE disk[Input] \notin Sources
  BY <1>1, <1>2 DEF Open, Exit, Bystanders, TypeOK, Placed, LoadSteps, KeySteps, Steps, Exits
<1>3. CASE disk[Input] \in Sources
  <2>1. /\ loaded' = Append(loaded, disk[Input]) /\ i' = i /\ exit' = exit
        /\ step' \in {"create_bin", "create_pk", "model"}
        /\ step' = "create_pk" => cmd.kind = "compile"
    BY <1>3 DEF Open, AfterLoad, GoTo
  <2>2. loaded' \in Seq(Sources) /\ Len(loaded') = i
    BY <1>3, <2>1 DEF TypeOK, Placed, Open
  <2>3. TypeOK'
    BY <1>1, <2>1, <2>2 DEF TypeOK, Bystanders, Steps
  <2>4. i <= Len(files) /\ (cmd.kind = "compile" => Len(files) = 1)
    BY DEF Open, Placed, LoadSteps, OverDirectory
  <2>5. step' = "create_pk" => Len(loaded') = Len(files')
    BY <1>1, <2>1, <2>2, <2>4 DEF Bystanders, TypeOK
  <2>6. Placed'
    BY <1>1, <2>1, <2>2, <2>4, <2>5 DEF Open, Placed, Bystanders, LoadSteps, KeySteps
  <2> QED
    BY <2>3, <2>6
<1> QED
  BY <1>2, <1>3

\* A file operation, of contents the disk may have, keeps the disk one.
LEMMA DiskTyped ==
  ASSUME TypeOK, NEW f, NEW c \in Contents
  PROVE  [disk EXCEPT ![f] = c] \in [Files -> Contents]
BY DEF TypeOK

LEMMA ContentTypes ==
  /\ {"empty", "partial", "absent"} \subseteq Contents /\ Sources \subseteq Contents
  /\ "empty" \notin Sources /\ "partial" \notin Sources
BY CliAssumption DEF Contents

LEMMA CreatePlaced ==
  ASSUME TypeOK, Placed, CreateBin \/ CreatePk \/ CreateVk
  PROVE  TypeOK' /\ Placed'
<1>1. ASSUME NEW s, NEW f, NEW next \in Steps, Create(s, f, next)
      PROVE  /\ Bystanders /\ loaded' = loaded /\ i' = i /\ exit' = exit
             /\ step = s /\ step' = next
  <2>1. disk' \in [Files -> Contents]
    BY <1>1, DiskTyped, ContentTypes DEF Create
  <2> QED
    BY <1>1, <2>1 DEF Create, GoTo, run, Bystanders, TypeOK
<1>2. CASE CreateBin
  <2>1. "write_bin" \in Steps /\ Create("create_bin", Binary, "write_bin")
    BY <1>2 DEF CreateBin, Steps
  <2>2. /\ Bystanders /\ loaded' = loaded /\ i' = i /\ exit' = exit
        /\ step = "create_bin" /\ step' = "write_bin"
    BY <1>1, <2>1
  <2> QED
    BY <2>2 DEF TypeOK, Placed, Bystanders, LoadSteps, KeySteps, Steps
<1>3. CASE CreatePk
  <2>1. "create_vk" \in Steps /\ Create("create_pk", Key("prover"), "create_vk")
    BY <1>3 DEF CreatePk, Steps
  <2>2. /\ Bystanders /\ loaded' = loaded /\ i' = i /\ exit' = exit
        /\ step = "create_pk" /\ step' = "create_vk"
    BY <1>1, <2>1
  <2> QED
    BY <2>2 DEF TypeOK, Placed, Bystanders, LoadSteps, KeySteps, Steps
<1>4. CASE CreateVk
  <2> DEFINE next == IF cmd.kind = "compile" THEN "model" ELSE "keygen"
  <2>1. next \in Steps /\ Create("create_vk", Key("verifier"), next)
    BY <1>4 DEF CreateVk, Steps
  <2>2. /\ Bystanders /\ loaded' = loaded /\ i' = i /\ exit' = exit
        /\ step = "create_vk" /\ step' = next
    BY <1>1, <2>1
  <2>3. TypeOK'
    BY <2>2 DEF TypeOK, Bystanders, Steps
  <2>4. CASE cmd.kind = "compile"
    <3>1. Len(files) = 1 /\ Len(loaded) = 1 /\ i \in Nat \ {0} /\ i <= Len(files)
      BY <2>2, <2>4 DEF TypeOK, Placed, KeySteps, OverDirectory
    <3>2. i = 1 /\ step' = "model"
      BY <2>2, <2>4, <3>1
    <3> QED
      BY <2>2, <2>3, <2>4, <3>1, <3>2 DEF Placed, Bystanders, LoadSteps, KeySteps, OverDirectory
  <2>5. CASE cmd.kind # "compile"
    BY <2>2, <2>3, <2>5 DEF Placed, Bystanders, LoadSteps, KeySteps
  <2> QED
    BY <2>3, <2>4, <2>5
<1> QED
  BY <1>2, <1>3, <1>4

LEMMA FlushTyped ==
  ASSUME TypeOK, NEW fs, NEW s \in Sources, Flush(fs, s)
  PROVE  disk' \in [Files -> Contents] /\ mishaps' \subseteq {"lost", "fault"} /\ troubles' \in Nat
<1>1. PICK bad \in SUBSET fs :
        /\ disk' = [f \in DOMAIN disk |->
                      IF f \in bad THEN "partial" ELSE IF f \in fs THEN s ELSE disk[f]]
        /\ mishaps' = IF bad # {} THEN mishaps \cup {"lost"} ELSE mishaps
        /\ troubles' = IF bad # {} THEN troubles + 1 ELSE troubles
  BY DEF Flush
<1>2. disk' \in [Files -> Contents]
  BY <1>1, ContentTypes DEF TypeOK
<1> QED
  BY <1>1, <1>2 DEF TypeOK

LEMMA LoadedIsSource ==
  ASSUME TypeOK, Placed, step \in KeySteps \cup {"write_bin", "model"}
  PROVE  loaded[i] \in Sources
<1>1. i \in 1..Len(loaded)
  BY DEF TypeOK, Placed, KeySteps
<1> QED
  BY <1>1 DEF TypeOK

LEMMA WriteBinPlaced ==
  ASSUME TypeOK, Placed, WriteBin
  PROVE  TypeOK' /\ Placed'
<1>1. Bystanders
  BY FlushTyped, LoadedIsSource DEF WriteBin, Bystanders, run
<1>2. /\ loaded' = loaded /\ i' = i /\ exit' = exit /\ step = "write_bin"
      /\ step' = IF cmd.kind = "compile" THEN "create_pk" ELSE "model"
  BY DEF WriteBin, AfterLoad, GoTo
<1>3. TypeOK'
  BY <1>1, <1>2 DEF TypeOK, Bystanders, Steps
<1>4. cmd.kind = "compile" => i = 1 /\ Len(files) = 1
  <2>1. step = "write_bin"
    BY <1>2
  <2>2. cmd.kind = "compile" => Len(files) = 1
    BY <2>1 DEF Placed, OverDirectory
  <2>3. i \in Nat \ {0} /\ i <= Len(files)
    BY <2>1 DEF TypeOK, Placed, LoadSteps
  <2> SUFFICES ASSUME cmd.kind = "compile"
               PROVE  i = 1 /\ Len(files) = 1
    OBVIOUS
  <2>4. Len(files) = 1
    BY <2>2
  <2> QED
    BY <2>3, <2>4
<1>5. Placed'
  BY <1>1, <1>2, <1>4 DEF Placed, Bystanders, LoadSteps, KeySteps
<1> QED
  BY <1>3, <1>5

LEMMA ModelPlaced ==
  ASSUME TypeOK, Placed, Model
  PROVE  TypeOK' /\ Placed'
<1>1. Bystanders /\ loaded' = loaded /\ step = "model" /\ Len(loaded) = i /\ i <= Len(files)
  BY DEF Model, run, Bystanders, TypeOK, Placed
<1>2. CASE loaded[i] \notin Synthesizable
  BY <1>1, <1>2 DEF Model, Exit, TypeOK, Placed, Bystanders, LoadSteps, KeySteps, Steps, Exits
<1>3. CASE loaded[i] \in Synthesizable /\ cmd.kind = "compile"
  <2>1. step' = "keygen" /\ i' = i /\ exit' = exit
    BY <1>3 DEF Model, AfterModel, GoTo
  <2>2. TypeOK'
    BY <1>1, <2>1 DEF TypeOK, Bystanders, Steps
  <2>3. Len(files) = 1 /\ Len(loaded) = 1
    <3>1. Len(files) = 1
      BY <1>1, <1>3 DEF Placed, OverDirectory
    <3> QED
      BY <1>1, <3>1 DEF TypeOK
  <2> QED
    BY <1>1, <1>3, <2>1, <2>2, <2>3 DEF Placed, Bystanders, LoadSteps, KeySteps, OverDirectory
<1>4. CASE loaded[i] \in Synthesizable /\ cmd.kind # "compile"
  <2>1. AfterModel
    BY <1>4 DEF Model
  <2>2. CASE i < Len(files)
    <3>1. step' = "open" /\ i' = i + 1 /\ exit' = exit
      BY <1>4, <2>1, <2>2 DEF AfterModel, NextFile
    <3>2. TypeOK'
      BY <1>1, <3>1 DEF TypeOK, Bystanders, Steps
    <3>3. i' <= Len(files') /\ Len(loaded') = i' - 1
      BY <1>1, <2>2, <3>1 DEF TypeOK, Bystanders
    <3> QED
      BY <1>1, <3>1, <3>2, <3>3 DEF Placed, Bystanders, LoadSteps, KeySteps
  <2>3. CASE ~(i < Len(files)) /\ cmd.kind = "compile-many"
    <3>1. step' = "create_pk" /\ i' = 1 /\ exit' = exit
      BY <1>4, <2>1, <2>3 DEF AfterModel, NextFile
    <3>2. TypeOK'
      BY <1>1, <3>1 DEF TypeOK, Bystanders, Steps
    <3>3. i' <= Len(files') /\ Len(loaded') = Len(files')
      BY <1>1, <2>3, <3>1 DEF TypeOK, Bystanders
    <3> QED
      BY <1>1, <2>3, <3>1, <3>2, <3>3 DEF Placed, Bystanders, LoadSteps, KeySteps
  <2>4. CASE ~(i < Len(files)) /\ cmd.kind # "compile-many"
    <3>1. step' = "idle" /\ exit' = "ok" /\ i' = i
      BY <1>4, <2>1, <2>4 DEF AfterModel, NextFile, Exit
    <3> QED
      BY <1>1, <3>1 DEF TypeOK, Placed, Bystanders, LoadSteps, KeySteps, Steps, Exits
  <2> QED
    BY <2>2, <2>3, <2>4
<1> QED
  BY <1>2, <1>3, <1>4

LEMMA KeygenPlaced ==
  ASSUME TypeOK, Placed, Keygen
  PROVE  TypeOK' /\ Placed'
BY DEF Keygen, GoTo, run, TypeOK, Placed, LoadSteps, KeySteps, Steps

LEMMA WriteKeyPlaced ==
  ASSUME TypeOK, Placed, WritePk \/ WriteVk
  PROVE  TypeOK' /\ Placed'
<1>1. ASSUME NEW s \in KeySteps, NEW f, NEW next \in KeySteps, WriteKey(s, f, next)
      PROVE  TypeOK' /\ Placed'
  <2>1. disk' \in [Files -> Contents]
    BY <1>1, DiskTyped, ContentTypes DEF WriteKey
  <2>2. /\ Bystanders /\ loaded' = loaded /\ i' = i /\ exit' = exit
        /\ step = s /\ step' = next
    BY <1>1, <2>1 DEF WriteKey, GoTo, run, Bystanders, TypeOK
  <2>3. TypeOK'
    BY <1>1, <2>2 DEF TypeOK, Bystanders, KeySteps, Steps
  <2> QED
    BY <1>1, <2>2, <2>3 DEF Placed, Bystanders, LoadSteps, KeySteps
<1>2. {"write_pk", "write_vk", "drop"} \subseteq KeySteps
  BY DEF KeySteps
<1> QED
  BY <1>1, <1>2 DEF WritePk, WriteVk

LEMMA DropPlaced ==
  ASSUME TypeOK, Placed, Drop
  PROVE  TypeOK' /\ Placed'
<1>1. Bystanders /\ loaded' = loaded /\ step = "drop"
  <2>1. loaded[i] \in Sources
    BY LoadedIsSource DEF Drop, KeySteps
  <2> QED
    BY <2>1, FlushTyped DEF Drop, Bystanders, run
<1>2. i <= Len(files) /\ Len(loaded) = Len(files)
  BY <1>1 DEF Placed, KeySteps
<1>3. CASE cmd.kind = "compile-many" /\ i < Len(files)
  <2>1. step' = "create_pk" /\ i' = i + 1 /\ exit' = exit
    BY <1>3 DEF Drop, AfterDrop, NextFile
  <2>2. TypeOK'
    BY <1>1, <2>1 DEF TypeOK, Bystanders, Steps
  <2>3. i' <= Len(files')
    BY <1>1, <1>3, <2>1 DEF TypeOK, Bystanders
  <2> QED
    BY <1>1, <1>2, <1>3, <2>1, <2>2, <2>3 DEF Placed, Bystanders, LoadSteps, KeySteps
<1>4. CASE ~(cmd.kind = "compile-many" /\ i < Len(files))
  <2>1. step' = "idle" /\ exit' = "ok" /\ i' = i
    BY <1>4 DEF Drop, AfterDrop, NextFile, Exit
  <2> QED
    BY <1>1, <2>1 DEF TypeOK, Placed, Bystanders, LoadSteps, KeySteps, Steps, Exits
<1> QED
  BY <1>3, <1>4

LEMMA StopPlaced ==
  ASSUME TypeOK, Placed, Fail \/ Kill \/ Edit
  PROVE  TypeOK' /\ Placed'
<1>1. disk' \in [Files -> Contents]
  <2>1. CASE Fail
    <3>1. PICK some, whole \in BOOLEAN :
            LET cut(f) == IF some THEN "partial" ELSE disk[f] IN
            disk' =
              CASE step = "write_bin" -> [disk EXCEPT ![Binary] = cut(Binary)]
                [] step = "write_pk" -> [disk EXCEPT ![Key("prover")] = cut(Key("prover"))]
                [] step = "write_vk" ->
                     [disk EXCEPT ![Key("verifier")] = cut(Key("verifier")),
                                  ![Key("prover")] = IF whole THEN loaded[i] ELSE @]
                [] OTHER -> disk
      BY <2>1 DEF Fail
    <3>2. CASE step = "write_bin"
      BY <3>1, <3>2, ContentTypes DEF TypeOK
    <3>3. CASE step = "write_pk"
      BY <3>1, <3>3, ContentTypes DEF TypeOK
    <3>4. CASE step = "write_vk"
      <4>1. loaded[i] \in Sources
        BY <3>4, LoadedIsSource DEF KeySteps
      <4> QED
        BY <3>1, <3>4, <4>1, ContentTypes DEF TypeOK
    <3>5. CASE step \notin {"write_bin", "write_pk", "write_vk"}
      BY <3>1, <3>5 DEF TypeOK
    <3> QED
      BY <3>2, <3>3, <3>4, <3>5
  <2>2. CASE Kill
    BY <2>2 DEF Kill, TypeOK
  <2>3. CASE Edit
    BY <2>3, DiskTyped, ContentTypes DEF Edit
  <2> QED
    BY <2>1, <2>2, <2>3
<1>2. step' = "idle" /\ exit' \in Exits /\ i' = i /\ loaded' = loaded /\ files' = files
      /\ cmd' = cmd /\ before' = before
  BY DEF Fail, Kill, Edit, Exit, run, Exits, TypeOK
<1>3. mishaps' \subseteq {"lost", "fault"} /\ runs' \in Nat /\ edits' \in Nat /\ troubles' \in Nat
  BY DEF Fail, Kill, Edit, Exit, run, TypeOK
<1>4. TypeOK'
  BY <1>1, <1>2, <1>3 DEF TypeOK, Steps
<1>5. Placed'
  BY <1>2 DEF Placed, LoadSteps, KeySteps
<1> QED
  BY <1>4, <1>5

------------------------------------------------------------------------------
(* The two key files of the position, and the pairs.                         *)

KeyNames == [stem : Dir, ext : {"prover", "verifier"}]

\* A step that leaves the key files alone keeps the pairs.
LEMMA PairsKept ==
  ASSUME PairsMatch, \A f \in KeyNames : disk'[f] = disk[f]
  PROVE  PairsMatch'
BY DEF PairsMatch, Pairs, KeyNames

\* So does one that touches those of a single name and leaves them a pair.
LEMMA PairsChanged ==
  ASSUME PairsMatch, NEW k \in Dir, Pairs(disk', k),
         \A f \in KeyNames : f.stem # k => disk'[f] = disk[f]
  PROVE  PairsMatch'
BY DEF PairsMatch, Pairs, KeyNames

LEMMA SameKey ==
  ASSUME cmd' = cmd, files' = files, i' = i, NEW e
  PROVE  Key(e)' = Key(e)
BY DEF Key

\* The two keys of the position share a stem.
LEMMA KeyPair ==
  ASSUME TypeOK, Placed, step \in KeySteps
  PROVE  \E k \in Dir : /\ Key("prover") = [stem |-> k, ext |-> "prover"]
                        /\ Key("verifier") = [stem |-> k, ext |-> "verifier"]
<1>1. i <= Len(files) /\ step # "idle" /\ step # "list" /\ {"prover", "verifier"} \subseteq Exts
  BY DEF Placed, KeySteps, Exts
<1>2. PICK k \in Dir : Key("prover") = [stem |-> k, ext |-> "prover"]
  BY <1>1, KeyFiles
<1>3. PICK j \in Dir : Key("verifier") = [stem |-> j, ext |-> "verifier"]
  BY <1>1, KeyFiles
<1>4. k = j
  <2>1. Key("prover").stem = Key("verifier").stem
    BY DEF Key, WithExtension
  <2> QED
    BY <1>2, <1>3, <2>1
<1> QED
  BY <1>2, <1>3, <1>4

LEMMA QuietSteps ==
  ASSUME IInv, List \/ Open \/ (\E c \in Commands : Start(c))
  PROVE  Emptied' /\ PairsMatch'
<1>1. disk' = disk
  BY DEF List, Open, Start
<1>2. /\ step' \in {"idle", "list", "open", "create_bin", "create_pk", "model"}
      /\ step' = "model" => cmd' = cmd /\ cmd.kind # "compile"
  <2>1. CASE List
    BY <2>1 DEF List, Exit, GoTo
  <2>2. CASE Open
    BY <2>2 DEF Open, Exit, GoTo, AfterLoad, run
  <2>3. CASE \E c \in Commands : Start(c)
    BY <2>3 DEF Start
  <2> QED
    BY <2>1, <2>2, <2>3
<1> QED
  BY <1>1, <1>2, PairsKept DEF IInv, Emptied

LEMMA BinarySteps ==
  ASSUME IInv, CreateBin \/ WriteBin
  PROVE  Emptied' /\ PairsMatch'
<1>1. step \in LoadSteps
  BY DEF CreateBin, WriteBin, Create, LoadSteps
<1>2. PICK k \in Dir : Binary = [stem |-> k, ext |-> "bzkir"]
  BY <1>1, BinaryFile DEF IInv
<1>3. \A f \in KeyNames : f # Binary /\ f \in DOMAIN disk
  <2>1. Binary.ext = "bzkir"
    BY <1>2
  <2>2. \A f \in KeyNames : f.ext # "bzkir"
    BY DEF KeyNames
  <2>3. \A f \in KeyNames : f \in DOMAIN disk
    BY DEF KeyNames, IInv, TypeOK, Files, Exts
  <2> QED
    BY <2>1, <2>2, <2>3
<1>4. \A f \in KeyNames : disk'[f] = disk[f]
  <2>1. CASE CreateBin
    BY <1>3, <2>1 DEF CreateBin, Create
  <2>2. CASE WriteBin
    BY <1>3, <2>2 DEF WriteBin, Flush
  <2> QED
    BY <2>1, <2>2
<1>5. /\ step' \in {"write_bin", "create_pk", "model"}
      /\ step' = "model" => cmd' = cmd /\ cmd.kind # "compile"
  <2>1. CASE CreateBin
    BY <2>1 DEF CreateBin, Create, GoTo
  <2>2. CASE WriteBin
    BY <2>2 DEF WriteBin, AfterLoad, GoTo, run
  <2> QED
    BY <2>1, <2>2
<1> QED
  BY <1>4, <1>5, PairsKept DEF IInv, Emptied

LEMMA ModelKeys ==
  ASSUME IInv, Model
  PROVE  Emptied' /\ PairsMatch'
<1>1. disk' = disk /\ cmd' = cmd /\ files' = files /\ step = "model"
  BY DEF Model, run
<1>2. PairsMatch'
  BY <1>1, PairsKept DEF IInv
<1>3. CASE step' = "keygen"
  <2>1. cmd.kind = "compile" /\ i' = i
    BY <1>3 DEF Model, AfterModel, Exit, GoTo, NextFile
  <2>2. Key("prover")' = Key("prover") /\ Key("verifier")' = Key("verifier")
    BY <1>1, <2>1, SameKey
  <2> QED
    BY <1>1, <1>2, <1>3, <2>1, <2>2 DEF IInv, Emptied
<1>4. CASE step' # "keygen"
  <2>1. step' \in {"idle", "open", "create_pk"}
    BY <1>4 DEF Model, AfterModel, Exit, GoTo, NextFile
  <2> QED
    BY <1>2, <2>1 DEF Emptied
<1> QED
  BY <1>3, <1>4

LEMMA KeySetup ==
  ASSUME IInv, CreatePk \/ CreateVk \/ Keygen
  PROVE  Emptied' /\ PairsMatch'
<1>1. step \in KeySteps /\ cmd' = cmd /\ files' = files /\ i' = i
  BY DEF CreatePk, CreateVk, Keygen, Create, KeySteps, run, GoTo
<1>2. PICK k \in Dir : /\ Key("prover") = [stem |-> k, ext |-> "prover"]
                       /\ Key("verifier") = [stem |-> k, ext |-> "verifier"]
  BY <1>1, KeyPair DEF IInv
<1>3. Key("prover")' = Key("prover") /\ Key("verifier")' = Key("verifier")
  BY <1>1, SameKey
<1>4. Key("prover") \in DOMAIN disk /\ Key("verifier") \in DOMAIN disk
  BY <1>2 DEF IInv, TypeOK, Files, Exts
<1>5. CASE CreatePk
  <2>1. /\ disk' = [disk EXCEPT ![Key("prover")] = "empty"]
        /\ step = "create_pk" /\ step' = "create_vk"
    BY <1>5 DEF CreatePk, Create, GoTo
  <2>2. PairsMatch'
    BY <1>2, <1>4, <2>1, PairsChanged, ContentTypes DEF IInv, Pairs, KeyNames
  <2> QED
    BY <1>3, <1>4, <2>1, <2>2 DEF Emptied
<1>6. CASE CreateVk
  <2>1. /\ disk' = [disk EXCEPT ![Key("verifier")] = "empty"]
        /\ step = "create_vk" /\ step' \in {"keygen", "model"}
    BY <1>6 DEF CreateVk, Create, GoTo
  <2>2. disk[Key("prover")] = "empty"
    BY <2>1 DEF IInv, Emptied
  <2>3. disk'[Key("prover")] = "empty" /\ disk'[Key("verifier")] = "empty"
    BY <1>2, <1>4, <2>1, <2>2
  <2>4. PairsMatch'
    BY <1>2, <1>4, <2>1, <2>3, PairsChanged, ContentTypes DEF IInv, Pairs, KeyNames
  <2> QED
    BY <1>3, <2>1, <2>3, <2>4 DEF Emptied
<1>7. CASE Keygen
  <2>1. disk' = disk /\ step = "keygen" /\ step' = "write_pk"
    BY <1>7 DEF Keygen, GoTo
  <2> QED
    BY <1>3, <2>1, PairsKept DEF IInv, Emptied
<1> QED
  BY <1>5, <1>6, <1>7

LEMMA KeyWrites ==
  ASSUME IInv, WritePk \/ WriteVk \/ Drop
  PROVE  Emptied' /\ PairsMatch'
<1>1. step \in KeySteps /\ cmd' = cmd /\ files' = files
  BY DEF WritePk, WriteVk, Drop, WriteKey, KeySteps, run
<1>2. PICK k \in Dir : /\ Key("prover") = [stem |-> k, ext |-> "prover"]
                       /\ Key("verifier") = [stem |-> k, ext |-> "verifier"]
  BY <1>1, KeyPair DEF IInv
<1>3. Key("prover") \in DOMAIN disk /\ Key("verifier") \in DOMAIN disk
  BY <1>2 DEF IInv, TypeOK, Files, Exts
<1>4. CASE WritePk
  <2>1. /\ disk' = [disk EXCEPT ![Key("prover")] = "partial"]
        /\ step = "write_pk" /\ step' = "write_vk" /\ i' = i
    BY <1>4 DEF WritePk, WriteKey, GoTo
  <2>2. disk'[Key("prover")] = "partial" /\ disk'[Key("verifier")] = "empty"
    BY <1>2, <1>3, <2>1 DEF IInv, Emptied
  <2>3. PairsMatch'
    BY <1>2, <1>3, <2>1, <2>2, PairsChanged, ContentTypes DEF IInv, Pairs, KeyNames
  <2>4. Key("prover")' = Key("prover") /\ Key("verifier")' = Key("verifier")
    BY <1>1, <2>1, SameKey
  <2> QED
    BY <2>1, <2>2, <2>3, <2>4 DEF Emptied
<1>5. CASE WriteVk
  <2>1. /\ disk' = [disk EXCEPT ![Key("verifier")] = "partial"]
        /\ step = "write_vk" /\ step' = "drop" /\ i' = i
    BY <1>5 DEF WriteVk, WriteKey, GoTo
  <2>2. disk'[Key("prover")] = "partial" /\ disk'[Key("verifier")] = "partial"
    BY <1>2, <1>3, <2>1 DEF IInv, Emptied
  <2>3. PairsMatch'
    BY <1>2, <1>3, <2>1, <2>2, PairsChanged, ContentTypes DEF IInv, Pairs, KeyNames
  <2>4. Key("prover")' = Key("prover") /\ Key("verifier")' = Key("verifier")
    BY <1>1, <2>1, SameKey
  <2> QED
    BY <2>1, <2>2, <2>3, <2>4 DEF Emptied
<1>6. CASE Drop
  <2>1. PICK bad \in SUBSET {Key("prover"), Key("verifier")} :
          disk' = [f \in DOMAIN disk |->
                     IF f \in bad THEN "partial"
                     ELSE IF f \in {Key("prover"), Key("verifier")} THEN loaded[i] ELSE disk[f]]
    BY <1>6 DEF Drop, Flush
  <2>2. \A f \in {Key("prover"), Key("verifier")} : disk'[f] \in {"partial", loaded[i]}
    BY <1>3, <2>1
  <2>3. Pairs(disk', k)
    BY <1>2, <2>2, ContentTypes DEF Pairs
  <2>4. \A f \in KeyNames : f.stem # k => disk'[f] = disk[f]
    <3>1. \A f \in KeyNames : f \in DOMAIN disk
      BY DEF KeyNames, IInv, TypeOK, Files, Exts
    <3> QED
      BY <1>2, <2>1, <3>1 DEF KeyNames
  <2>5. PairsMatch'
    BY <2>3, <2>4, PairsChanged DEF IInv
  <2>6. step' \in {"create_pk", "idle"}
    BY <1>6 DEF Drop, AfterDrop, NextFile, Exit
  <2> QED
    BY <2>5, <2>6 DEF Emptied
<1> QED
  BY <1>4, <1>5, <1>6

\* Whatever stops a run leaves at most one whole key where it was writing.
LEMMA StopSteps ==
  ASSUME IInv, Fail \/ Kill \/ Edit
  PROVE  Emptied' /\ PairsMatch'
<1>1. step' = "idle"
  BY DEF Fail, Kill, Edit, Exit
<1>2. Emptied'
  BY <1>1 DEF Emptied
<1>3. \A f \in KeyNames : f \in DOMAIN disk /\ f.ext \notin {"zkir", "bzkir"}
  BY DEF KeyNames, IInv, TypeOK, Files, Exts
<1>4. CASE Fail
  <2>1. PICK some, whole \in BOOLEAN :
          LET cut(f) == IF some THEN "partial" ELSE disk[f] IN
          disk' =
            CASE step = "write_bin" -> [disk EXCEPT ![Binary] = cut(Binary)]
              [] step = "write_pk" -> [disk EXCEPT ![Key("prover")] = cut(Key("prover"))]
              [] step = "write_vk" ->
                   [disk EXCEPT ![Key("verifier")] = cut(Key("verifier")),
                                ![Key("prover")] = IF whole THEN loaded[i] ELSE @]
              [] OTHER -> disk
    BY <1>4 DEF Fail
  <2>2. CASE step = "write_bin"
    <3>1. Binary.ext = "bzkir"
      BY DEF Binary
    <3>2. \A f \in KeyNames : f # Binary
      BY <1>3, <3>1
    <3> QED
      BY <1>2, <1>3, <2>1, <2>2, <3>2, PairsKept DEF IInv
  <2>3. CASE step \in {"write_pk", "write_vk"}
    <3>1. PICK k \in Dir : /\ Key("prover") = [stem |-> k, ext |-> "prover"]
                           /\ Key("verifier") = [stem |-> k, ext |-> "verifier"]
      BY <2>3, KeyPair DEF IInv, KeySteps
    <3>2. Key("prover") # Key("verifier")
      BY <3>1
    <3>3. disk[Key("verifier")] = "empty"
      BY <2>3 DEF IInv, Emptied
    <3>4. disk'[Key("verifier")] \in {"empty", "partial"}
      <4>1. CASE step = "write_pk"
        BY <2>1, <3>2, <3>3, <4>1
      <4>2. CASE step = "write_vk"
        <5>1. Key("verifier") \in KeyNames
          BY <3>1 DEF KeyNames
        <5>2. Key("verifier") \in DOMAIN disk
          BY <1>3, <5>1
        <5>3. \E c, p :
                /\ disk' = [disk EXCEPT ![Key("verifier")] = c, ![Key("prover")] = p]
                /\ c \in {"empty", "partial"}
          BY <2>1, <3>3, <4>2
        <5> QED
          BY <3>2, <5>2, <5>3
      <4> QED
        BY <2>3, <4>1, <4>2
    <3>5. \A f \in KeyNames : f.stem # k => disk'[f] = disk[f]
      <4>1. CASE step = "write_pk"
        BY <1>3, <2>1, <3>1, <4>1
      <4>2. CASE step = "write_vk"
        BY <1>3, <2>1, <3>1, <4>2
      <4> QED
        BY <2>3, <4>1, <4>2
    <3>6. Pairs(disk', k)
      BY <3>1, <3>4, ContentTypes DEF Pairs
    <3> QED
      BY <1>2, <3>5, <3>6, PairsChanged DEF IInv
  <2>4. CASE step \notin {"write_bin", "write_pk", "write_vk"}
    BY <1>2, <2>1, <2>4, PairsKept DEF IInv
  <2> QED
    BY <2>2, <2>3, <2>4
<1>5. CASE Kill
  BY <1>2, <1>5, PairsKept DEF Kill, IInv
<1>6. CASE Edit
  <2>1. PICK f \in Files, c \in Sources \cup {"absent", "partial"} :
          f.ext \in {"zkir", "bzkir"} /\ disk' = [disk EXCEPT ![f] = c]
    BY <1>6 DEF Edit
  <2>2. \A g \in KeyNames : g # f
    BY <1>3, <2>1
  <2>3. \A g \in KeyNames : disk'[g] = disk[g]
    BY <1>3, <2>1, <2>2
  <2> QED
    BY <1>2, <2>3, PairsKept DEF IInv
<1> QED
  BY <1>4, <1>5, <1>6

------------------------------------------------------------------------------
LEMMA InitInv == Init => IInv
<1> SUFFICES ASSUME Init PROVE IInv
  OBVIOUS
<1>1. TypeOK /\ Placed
  BY InitPlaced
<1>2. Emptied
  BY DEF Init, Emptied
<1>3. PairsMatch
  BY CliAssumption DEF Init, PairsMatch
<1> QED
  BY <1>1, <1>2, <1>3 DEF IInv

LEMMA StepInv == IInv /\ [Next]_vars => IInv'
<1> SUFFICES ASSUME IInv, [Next]_vars PROVE IInv'
  OBVIOUS
<1> USE DEF IInv
<1>1. CASE \E c \in Commands : Start(c)
  BY <1>1, StartPlaced, QuietSteps
<1>2. CASE List \/ Open
  BY <1>2, ListPlaced, OpenPlaced, QuietSteps
<1>3. CASE CreateBin \/ WriteBin
  BY <1>3, CreatePlaced, WriteBinPlaced, BinarySteps
<1>4. CASE Model
  BY <1>4, ModelPlaced, ModelKeys
<1>5. CASE CreatePk \/ CreateVk \/ Keygen
  BY <1>5, CreatePlaced, KeygenPlaced, KeySetup
<1>6. CASE WritePk \/ WriteVk \/ Drop
  BY <1>6, WriteKeyPlaced, DropPlaced, KeyWrites
<1>7. CASE Fail \/ Kill \/ Edit
  BY <1>7, StopPlaced, StopSteps
<1>8. CASE UNCHANGED vars
  BY <1>8 DEF vars, counters, run, TypeOK, Placed, Emptied, Key, PairsMatch, Pairs
<1> QED
  BY <1>1, <1>2, <1>3, <1>4, <1>5, <1>6, <1>7, <1>8 DEF Next, Work

\* The types of the variables, whatever the directories hold and whatever fails.
THEOREM CliTypeCorrect == CliSpec => []TypeOK
<1>1. IInv => TypeOK
  BY DEF IInv
<1> QED
  BY <1>1, InitInv, StepInv, PTL DEF CliSpec

\* A prover key never lies beside the verifier key of another source, for any number
\* of runs, edits, I/O errors and crashes (main.rs 216-230 and 238-264).
THEOREM KeysAreOfOneSource == CliSpec => []PairsMatch
<1>1. IInv => PairsMatch
  BY DEF IInv
<1> QED
  BY <1>1, InitInv, StepInv, PTL DEF CliSpec

------------------------------------------------------------------------------
(* What a run makes of the sources it found.  Everything is said of `before`,*)
(* which no step of the run changes.                                         *)

Ran == step # "idle" \/ exit # "none"     \* a run has begun since the last edit
Going == step # "idle" \/ exit = "ok"     \* and has not failed
Over == cmd.kind \in OverDirectory

HeldIn(d, s) == d[InputOf(d, s)]
\* What the n-th file of the run is to be compiled from, and what all are.
SourceOf(n) == IF Over THEN HeldIn(before, files[n]) ELSE before[cmd.ir]
Sought == IF Over THEN {HeldIn(before, s) : s \in Present(before)} ELSE {before[cmd.ir]}

\* A run changes no text, and no binary but one of a text.
SourcesKept ==
  Ran =>
    /\ \A k \in Dir :
         LET at(d, e) == d[[stem |-> k, ext |-> e]] IN
         /\ at(disk, "zkir") = at(before, "zkir")
         /\ \/ at(disk, "bzkir") = at(before, "bzkir")
            \/ at(before, "zkir") # "absent" /\ at(disk, "bzkir") # "absent"
    /\ ~Over => disk[cmd.ir] = before[cmd.ir]

Listed ==
  /\ exit # "none" => step = "idle"
  /\ Going /\ step # "list" /\ Over =>
       files \in Seq(ToSet(Stems)) /\ ToSet(files) = Present(before)

Loaded ==
  /\ Going => \A n \in 1..Len(loaded) : loaded[n] = SourceOf(n)
  /\ step \in LoadSteps \cup {"model"} /\ Over =>
       \A n \in 1..(i - 1) : SourceOf(n) \in Synthesizable

\* compile-many makes no key before every source is known to be laid out.
KeysLast ==
  cmd.kind = "compile-many" /\ Ran =>
    \/ step \notin KeySteps /\ \A f \in KeyNames : disk[f] = before[f]
    \/ Sought \subseteq Synthesizable

FailsFor ==
  exit = "failed" /\ "fault" \notin mishaps => ~(Sought \subseteq Synthesizable)

\* The binaries and the keys made so far.  Two stems that differ after their last
\* dot share them, and what they are compiled from as well.
Refreshed(n) == disk[[stem |-> Trunk(files[n]), ext |-> "bzkir"]] = SourceOf(n)
Keyed(n) == PairOf(Trunk(files[n])) = {SourceOf(n)}
Namesakes(m, n) == Trunk(files[m]) = Trunk(files[n])

BinariesDone ==
  "lost" \notin mishaps /\ Over =>
    /\ step \in LoadSteps \cup {"model"} =>
         \A n \in 1..(i - 1) : Refreshed(n) \/ (step = "write_bin" /\ Namesakes(n, i))
    /\ step = "model" => Refreshed(i)
    /\ step \in KeySteps \/ exit = "ok" => \A n \in 1..Len(files) : Refreshed(n)

KeysDone ==
  "lost" \notin mishaps =>
    /\ cmd.kind = "compile-many" /\ step \in KeySteps =>
         \A n \in 1..(i - 1) : Keyed(n) \/ (step # "create_pk" /\ Namesakes(n, i))
    /\ cmd.kind = "compile-many" /\ exit = "ok" => \A n \in 1..Len(files) : Keyed(n)
    /\ cmd.kind = "compile" /\ exit = "ok" => PairOf(cmd.out) = {before[cmd.ir]}

\* A binary is written only where the text was read.
Texts == step \in {"create_bin", "write_bin"} => Input.ext = "zkir" /\ disk[Input] \in Sources

RunInv == SourcesKept /\ Listed /\ Loaded /\ Texts /\ KeysLast /\ FailsFor
DoneInv == BinariesDone /\ KeysDone

------------------------------------------------------------------------------
(* The sources of a run are those it began with.                             *)

LEMMA HeldSame ==
  ASSUME NEW d, NEW b, NEW s,
         LET at(e, x) == x[[stem |-> Trunk(s), ext |-> e]] IN
         /\ at("zkir", d) = at("zkir", b)
         /\ at("bzkir", d) = at("bzkir", b) \/ at("zkir", b) # "absent"
  PROVE  HeldIn(d, s) = HeldIn(b, s)
BY DEF HeldIn, InputOf, WithExtension

LEMMA SourcesSame ==
  ASSUME SourcesKept, Ran
  PROVE  /\ Present(disk) = Present(before)
         /\ \A s \in ToSet(Stems) : HeldIn(disk, s) = HeldIn(before, s)
         /\ Targets = Sought
<1>1. \A s \in ToSet(Stems) : Holds(disk, s) <=> Holds(before, s)
  BY StemsInDir DEF SourcesKept, Holds
<1>2. Present(disk) = Present(before)
  BY <1>1 DEF Present
<1>3. \A s \in ToSet(Stems) : HeldIn(disk, s) = HeldIn(before, s)
  BY StemsInDir, HeldSame DEF SourcesKept
<1>4. \A s : Held(s) = HeldIn(disk, s)
  BY DEF Held, HeldIn, InputOf
<1>5. CASE Over
  <2>1. Targets = {HeldIn(disk, s) : s \in Present(disk)}
    BY <1>4, <1>5 DEF Targets, Over
  <2>2. Present(before) \subseteq ToSet(Stems)
    BY DEF Present
  <2>3. {HeldIn(disk, s) : s \in Present(before)} = {HeldIn(before, s) : s \in Present(before)}
    BY <1>3, <2>2
  <2> QED
    BY <1>2, <1>3, <1>5, <2>1, <2>3 DEF Sought
<1>6. CASE ~Over
  BY <1>2, <1>3, <1>6 DEF SourcesKept, Targets, Sought, Over
<1> QED
  BY <1>5, <1>6

\* The files a step may change: a binary while it is written, the two keys of the
\* position in the steps that make them.
LEMMA Writes ==
  ASSUME IInv, Work \/ Fail \/ Kill
  PROVE  /\ cmd' = cmd /\ before' = before
         /\ step # "list" => files' = files
         /\ \/ disk' = disk
            \/ /\ step \in {"create_bin", "write_bin"} /\ disk'[Binary] # "absent"
               /\ \A f \in Files : f # Binary => disk'[f] = disk[f]
            \/ /\ step \in KeySteps
               /\ \A f \in Files : f.ext \notin {"prover", "verifier"} => disk'[f] = disk[f]
<1> USE DEF IInv
<1>1. DOMAIN disk = Files
  BY DEF TypeOK
<1>2. ASSUME step \in KeySteps
      PROVE  Key("prover").ext = "prover" /\ Key("verifier").ext = "verifier"
  BY KeyPair, <1>2
<1>3. ASSUME step \in {"create_bin", "write_bin"}
      PROVE  Binary \in Files
  <2>1. PICK k \in Dir : Binary = [stem |-> k, ext |-> "bzkir"]
    BY <1>3, BinaryFile DEF LoadSteps
  <2> QED
    BY <2>1 DEF Files, Exts
<1>4. CASE List \/ Open \/ Model \/ Keygen \/ Kill
  BY <1>4 DEF List, Open, Model, Keygen, Kill, run
<1>5. CASE CreateBin
  BY <1>1, <1>3, <1>5 DEF CreateBin, Create, run
<1>6. CASE WriteBin
  <2>1. step = "write_bin" /\ loaded[i] # "absent"
    BY <1>6, LoadedIsSource, CliAssumption DEF WriteBin
  <2> QED
    BY <1>1, <1>3, <1>6, <2>1 DEF WriteBin, Flush, run
<1>7. CASE CreatePk \/ CreateVk
  BY <1>1, <1>2, <1>7 DEF CreatePk, CreateVk, Create, run, KeySteps
<1>8. CASE WritePk \/ WriteVk
  BY <1>1, <1>2, <1>8 DEF WritePk, WriteVk, WriteKey, run, KeySteps
<1>9. CASE Drop
  BY <1>1, <1>2, <1>9 DEF Drop, Flush, run, KeySteps
<1>10. CASE Fail
  <2>1. cmd' = cmd /\ before' = before /\ files' = files
    BY <1>10 DEF Fail, run
  <2>2. CASE step = "write_bin"
    <3>1. PICK c \in {"partial", disk[Binary]} : disk' = [disk EXCEPT ![Binary] = c]
      BY <1>10, <2>2 DEF Fail
    <3>2. Binary \in DOMAIN disk
      BY <1>1, <1>3, <2>2
    <3>3. disk'[Binary] = c /\ \A f \in Files : f # Binary => disk'[f] = disk[f]
      BY <1>1, <3>1, <3>2
    <3>4. c = "absent" => disk' = disk
      <4>1. c = "absent" => c = disk[Binary]
        OBVIOUS
      <4>2. disk = [f \in Files |-> disk[f]]
        BY DEF TypeOK
      <4>3. disk' = [f \in Files |-> IF f = Binary THEN c ELSE disk[f]]
        BY <1>1, <3>1
      <4> QED
        BY <4>1, <4>2, <4>3
    <3> QED
      BY <2>1, <2>2, <3>3, <3>4
  <2>3. CASE step = "write_pk"
    <3>1. \E c : disk' = [disk EXCEPT ![Key("prover")] = c]
      BY <1>10, <2>3 DEF Fail
    <3> QED
      BY <1>1, <1>2, <2>1, <2>3, <3>1 DEF KeySteps
  <2>4. CASE step = "write_vk"
    <3>1. \E c, p : disk' = [disk EXCEPT ![Key("verifier")] = c, ![Key("prover")] = p]
      BY <1>10, <2>4 DEF Fail
    <3> QED
      BY <1>1, <1>2, <2>1, <2>4, <3>1 DEF KeySteps
  <2>5. CASE step \notin {"write_bin", "write_pk", "write_vk"}
    BY <1>10, <2>1, <2>5 DEF Fail
  <2> QED
    BY <2>2, <2>3, <2>4, <2>5
<1> QED
  BY <1>4, <1>5, <1>6, <1>7, <1>8, <1>9, <1>10 DEF Work

LEMMA Running ==
  ASSUME IInv, RunInv, Work \/ Fail \/ Kill
  PROVE  step # "idle" /\ exit = "none" /\ Ran /\ Going
BY DEF IInv, RunInv, Listed, TypeOK, Exits, Ran, Going, Work, Fail, Kill, List, Open, CreateBin,
       WriteBin, Model, CreatePk, CreateVk, Keygen, WritePk, WriteVk, Drop, Create, WriteKey

LEMMA SourceSame ==
  ASSUME cmd' = cmd, files' = files, before' = before, NEW n
  PROVE  SourceOf(n)' = SourceOf(n)
BY DEF SourceOf, Over

LEMMA SoughtSame ==
  ASSUME cmd' = cmd, before' = before
  PROVE  Sought' = Sought
BY DEF Sought, Over

LEMMA SourceSought ==
  ASSUME Listed, Going, step # "list", NEW n \in 1..Len(files)
  PROVE  SourceOf(n) \in Sought /\ (Over => files[n] \in ToSet(Stems))
<1>1. CASE Over
  <2>1. files \in Seq(ToSet(Stems)) /\ ToSet(files) = Present(before)
    BY <1>1 DEF Listed
  <2>2. n \in DOMAIN files
    BY <2>1
  <2>3. files[n] \in Present(before)
    BY <2>1, <2>2 DEF ToSet
  <2> QED
    BY <1>1, <2>1, <2>3 DEF SourceOf, Sought
<1>2. CASE ~Over
  BY <1>2 DEF SourceOf, Sought
<1> QED
  BY <1>1, <1>2

LEMMA InputRight ==
  ASSUME IInv, RunInv, step \in LoadSteps
  PROVE  i \in 1..Len(files) /\ disk[Input] = SourceOf(i)
<1>1. i \in 1..Len(files) /\ Going /\ Ran /\ step # "list"
  BY DEF IInv, TypeOK, Placed, LoadSteps, Going, Ran
<1>2. CASE Over
  <2>1. files[i] \in ToSet(Stems)
    BY <1>1, <1>2, SourceSought DEF RunInv
  <2>2. HeldIn(disk, files[i]) = HeldIn(before, files[i])
    BY <1>1, <2>1, SourcesSame DEF RunInv
  <2> QED
    BY <1>1, <1>2, <2>2 DEF Input, Over, HeldIn, SourceOf
<1>3. CASE ~Over
  BY <1>1, <1>3 DEF RunInv, SourcesKept, Input, Over, SourceOf
<1> QED
  BY <1>2, <1>3

LEMMA TextFile ==
  ASSUME IInv, RunInv, step \in {"create_bin", "write_bin"}
  PROVE  \E k \in Dir : /\ Input = [stem |-> k, ext |-> "zkir"]
                        /\ Binary = [stem |-> k, ext |-> "bzkir"]
                        /\ disk[Input] # "absent" /\ before[Input] # "absent"
                        /\ Over => k = Trunk(files[i])
<1>1. Input \in Files /\ Input.ext = "zkir" /\ disk[Input] \in Sources /\ Ran
  BY InputFile DEF IInv, RunInv, Texts, LoadSteps, Ran
<1>2. PICK k \in Dir : Input = [stem |-> k, ext |-> "zkir"]
  BY <1>1 DEF Files
<1>3. disk[Input] = before[Input]
  BY <1>1, <1>2 DEF RunInv, SourcesKept
<1>4. Over => k = Trunk(files[i])
  BY <1>2 DEF Over, Input, InputOf, WithExtension
<1> QED
  BY <1>1, <1>2, <1>3, <1>4, CliAssumption DEF Binary

LEMMA SourcesKeptStep ==
  ASSUME IInv, RunInv, Work \/ Fail \/ Kill
  PROVE  SourcesKept'
<1>1. Ran /\ SourcesKept /\ cmd' = cmd /\ before' = before
  BY Running, Writes DEF RunInv
<1>2. CASE disk' = disk
  BY <1>1, <1>2 DEF SourcesKept, Over
<1>3. CASE /\ step \in {"create_bin", "write_bin"} /\ disk'[Binary] # "absent"
           /\ \A f \in Files : f # Binary => disk'[f] = disk[f]
  <2>1. PICK k \in Dir : /\ Input = [stem |-> k, ext |-> "zkir"]
                         /\ Binary = [stem |-> k, ext |-> "bzkir"]
                         /\ before[Input] # "absent"
    BY <1>3, TextFile
  <2>2. ~Over => cmd.ir = Input /\ cmd.ir \in Files
    BY <2>1 DEF Input, Over, Files, Exts
  <2>3. ~Over => disk'[cmd.ir] = disk[cmd.ir]
    BY <1>3, <2>1, <2>2
  <2>4. \A j \in Dir : [stem |-> j, ext |-> "zkir"] \in Files /\ [stem |-> j, ext |-> "bzkir"] \in Files
    BY DEF Files, Exts
  <2> QED
    BY <1>1, <1>3, <2>1, <2>3, <2>4 DEF SourcesKept, Over
<1>4. CASE \A f \in Files : f.ext \notin {"prover", "verifier"} => disk'[f] = disk[f]
  <2>1. cmd.ir \in Files /\ cmd.ir.ext \notin {"prover", "verifier"}
    BY CliAssumption DEF IInv, TypeOK, SourceFiles, Files, Exts
  <2>2. \A j \in Dir : [stem |-> j, ext |-> "zkir"] \in Files /\ [stem |-> j, ext |-> "bzkir"] \in Files
    BY DEF Files, Exts
  <2> QED
    BY <1>1, <1>4, <2>1, <2>2 DEF SourcesKept, Over
<1> QED
  BY <1>2, <1>3, <1>4, Writes

LEMMA TextsStep ==
  ASSUME IInv, RunInv, Work \/ Fail \/ Kill
  PROVE  Texts'
<1>1. CASE Open
  <2>1. disk' = disk /\ files' = files /\ cmd' = cmd
    BY <1>1 DEF Open, run
  <2>2. step' \in {"create_bin", "write_bin"} =>
          disk[Input] \in Sources /\ Input.ext = "zkir" /\ i' = i
    BY <1>1 DEF Open, AfterLoad, GoTo, Exit
  <2> QED
    BY <2>1, <2>2 DEF Texts, Input, InputOf, WithExtension
<1>2. CASE CreateBin
  <2>1. step = "create_bin" /\ i' = i /\ files' = files /\ cmd' = cmd
    BY <1>2 DEF CreateBin, Create, GoTo, run
  <2>2. PICK k \in Dir : /\ Input = [stem |-> k, ext |-> "zkir"]
                         /\ Binary = [stem |-> k, ext |-> "bzkir"]
                         /\ disk[Input] # "absent"
                         /\ Over => k = Trunk(files[i])
    BY <2>1, TextFile
  <2>3. disk'[Input] = disk[Input]
    BY <1>2, <2>2 DEF CreateBin, Create, IInv, TypeOK, Files, Exts
  <2>4. Input' = Input
    BY <2>1, <2>2, <2>3 DEF Input, InputOf, WithExtension, Over
  <2>5. disk[Input] \in Sources
    BY <2>1 DEF RunInv, Texts
  <2> QED
    BY <2>2, <2>3, <2>4, <2>5 DEF Texts
<1>3. CASE ~(Open \/ CreateBin)
  <2>1. step' \notin {"create_bin", "write_bin"}
    BY <1>3 DEF Work, Fail, Kill, List, WriteBin, Model, CreatePk, CreateVk, Keygen, WritePk, WriteVk,
                Drop, Create, WriteKey, GoTo, Exit, NextFile, AfterLoad, AfterModel, AfterDrop
  <2> QED
    BY <2>1 DEF Texts
<1> QED
  BY <1>1, <1>2, <1>3

LEMMA ListingHolds ==
  ASSUME NEW d, NEW fs \in Listings(d)
  PROVE  ToSet(fs) = Present(d)
BY DEF Listings, ToSet

LEMMA ListedStep ==
  ASSUME IInv, RunInv, Work \/ Fail \/ Kill
  PROVE  Listed'
<1>1. step # "idle" /\ exit = "none" /\ Ran /\ Going
  BY Running
<1>2. exit' # "none" => step' = "idle"
  BY <1>1 DEF Work, Fail, Kill, List, Open, CreateBin, WriteBin, Model, CreatePk, CreateVk, Keygen,
              WritePk, WriteVk, Drop, Create, WriteKey, GoTo, Exit, NextFile, AfterLoad, AfterModel,
              AfterDrop
<1>3. cmd' = cmd /\ before' = before /\ (step # "list" => files' = files)
  BY Writes
<1>4. CASE step # "list"
  BY <1>1, <1>2, <1>3, <1>4 DEF RunInv, Listed, Over
<1>5. CASE List
  <2>1. files' \in Listings(disk)
    BY <1>5 DEF List
  <2>2. files' \in Seq(ToSet(Stems)) /\ ToSet(files') = Present(before)
    BY <1>1, <2>1, ListingHolds, ListingsAreLists, SourcesSame DEF RunInv
  <2> QED
    BY <1>2, <1>3, <2>2 DEF Listed
<1>6. CASE step = "list" /\ ~List
  <2>1. Fail \/ Kill
    BY <1>6 DEF Work, Open, CreateBin, WriteBin, Model, CreatePk, CreateVk, Keygen,
                WritePk, WriteVk, Drop, Create, WriteKey
  <2>2. step' = "idle" /\ exit' # "ok"
    BY <2>1 DEF Fail, Kill, Exit
  <2> QED
    BY <1>2, <2>2 DEF Listed, Going
<1> QED
  BY <1>4, <1>5, <1>6

\* What the position and the list of sources become.
LEMMA LoadedStep ==
  ASSUME IInv, RunInv, Work \/ Fail \/ Kill
  PROVE  Loaded'
<1>1. Going /\ Ran /\ cmd' = cmd /\ before' = before /\ (step # "list" => files' = files)
  BY Running, Writes
<1>2. CASE List
  <2>1. loaded' = <<>> /\ (step' \in LoadSteps \cup {"model"} => i' = 1)
    BY <1>2 DEF List, IInv, Placed, GoTo, Exit, LoadSteps
  <2> QED
    BY <2>1 DEF Loaded
<1>3. CASE ~List /\ step # "list"
  <2>1. \A n : SourceOf(n)' = SourceOf(n)
    BY <1>1, <1>3, SourceSame
  <2>2. CASE Open /\ disk[Input] \in Sources
    <3>1. loaded' = Append(loaded, disk[Input]) /\ Len(loaded) = i - 1 /\ i' = i /\ step = "open"
      BY <2>2 DEF Open, AfterLoad, GoTo, IInv, Placed
    <3>2. disk[Input] = SourceOf(i) /\ i \in Nat
      BY <3>1, InputRight DEF LoadSteps, IInv, TypeOK
    <3>3. loaded \in Seq(Sources)
      BY DEF IInv, TypeOK
    <3>4. \A n \in 1..Len(loaded') : loaded'[n] = SourceOf(n)
      BY <1>1, <2>2, <3>1, <3>2, <3>3 DEF RunInv, Loaded
    <3> QED
      BY <1>1, <2>1, <3>1, <3>4 DEF RunInv, Loaded, LoadSteps, Over
  <2>3. CASE Model
    <3>1. loaded' = loaded /\ Len(loaded) = i /\ i \in Nat \ {0} /\ i <= Len(loaded)
      BY <2>3 DEF Model, IInv, Placed, TypeOK
    <3>2. SourceOf(i) = loaded[i]
      BY <1>1, <3>1 DEF RunInv, Loaded
    <3>3. step' \in LoadSteps \cup {"model"} /\ Over => i' = i + 1 /\ loaded[i] \in Synthesizable
      BY <2>3 DEF Model, AfterModel, NextFile, GoTo, Exit, LoadSteps, Over, OverDirectory
    <3>4. step = "model"
      BY <2>3 DEF Model
    <3>5. \A n \in 1..Len(loaded) : loaded[n] = SourceOf(n)
      BY <1>1 DEF RunInv, Loaded
    <3>6. Over => \A n \in 1..(i - 1) : SourceOf(n) \in Synthesizable
      BY <3>4 DEF RunInv, Loaded
    <3>7. step' \in LoadSteps \cup {"model"} /\ Over => \A n \in 1..(i' - 1) : SourceOf(n) \in Synthesizable
      BY <3>1, <3>2, <3>3, <3>6
    <3>8. Over' = Over
      BY <1>1 DEF Over
    <3> QED
      BY <2>1, <3>1, <3>5, <3>7, <3>8 DEF Loaded
  <2>4. CASE ~Model /\ ~(Open /\ disk[Input] \in Sources)
    <3>1. loaded' = loaded
      BY <1>3, <2>4 DEF Work, Fail, Kill, Open, CreateBin, WriteBin, CreatePk, CreateVk, Keygen,
                        WritePk, WriteVk, Drop, Create, WriteKey
    <3>2. step' \in LoadSteps \cup {"model"} /\ Over => step \in LoadSteps /\ i' = i
      BY <1>3, <2>4 DEF Work, Fail, Kill, Open, CreateBin, WriteBin, CreatePk, CreateVk, Keygen,
                        WritePk, WriteVk, Drop, Create, WriteKey, GoTo, Exit, NextFile, AfterLoad,
                        AfterDrop, LoadSteps, Over, OverDirectory
    <3>3. Over' = Over
      BY <1>1 DEF Over
    <3> QED
      BY <1>1, <2>1, <3>1, <3>2, <3>3 DEF RunInv, Loaded
  <2> QED
    BY <2>2, <2>3, <2>4
<1>4. CASE ~List /\ step = "list"
  <2>1. step' = "idle" /\ exit' # "ok"
    BY <1>4 DEF Work, Fail, Kill, Open, CreateBin, WriteBin, Model, CreatePk, CreateVk, Keygen,
                WritePk, WriteVk, Drop, Create, WriteKey, Exit
  <2> QED
    BY <2>1 DEF Loaded, Going, LoadSteps
<1> QED
  BY <1>2, <1>3, <1>4 DEF List

LEMMA KeysLastStep ==
  ASSUME IInv, RunInv, Work \/ Fail \/ Kill
  PROVE  KeysLast'
<1>1. Going /\ Ran /\ cmd' = cmd /\ before' = before /\ (step # "list" => files' = files)
  BY Running, Writes
<1>2. Sought' = Sought
  BY <1>1, SoughtSame
<1> SUFFICES ASSUME cmd.kind = "compile-many", ~(Sought \subseteq Synthesizable)
             PROVE  step' \notin KeySteps /\ \A f \in KeyNames : disk'[f] = before[f]
  BY <1>1, <1>2 DEF KeysLast
<1>3. step \notin KeySteps /\ \A f \in KeyNames : disk[f] = before[f]
  BY <1>1 DEF RunInv, KeysLast
<1>4. \A f \in KeyNames : disk'[f] = disk[f]
  <2>1. \A f \in KeyNames : f # Binary /\ f \in Files
    <3>1. Binary.ext = "bzkir"
      BY DEF Binary
    <3>2. \A f \in KeyNames : f.ext \in {"prover", "verifier"} /\ f \in Files
      BY DEF KeyNames, Files, Exts
    <3> QED
      BY <3>1, <3>2
  <2> QED
    BY <1>3, <2>1, Writes
<1>5. step' \notin KeySteps
  <2>1. CASE Model
    <3> SUFFICES ASSUME step' \in KeySteps
                 PROVE  FALSE
      OBVIOUS
    <3>1. step = "model" /\ i \in Nat /\ i <= Len(files) /\ Len(loaded) = i /\ i \in 1..Len(loaded)
      BY <2>1 DEF Model, IInv, Placed, TypeOK
    <3>2. loaded[i] \in Synthesizable /\ i = Len(files)
      BY <2>1, <3>1 DEF Model, AfterModel, NextFile, GoTo, Exit, KeySteps
    <3>3. Over
      BY DEF Over, OverDirectory
    <3>4. \A n \in 1..Len(files) : SourceOf(n) \in Synthesizable
      BY <1>1, <3>1, <3>2, <3>3 DEF RunInv, Loaded
    <3>5. files \in Seq(ToSet(Stems)) /\ ToSet(files) = Present(before)
      BY <1>1, <3>1, <3>3 DEF RunInv, Listed
    <3>6. \A s \in Present(before) : \E n \in 1..Len(files) : files[n] = s
      BY <3>5 DEF ToSet
    <3> QED
      BY <3>3, <3>4, <3>6 DEF SourceOf, Sought
  <2>2. CASE ~Model
    BY <1>3, <2>2 DEF Work, Fail, Kill, List, Open, CreateBin, WriteBin, CreatePk, CreateVk, Keygen,
                      WritePk, WriteVk, Drop, Create, WriteKey, GoTo, Exit, NextFile, AfterLoad,
                      AfterDrop, KeySteps
  <2> QED
    BY <2>1, <2>2
<1> QED
  BY <1>3, <1>4, <1>5

LEMMA FailsForStep ==
  ASSUME IInv, RunInv, Work \/ Fail \/ Kill
  PROVE  FailsFor'
<1>1. Going /\ Ran /\ exit = "none" /\ cmd' = cmd /\ before' = before
  BY Running, Writes
<1>2. Sought' = Sought
  BY <1>1, SoughtSame
<1> SUFFICES ASSUME exit' = "failed", "fault" \notin mishaps'
             PROVE  ~(Sought \subseteq Synthesizable)
  BY <1>2 DEF FailsFor
<1>3. \/ Open /\ disk[Input] \notin Sources
      \/ Model /\ loaded[i] \notin Synthesizable
  BY <1>1 DEF Work, Fail, Kill, List, Open, CreateBin, WriteBin, Model, CreatePk, CreateVk, Keygen,
              WritePk, WriteVk, Drop, Create, WriteKey, GoTo, Exit, NextFile, AfterLoad, AfterModel,
              AfterDrop
<1>4. CASE Open /\ disk[Input] \notin Sources
  <2>1. step = "open" /\ i \in 1..Len(files) /\ disk[Input] = SourceOf(i)
    BY <1>4, InputRight DEF Open, LoadSteps
  <2>2. SourceOf(i) \in Sought
    BY <1>1, <2>1, SourceSought DEF RunInv
  <2> QED
    BY <1>4, <2>1, <2>2, CliAssumption
<1>5. CASE Model /\ loaded[i] \notin Synthesizable
  <2>1. step = "model" /\ i \in 1..Len(files) /\ i \in 1..Len(loaded)
    BY <1>5 DEF Model, IInv, Placed, TypeOK
  <2>2. SourceOf(i) \in Sought /\ loaded[i] = SourceOf(i)
    BY <1>1, <2>1, SourceSought DEF RunInv, Loaded
  <2> QED
    BY <1>5, <2>2
<1> QED
  BY <1>3, <1>4, <1>5

LEMMA StartRun ==
  ASSUME IInv, NEW c \in Commands, Start(c)
  PROVE  RunInv' /\ DoneInv'
<1>1. /\ disk' = disk /\ before' = disk /\ cmd' = c /\ loaded' = <<>> /\ i' = 1
      /\ exit' = "none" /\ step' = IF c.kind \in OverDirectory THEN "list" ELSE "open"
  BY DEF Start
<1>2. SourcesKept' /\ Listed' /\ KeysLast' /\ FailsFor' /\ Texts'
  BY <1>1 DEF SourcesKept, Listed, Going, KeysLast, KeySteps, FailsFor, Texts, Over
<1>3. Loaded'
  BY <1>1 DEF Loaded
<1>4. BinariesDone' /\ KeysDone'
  BY <1>1 DEF BinariesDone, KeysDone, KeySteps, LoadSteps
<1> QED
  BY <1>2, <1>3, <1>4 DEF RunInv, DoneInv

\* Nothing is claimed of a run once its sources have been edited.
LEMMA EditRun ==
  ASSUME Edit
  PROVE  RunInv' /\ DoneInv'
<1>1. step' = "idle" /\ exit' = "none"
  BY DEF Edit
<1>2. RunInv'
  BY <1>1 DEF RunInv, SourcesKept, Ran, Listed, Going, Loaded, Texts, KeysLast, FailsFor, LoadSteps
<1>3. DoneInv'
  BY <1>1 DEF DoneInv, BinariesDone, KeysDone, KeySteps, LoadSteps
<1> QED
  BY <1>2, <1>3

LEMMA RunInvStep ==
  ASSUME IInv, RunInv, [Next]_vars
  PROVE  RunInv'
<1>1. CASE \E c \in Commands : Start(c)
  BY <1>1, StartRun
<1>2. CASE Work \/ Fail \/ Kill
  BY <1>2, SourcesKeptStep, ListedStep, LoadedStep, TextsStep, KeysLastStep, FailsForStep DEF RunInv
<1>3. CASE Edit
  BY <1>3, EditRun
<1>4. CASE UNCHANGED vars
  <2>1. /\ disk' = disk /\ cmd' = cmd /\ files' = files /\ i' = i /\ loaded' = loaded /\ step' = step
        /\ exit' = exit /\ mishaps' = mishaps /\ before' = before
    BY <1>4 DEF vars
  <2>2. \A n : SourceOf(n)' = SourceOf(n)
    BY <2>1, SourceSame
  <2>3. Sought' = Sought /\ Over' = Over /\ Ran' = Ran /\ Going' = Going
    BY <2>1, SoughtSame DEF Over, Ran, Going
  <2>4. SourcesKept' /\ Listed' /\ Texts'
    BY <2>1, <2>3 DEF RunInv, SourcesKept, Listed, Texts, Input, InputOf
  <2>5. Loaded' /\ KeysLast' /\ FailsFor'
    BY <2>1, <2>2, <2>3 DEF RunInv, Loaded, KeysLast, FailsFor
  <2> QED
    BY <2>4, <2>5 DEF RunInv
<1> QED
  BY <1>1, <1>2, <1>3, <1>4 DEF Next

LEMMA RunInvInit == Init => RunInv
BY DEF Init, RunInv, SourcesKept, Ran, Listed, Going, Loaded, LoadSteps, Texts, KeysLast, FailsFor

LEMMA InvHolds == CliSpec => [](IInv /\ RunInv)
<1>1. IInv /\ RunInv /\ [Next]_vars => (IInv /\ RunInv)'
  BY StepInv, RunInvStep
<1> QED
  BY <1>1, InitInv, RunInvInit, PTL DEF CliSpec

LEMMA EndedTargets ==
  ASSUME RunInv, exit # "none"
  PROVE  Targets = Sought /\ step = "idle"
BY SourcesSame DEF RunInv, Ran, Listed

\* A compile-many that has ended while one of the sources of its directory cannot
\* be read or laid out, because of that or for any other reason, has touched no key
\* of the directory (main.rs 187-204 come before 215-230).
THEOREM AllLoadBeforeKeys == CliSpec => []NoKeyUnlessAllLoad
<1>1. ASSUME IInv, RunInv
      PROVE  NoKeyUnlessAllLoad
  <2> SUFFICES ASSUME cmd.kind = "compile-many", exit # "none", ~(Targets \subseteq Synthesizable),
                      NEW f \in Files, f.ext \in {"prover", "verifier"}
               PROVE  disk[f] = before[f]
    BY DEF NoKeyUnlessAllLoad
  <2>1. ~(Sought \subseteq Synthesizable)
    BY <1>1, EndedTargets
  <2>2. f \in KeyNames
    BY DEF Files, KeyNames
  <2> QED
    BY <1>1, <2>1, <2>2 DEF RunInv, KeysLast, Ran
<1> QED
  BY <1>1, InvHolds, PTL

\* A run that fails though no operation on a file failed has met a source that
\* cannot be read or laid out: what killed and failed runs leave in the directory
\* never stops a later one (main.rs 83-103).
THEOREM FailuresHaveReasons == CliSpec => []FailsForAReason
<1>1. ASSUME IInv, RunInv
      PROVE  FailsForAReason
  BY <1>1, EndedTargets DEF FailsForAReason, RunInv, FailsFor
<1> QED
  BY <1>1, InvHolds, PTL

------------------------------------------------------------------------------
(* What a run has made when it ends well.                                    *)

LEMMA SameNameSameSource ==
  ASSUME Over, NEW m, NEW n, Namesakes(m, n)
  PROVE  SourceOf(m) = SourceOf(n)
BY DEF SourceOf, Namesakes, HeldIn, InputOf, WithExtension

LEMMA LostStays ==
  ASSUME Work, "lost" \notin mishaps'
  PROVE  "lost" \notin mishaps
BY DEF Work, List, Open, CreateBin, WriteBin, Model, CreatePk, CreateVk, Keygen, WritePk, WriteVk,
       Drop, Create, WriteKey, Flush

\* When no flush fails, what is written is what was loaded.
LEMMA FlushWhole ==
  ASSUME TypeOK, NEW fs \in SUBSET Files, NEW s, Flush(fs, s), "lost" \notin mishaps'
  PROVE  \A f \in Files : disk'[f] = IF f \in fs THEN s ELSE disk[f]
BY DEF Flush, TypeOK

LEMMA BinariesDoneStep ==
  ASSUME IInv, RunInv, DoneInv, Work \/ Fail \/ Kill
  PROVE  BinariesDone'
<1>1. /\ Going /\ Ran /\ step # "idle" /\ exit = "none"
      /\ cmd' = cmd /\ before' = before /\ (step # "list" => files' = files)
  BY Running, Writes
<1>2. CASE Fail \/ Kill
  <2>1. step' = "idle" /\ exit' # "ok"
    BY <1>2 DEF Fail, Kill, Exit
  <2> QED
    BY <2>1 DEF BinariesDone, LoadSteps, KeySteps
<1>3. CASE Work
  <2> SUFFICES ASSUME "lost" \notin mishaps', Over, Over'
               PROVE  BinariesDone'
    BY <1>1 DEF BinariesDone, Over
  <2>1. "lost" \notin mishaps /\ BinariesDone
    BY <1>3, LostStays DEF DoneInv
  <2>2. cmd.kind # "compile"
    BY DEF Over, OverDirectory
  <2>3. i \in Nat \ {0}
    BY DEF IInv, TypeOK
  <2>4. CASE List
    <3>1. files' = <<>> => step' = "idle"
      BY <2>4 DEF List, Exit
    <3>2. files' # <<>> => step' = "open" /\ i' = 1 /\ exit' # "ok"
      BY <1>1, <2>4 DEF List, GoTo, IInv, Placed
    <3> QED
      BY <3>1, <3>2 DEF BinariesDone, LoadSteps, KeySteps
  <2> SUFFICES ASSUME ~List
               PROVE  BinariesDone'
    BY <2>4
  <2>5. files' = files /\ \A n : SourceOf(n)' = SourceOf(n)
    BY <1>1, <1>3, SourceSame DEF Work, Open, CreateBin, WriteBin, Model, CreatePk, CreateVk, Keygen,
       WritePk, WriteVk, Drop, Create, WriteKey
  <2>6. CASE Open
    <3>1. disk' = disk /\ step = "open"
      BY <2>6 DEF Open
    <3>2. CASE disk[Input] \notin Sources
      <4>1. step' = "idle" /\ exit' = "failed"
        BY <2>6, <3>2 DEF Open, Exit
      <4> QED
        BY <4>1 DEF BinariesDone, LoadSteps, KeySteps
    <3>3. CASE disk[Input] \in Sources
      <4>1. i' = i /\ exit' = exit /\ step' = IF Input.ext = "zkir" THEN "create_bin" ELSE "model"
        BY <2>2, <2>6, <3>3 DEF Open, AfterLoad, GoTo
      <4>2. Input.ext # "zkir" => Refreshed(i)
        <5>1. disk[Input] = SourceOf(i)
          BY <3>1, InputRight DEF LoadSteps
        <5> QED
          BY <5>1 DEF Input, InputOf, WithExtension, Refreshed, Over
      <4> QED
        BY <1>1, <2>1, <2>5, <3>1, <4>1, <4>2 DEF BinariesDone, Refreshed, LoadSteps, KeySteps
    <3> QED
      BY <3>2, <3>3
  <2>7. CASE CreateBin \/ WriteBin
    <3>1. step \in {"create_bin", "write_bin"} /\ i' = i /\ exit' = exit
      BY <2>7 DEF CreateBin, WriteBin, Create, AfterLoad, GoTo
    <3>2. Binary = [stem |-> Trunk(files[i]), ext |-> "bzkir"] /\ Binary \in Files
      <4>1. PICK k \in Dir : Binary = [stem |-> k, ext |-> "bzkir"] /\ (Over => k = Trunk(files[i]))
        BY <3>1, TextFile
      <4> QED
        BY <4>1 DEF Files, Exts
    <3>3. \A n \in 1..(i - 1) : [stem |-> Trunk(files[n]), ext |-> "bzkir"] \in Files
      <4>1. \A n \in 1..(i - 1) : n \in 1..Len(files)
        BY <2>3, <3>1 DEF IInv, Placed, LoadSteps
      <4>2. \A n \in 1..(i - 1) : files[n] \in ToSet(Stems)
        BY <1>1, <3>1, <4>1, SourceSought DEF RunInv
      <4> QED
        BY <4>2, StemsInDir DEF Files, Exts
    <3>4. CASE CreateBin
      <4>1. step = "create_bin" /\ step' = "write_bin"
        BY <3>4 DEF CreateBin, Create, GoTo
      <4>2. \A f \in Files : f # Binary => disk'[f] = disk[f]
        BY <3>4 DEF CreateBin, Create, IInv, TypeOK
      <4>3. \A n \in 1..(i - 1) : Refreshed(n)
        BY <2>1, <4>1 DEF BinariesDone, LoadSteps
      <4>4. \A n \in 1..(i - 1) : ~Namesakes(n, i) =>
              disk'[[stem |-> Trunk(files[n]), ext |-> "bzkir"]] = SourceOf(n)
        BY <3>2, <3>3, <4>2, <4>3 DEF Namesakes, Refreshed
      <4>5. \A n \in 1..(i - 1) : Refreshed(n)' \/ Namesakes(n, i)'
        BY <2>5, <3>1, <4>4 DEF Refreshed, Namesakes
      <4> QED
        BY <1>1, <3>1, <4>1, <4>5 DEF BinariesDone, LoadSteps, KeySteps
    <3>5. CASE WriteBin
      <4>1. step = "write_bin" /\ step' = "model" /\ Len(loaded) = i
        BY <2>2, <3>5 DEF WriteBin, AfterLoad, GoTo, IInv, Placed
      <4>2. \A f \in Files : disk'[f] = IF f = Binary THEN loaded[i] ELSE disk[f]
        BY <3>2, <3>5, FlushWhole DEF WriteBin, IInv
      <4>3. loaded[i] = SourceOf(i)
        BY <1>1, <2>3, <4>1 DEF RunInv, Loaded
      <4>4. disk'[[stem |-> Trunk(files[i]), ext |-> "bzkir"]] = SourceOf(i)
        BY <3>2, <4>2, <4>3
      <4>5. \A n \in 1..(i - 1) : disk'[[stem |-> Trunk(files[n]), ext |-> "bzkir"]] = SourceOf(n)
        <5> SUFFICES ASSUME NEW n \in 1..(i - 1)
                     PROVE  disk'[[stem |-> Trunk(files[n]), ext |-> "bzkir"]] = SourceOf(n)
          OBVIOUS
        <5>1. CASE Namesakes(n, i)
          BY <4>4, <5>1, SameNameSameSource DEF Namesakes
        <5>2. CASE ~Namesakes(n, i)
          <6>1. Refreshed(n)
            BY <2>1, <4>1, <5>2 DEF BinariesDone, LoadSteps
          <6> QED
            BY <3>2, <3>3, <4>2, <5>2, <6>1 DEF Namesakes, Refreshed
        <5> QED
          BY <5>1, <5>2
      <4>6. Refreshed(i)' /\ \A n \in 1..(i - 1) : Refreshed(n)'
        BY <2>5, <3>1, <4>4, <4>5 DEF Refreshed
      <4> QED
        BY <1>1, <3>1, <4>1, <4>6 DEF BinariesDone, LoadSteps, KeySteps
    <3> QED
      BY <2>7, <3>4, <3>5
  <2>8. CASE Model
    <3>1. disk' = disk /\ step = "model" /\ i <= Len(files)
      BY <2>8 DEF Model, IInv, Placed
    <3>2. \A n \in 1..i : Refreshed(n)
      <4>1. Refreshed(i) /\ \A n \in 1..(i - 1) : Refreshed(n)
        BY <2>1, <3>1 DEF BinariesDone, LoadSteps
      <4>2. \A n \in 1..i : n = i \/ n \in 1..(i - 1)
        BY <2>3
      <4> QED
        BY <4>1, <4>2
    <3>3. \A n \in 1..i : Refreshed(n)'
      BY <2>5, <3>1, <3>2 DEF Refreshed
    <3>4. \/ step' = "open" /\ i' = i + 1 /\ exit' # "ok"
          \/ step' = "create_pk" /\ i = Len(files) /\ exit' # "ok"
          \/ step' = "idle" /\ exit' = "ok" /\ i = Len(files)
          \/ step' = "idle" /\ exit' = "failed"
      BY <1>1, <2>2, <2>3, <2>8, <3>1 DEF Model, AfterModel, NextFile, Exit, GoTo
    <3> QED
      BY <2>3, <2>5, <3>3, <3>4 DEF BinariesDone, LoadSteps, KeySteps
  <2>9. CASE CreatePk \/ CreateVk \/ Keygen \/ WritePk \/ WriteVk \/ Drop
    <3>1. step \in KeySteps /\ step' \notin LoadSteps \cup {"model"}
      BY <2>2, <2>9 DEF CreatePk, CreateVk, Keygen, WritePk, WriteVk, Drop, Create, WriteKey, GoTo, Exit,
         NextFile, AfterDrop, LoadSteps, KeySteps
    <3>2. \A f \in Files : f.ext \notin {"prover", "verifier"} => disk'[f] = disk[f]
      BY <1>3, <3>1, Writes DEF KeySteps
    <3>3. \A n \in 1..Len(files) : Refreshed(n) /\ files[n] \in ToSet(Stems)
      BY <1>1, <2>1, <3>1, SourceSought DEF RunInv, BinariesDone, KeySteps
    <3>4. \A n \in 1..Len(files) : [stem |-> Trunk(files[n]), ext |-> "bzkir"] \in Files
      BY <3>3, StemsInDir DEF Files, Exts
    <3>5. \A n \in 1..Len(files) : Refreshed(n)'
      BY <2>5, <3>2, <3>3, <3>4 DEF Refreshed
    <3> QED
      BY <2>5, <3>1, <3>5 DEF BinariesDone
  <2> QED
    BY <1>3, <2>6, <2>7, <2>8, <2>9 DEF Work
<1> QED
  BY <1>2, <1>3

\* The key files of the position, by the stem they are named for.
LEMMA KeyNamed ==
  ASSUME cmd.kind = "compile-many", NEW e
  PROVE  Key(e) = [stem |-> Trunk(files[i]), ext |-> e]
BY DEF Key, WithExtension

LEMMA KeyStepWrites ==
  ASSUME IInv, Work, step \in KeySteps
  PROVE  \A f \in Files : f \notin {Key("prover"), Key("verifier")} => disk'[f] = disk[f]
BY DEF IInv, TypeOK, KeySteps, Work, List, Open, CreateBin, WriteBin, Model, CreatePk, CreateVk, Keygen,
       WritePk, WriteVk, Drop, Create, WriteKey, Flush

\* When the writers of both keys have been dropped, both are of the source loaded.
LEMMA DropKeys ==
  ASSUME IInv, RunInv, Drop, "lost" \notin mishaps'
  PROVE  /\ i \in 1..Len(files)
         /\ disk'[Key("prover")] = SourceOf(i) /\ disk'[Key("verifier")] = SourceOf(i)
<1>1. step = "drop"
  BY DEF Drop
<1>2. i \in 1..Len(files) /\ i \in 1..Len(loaded)
  BY <1>1 DEF IInv, TypeOK, Placed, KeySteps
<1>3. loaded[i] = SourceOf(i)
  BY <1>1, <1>2 DEF RunInv, Loaded, Going
<1>4. Key("prover") \in Files /\ Key("verifier") \in Files
  <2>1. PICK k \in Dir : /\ Key("prover") = [stem |-> k, ext |-> "prover"]
                         /\ Key("verifier") = [stem |-> k, ext |-> "verifier"]
    BY <1>1, KeyPair DEF IInv, KeySteps
  <2> QED
    BY <2>1 DEF Files, Exts
<1>5. {Key("prover"), Key("verifier")} \in SUBSET Files
  BY <1>4
<1>6. Flush({Key("prover"), Key("verifier")}, loaded[i])
  BY DEF Drop
<1>7. \A f \in Files : disk'[f] = IF f \in {Key("prover"), Key("verifier")} THEN loaded[i] ELSE disk[f]
  BY <1>5, <1>6, FlushWhole DEF IInv
<1> QED
  BY <1>2, <1>3, <1>4, <1>7

LEMMA KeysDoneStep ==
  ASSUME IInv, RunInv, DoneInv, Work \/ Fail \/ Kill
  PROVE  KeysDone'
<1>1. /\ Going /\ Ran /\ step # "idle" /\ exit = "none"
      /\ cmd' = cmd /\ before' = before /\ (step # "list" => files' = files)
  BY Running, Writes
<1>2. CASE Fail \/ Kill
  <2>1. step' = "idle" /\ exit' # "ok"
    BY <1>2 DEF Fail, Kill, Exit
  <2> QED
    BY <2>1 DEF KeysDone, KeySteps
<1>3. CASE Work /\ step \notin KeySteps
  <2>1. /\ cmd.kind = "compile-many" /\ step' \in KeySteps => i' = 1
        /\ exit' = "ok" => cmd.kind \notin {"compile", "compile-many"} \/ files' = <<>>
    BY <1>1, <1>3 DEF Work, List, Open, CreateBin, WriteBin, Model, CreatePk, CreateVk, Keygen, WritePk,
       WriteVk, Drop, Create, WriteKey, GoTo, Exit, NextFile, AfterLoad, AfterModel, KeySteps
  <2>2. exit' = "ok" => cmd.kind # "compile"
    <3>1. List => cmd.kind # "compile"
      BY DEF List, IInv, Placed, OverDirectory
    <3>2. ~List /\ exit' = "ok" => cmd.kind # "compile"
      BY <1>1, <1>3 DEF Work, Open, CreateBin, WriteBin, Model, CreatePk, CreateVk, Keygen, WritePk,
         WriteVk, Drop, Create, WriteKey, GoTo, Exit, NextFile, AfterLoad, AfterModel, KeySteps
    <3> QED
      BY <3>1, <3>2
  <2> QED
    BY <1>1, <2>1, <2>2 DEF KeysDone
<1>4. CASE Work /\ step \in KeySteps
  <2> SUFFICES ASSUME "lost" \notin mishaps'
               PROVE  KeysDone'
    BY DEF KeysDone
  <2>1. "lost" \notin mishaps /\ KeysDone
    BY <1>4, LostStays DEF DoneInv
  <2>2. files' = files /\ \A n : SourceOf(n)' = SourceOf(n)
    BY <1>1, <1>4, SourceSame DEF KeySteps
  <2>3. i \in Nat \ {0}
    BY DEF IInv, TypeOK
  <2>4. CASE cmd.kind = "compile-many"
    <3>1. \A n \in 1..Len(files) : files[n] \in ToSet(Stems)
      BY <1>1, <1>4, <2>4, SourceSought DEF RunInv, KeySteps, Over, OverDirectory
    <3>2. \A n \in 1..Len(files), e \in {"prover", "verifier"} :
            [stem |-> Trunk(files[n]), ext |-> e] \in Files
      BY <3>1, StemsInDir DEF Files, Exts
    <3>3. i \in 1..Len(files)
      BY <1>4, <2>3 DEF IInv, Placed
    <3>4. \A n \in 1..(i - 1) : Keyed(n) \/ Namesakes(n, i)
      BY <1>4, <2>1, <2>4 DEF KeysDone
    <3>5. \A n \in 1..(i - 1) : ~Namesakes(n, i) => Keyed(n)'
      <4> SUFFICES ASSUME NEW n \in 1..(i - 1), ~Namesakes(n, i)
                   PROVE  Keyed(n)'
        OBVIOUS
      <4>1. Keyed(n) /\ n \in 1..Len(files)
        BY <3>3, <3>4
      <4>2. \A e \in {"prover", "verifier"} :
              disk'[[stem |-> Trunk(files[n]), ext |-> e]] = disk[[stem |-> Trunk(files[n]), ext |-> e]]
        <5> SUFFICES ASSUME NEW e \in {"prover", "verifier"}
                     PROVE  disk'[[stem |-> Trunk(files[n]), ext |-> e]]
                              = disk[[stem |-> Trunk(files[n]), ext |-> e]]
          OBVIOUS
        <5>1. [stem |-> Trunk(files[n]), ext |-> e] \in Files
          BY <3>2, <4>1
        <5>2. /\ Key("prover") = [stem |-> Trunk(files[i]), ext |-> "prover"]
              /\ Key("verifier") = [stem |-> Trunk(files[i]), ext |-> "verifier"]
          BY <2>4, KeyNamed
        <5>3. [stem |-> Trunk(files[n]), ext |-> e] \notin {Key("prover"), Key("verifier")}
          BY <5>2 DEF Namesakes
        <5> QED
          BY <1>4, <5>1, <5>3, KeyStepWrites
      <4> QED
        BY <2>2, <4>1, <4>2 DEF Keyed, PairOf
    <3>6. CASE ~Drop
      <4>1. step' \in KeySteps /\ step' # "create_pk" /\ i' = i /\ exit' # "ok"
        BY <1>1, <1>4, <2>4, <3>6 DEF Work, List, Open, CreateBin, WriteBin, Model, CreatePk, CreateVk,
           Keygen, WritePk, WriteVk, Create, WriteKey, GoTo, KeySteps
      <4>2. \A n \in 1..(i' - 1) : Keyed(n)' \/ Namesakes(n, i)'
        BY <2>2, <3>5, <4>1 DEF Namesakes
      <4> QED
        BY <1>1, <2>4, <4>1, <4>2 DEF KeysDone
    <3>7. CASE Drop
      <4>1. /\ disk'[[stem |-> Trunk(files[i]), ext |-> "prover"]] = SourceOf(i)
            /\ disk'[[stem |-> Trunk(files[i]), ext |-> "verifier"]] = SourceOf(i)
        BY <2>4, <3>7, DropKeys, KeyNamed
      <4>2. \A n \in 1..i : n = i \/ n \in 1..(i - 1)
        BY <2>3
      <4>3. \A n \in 1..i : Namesakes(n, i) => Keyed(n)'
        BY <2>2, <2>4, <4>1, SameNameSameSource DEF Namesakes, Keyed, PairOf, Over, OverDirectory
      <4>4. \A n \in 1..i : Keyed(n)'
        BY <3>5, <4>2, <4>3 DEF Namesakes
      <4>5. \/ step' = "create_pk" /\ i' = i + 1 /\ exit' # "ok"
            \/ step' = "idle" /\ i = Len(files)
        BY <1>1, <2>4, <3>3, <3>7 DEF Drop, AfterDrop, NextFile, Exit
      <4> QED
        BY <1>1, <2>2, <2>3, <2>4, <4>4, <4>5 DEF KeysDone, KeySteps
    <3> QED
      BY <3>6, <3>7
  <2>5. CASE cmd.kind # "compile-many"
    <3>1. cmd.kind = "compile"
      BY <1>4, <2>5 DEF IInv, Placed
    <3>2. exit' = "ok" => Drop
      BY <1>1, <1>4, <3>1 DEF Work, List, Open, CreateBin, WriteBin, Model, CreatePk, CreateVk, Keygen,
         WritePk, WriteVk, Create, WriteKey, GoTo, KeySteps
    <3>3. Drop => PairOf(cmd.out)' = {before[cmd.ir]}
      <4> SUFFICES ASSUME Drop
                   PROVE  PairOf(cmd.out)' = {before[cmd.ir]}
        OBVIOUS
      <4>1. SourceOf(i) = before[cmd.ir]
        BY <3>1 DEF SourceOf, Over, OverDirectory
      <4>2. /\ disk'[[stem |-> cmd.out, ext |-> "prover"]] = before[cmd.ir]
            /\ disk'[[stem |-> cmd.out, ext |-> "verifier"]] = before[cmd.ir]
        BY <3>1, <4>1, DropKeys DEF Key
      <4> QED
        BY <1>1, <4>2 DEF PairOf
    <3> QED
      BY <1>1, <3>1, <3>2, <3>3 DEF KeysDone
  <2> QED
    BY <2>4, <2>5
<1> QED
  BY <1>2, <1>3, <1>4

LEMMA DoneInvStep ==
  ASSUME IInv, RunInv, DoneInv, [Next]_vars
  PROVE  DoneInv'
<1>1. CASE \E c \in Commands : Start(c)
  BY <1>1, StartRun
<1>2. CASE Work \/ Fail \/ Kill
  BY <1>2, BinariesDoneStep, KeysDoneStep DEF DoneInv
<1>3. CASE Edit
  BY <1>3, EditRun
<1>4. CASE UNCHANGED vars
  <2>1. /\ disk' = disk /\ cmd' = cmd /\ files' = files /\ i' = i /\ step' = step
        /\ exit' = exit /\ mishaps' = mishaps /\ before' = before
    BY <1>4 DEF vars
  <2>2. \A n : SourceOf(n)' = SourceOf(n)
    BY <2>1, SourceSame
  <2>3. \A n : Refreshed(n)' = Refreshed(n) /\ Keyed(n)' = Keyed(n) /\ Namesakes(n, i)' = Namesakes(n, i)
    BY <2>1, <2>2 DEF Refreshed, Keyed, PairOf, Namesakes
  <2>4. PairOf(cmd.out)' = PairOf(cmd.out)
    BY <2>1 DEF PairOf
  <2> QED
    BY <2>1, <2>3, <2>4 DEF DoneInv, BinariesDone, KeysDone, Over
<1> QED
  BY <1>1, <1>2, <1>3, <1>4 DEF Next

LEMMA DoneInvInit == Init => DoneInv
BY DEF Init, DoneInv, BinariesDone, KeysDone, LoadSteps, KeySteps

\* A run that ends well has made the keys of the sources as they are now, and has
\* refreshed the binary of every text, whatever earlier runs left in the directory
\* and in whatever order its files are met (main.rs 83-103, 187-230 and 232-266).
THEOREM WellMeansKeyed == CliSpec => []OkMeansKeyed
<1>1. ASSUME IInv, RunInv, DoneInv
      PROVE  OkMeansKeyed
  <2> SUFFICES ASSUME exit = "ok", "lost" \notin mishaps
               PROVE  /\ cmd.kind = "compile" => PairOf(cmd.out) = {disk[cmd.ir]}
                      /\ cmd.kind = "compile-many" =>
                           \A s \in Present(disk) : Len(s) = 1 => PairOf(s) = {Held(s)}
                      /\ cmd.kind \in OverDirectory =>
                           \A s \in Present(disk) : disk[WithExtension(s, "bzkir")] = Held(s)
    BY DEF OkMeansKeyed
  <2>1. Ran /\ Going /\ step = "idle"
    BY <1>1, EndedTargets DEF Ran, Going
  <2>2. cmd.kind = "compile" => disk[cmd.ir] = before[cmd.ir]
    BY <1>1, <2>1 DEF RunInv, SourcesKept, Over, OverDirectory
  <2>3. \A s \in Present(disk) : Held(s) = HeldIn(before, s)
    <3>1. \A s : Held(s) = HeldIn(disk, s)
      BY DEF Held, HeldIn, InputOf
    <3> QED
      BY <1>1, <2>1, <3>1, SourcesSame DEF RunInv, Present
  <2>4. Over => \A s \in Present(disk) : \E n \in 1..Len(files) : files[n] = s
    <3>1. Over => files \in Seq(ToSet(Stems)) /\ ToSet(files) = Present(disk)
      BY <1>1, <2>1, SourcesSame DEF RunInv, Listed
    <3> QED
      BY <3>1 DEF ToSet
  <2>5. \A s : Len(s) = 1 => Trunk(s) = s
    BY DEF Trunk
  <2>6. cmd.kind = "compile-many" => \A n \in 1..Len(files) : Keyed(n)
    BY <1>1 DEF DoneInv, KeysDone
  <2>7. Over => \A n \in 1..Len(files) : Refreshed(n)
    BY <1>1 DEF DoneInv, BinariesDone
  <2>8. cmd.kind = "compile" => PairOf(cmd.out) = {before[cmd.ir]}
    BY <1>1 DEF DoneInv, KeysDone
  <2>9. ASSUME cmd.kind = "compile-many", NEW s \in Present(disk), Len(s) = 1
        PROVE  PairOf(s) = {Held(s)}
    BY <2>3, <2>4, <2>5, <2>6, <2>9 DEF Keyed, SourceOf, Over, OverDirectory
  <2>10. ASSUME Over, NEW s \in Present(disk)
         PROVE  disk[WithExtension(s, "bzkir")] = Held(s)
    BY <2>3, <2>4, <2>7, <2>10 DEF Refreshed, SourceOf, WithExtension
  <2> QED
    BY <2>2, <2>8, <2>9, <2>10 DEF Over
<1>2. IInv /\ RunInv /\ DoneInv /\ [Next]_vars => (IInv /\ RunInv /\ DoneInv)'
  BY StepInv, RunInvStep, DoneInvStep
<1> QED
  BY <1>1, <1>2, InitInv, RunInvInit, DoneInvInit, PTL DEF CliSpec

==============================================================================
