--------------------------------- MODULE Cli ---------------------------------
(***************************************************************************)
(* The `zkir` command (main.rs): compile, compile-many and their mock      *)
(* forms over a directory of sources and one of keys, one file operation   *)
(* per step, with runs that fail, are killed and are started again, and    *)
(* sources that are edited between runs.  One process runs at a time.      *)
(*                                                                         *)
(* A file holds nothing ("empty"), something cut short ("partial"), or the *)
(* whole text, binary or key of a source, which is written as the source.  *)
(* A BufWriter is flushed when it is dropped, and nobody sees that fail.   *)
(***************************************************************************)
EXTENDS Naturals, Sequences, SequencesExt

CONSTANTS
  Sources,         \* the sources that load
  Synthesizable,   \* those whose circuit can be laid out: k, model and keygen work
  Stems,           \* the file stems of the directory, in the order of sort();
                   \* a stem is the sequence of its parts between dots
  Commands,        \* the command lines: [kind, ir, out]; `out` stands for the two
                   \* key paths of compile, `ir` is a text or a binary: a key is
                   \* refused for its tag
  Disks,           \* what the directories may hold at first
  MaxRuns, MaxEdits, MaxTroubles   \* bounds: runs, edits, and crashes or I/O faults

Trunk(s) == IF Len(s) > 1 THEN Front(s) ELSE s
\* Path::with_extension takes what follows the last dot for the old extension.
WithExtension(s, e) == [stem |-> Trunk(s), ext |-> e]

Exts == {"zkir", "bzkir", "prover", "verifier"}
Contents == Sources \cup {"absent", "empty", "partial"}
Dir == ToSet(Stems) \cup {Trunk(s) : s \in ToSet(Stems)}
Files == [stem : Dir, ext : Exts]
SourceFiles == [stem : Dir, ext : {"zkir", "bzkir"}]
Kinds == {"compile", "compile-many", "mock-compile", "mock-compile-many"}
OverDirectory == {"compile-many", "mock-compile-many"}

\* The two keys of a name, when both are whole, are of one source.
Pairs(d, s) ==
  LET p == d[[stem |-> s, ext |-> "prover"]]
      v == d[[stem |-> s, ext |-> "verifier"]]
  IN p \in Sources /\ v \in Sources => p = v

ASSUME CliAssumption ==
  /\ Synthesizable \subseteq Sources
  /\ Sources \cap {"absent", "empty", "partial"} = {}
  /\ Stems \in Seq(Seq(STRING)) /\ IsInjective(Stems)
  /\ Commands \subseteq [kind : Kinds, ir : SourceFiles, out : Dir]
  /\ Disks \subseteq [Files -> Contents]
  /\ \A d \in Disks, s \in Dir : Pairs(d, s)
  /\ {MaxRuns, MaxEdits, MaxTroubles} \subseteq Nat

VARIABLES
  disk,      \* the contents of the files
  cmd,       \* the command line of the run, or of the last one
  files,     \* the stems of the run
  i,         \* the position in files
  loaded,    \* the sources read so far
  step,      \* what the run does next, "idle" when none runs
  exit,      \* how the last run ended
  mishaps,   \* in this run: a flush failed on drop ("lost"), an I/O error was
             \* returned ("fault")
  before,    \* the disk when the run began
  runs, edits, troubles            \* counters of the bounds

vars == <<disk, cmd, files, i, loaded, step, exit, mishaps, before, runs, edits, troubles>>
counters == <<runs, edits, troubles>>
run == <<cmd, files, before, runs, edits>>

Steps == {"idle", "list", "open", "create_bin", "write_bin", "model",
          "create_pk", "create_vk", "keygen", "write_pk", "write_vk", "drop"}
Exits == {"none", "ok", "failed", "killed"}

------------------------------------------------------------------------------
(* The files of a run.                                                       *)

\* extract_files_from_dir: the stems of the sources, sorted, each once.
Holds(d, s) == \E e \in {"zkir", "bzkir"} : d[[stem |-> s, ext |-> e]] # "absent"
Present(d) == {s \in ToSet(Stems) : Holds(d, s)}
Before(s, t) == \E j, k \in DOMAIN Stems : j < k /\ Stems[j] = s /\ Stems[k] = t
Listings(d) ==
  {fs \in UNION {[1..n -> Present(d)] : n \in 0..Len(Stems)} :
     /\ \A s \in Present(d) : \E j \in DOMAIN fs : fs[j] = s
     /\ \A j, k \in DOMAIN fs : j < k => Before(fs[j], fs[k])}

\* Mutant of InputOf: the binary is preferred.
InputBinaryFirst(d, s) ==
  IF d[WithExtension(s, "bzkir")] # "absent" THEN WithExtension(s, "bzkir")
                                             ELSE WithExtension(s, "zkir")

\* without_extension: the text is preferred to the binary.
InputOf(d, s) ==
  IF d[WithExtension(s, "zkir")] # "absent" THEN WithExtension(s, "zkir")
                                            ELSE WithExtension(s, "bzkir")
Input == IF cmd.kind \in OverDirectory THEN InputOf(disk, files[i]) ELSE cmd.ir
Binary == [stem |-> Input.stem, ext |-> "bzkir"]

Key(e) == IF cmd.kind = "compile-many" THEN WithExtension(files[i], e)
                                       ELSE [stem |-> cmd.out, ext |-> e]

------------------------------------------------------------------------------
(* What follows a step.                                                      *)

Exit(how) == step' = "idle" /\ exit' = how
GoTo(s) == step' = s /\ UNCHANGED <<i, exit>>
\* The next file of a loop, or what follows the loop.
NextFile(s, after) ==
  IF i < Len(files) THEN step' = s /\ i' = i + 1 /\ UNCHANGED exit ELSE after

\* compile makes its key files between loading and the model, compile-many in a
\* loop of its own after every source has been loaded and modelled.
AfterLoad == GoTo(IF cmd.kind = "compile" THEN "create_pk" ELSE "model")

\* Mutant of AfterModel: compile-many in one loop.
AfterModelOneLoop ==
  CASE cmd.kind \in {"compile", "compile-many"} ->
         GoTo(IF cmd.kind = "compile" THEN "keygen" ELSE "create_pk")
    [] OTHER -> NextFile("open", Exit("ok") /\ UNCHANGED i)

AfterModel ==
  CASE cmd.kind = "compile" -> GoTo("keygen")
    [] cmd.kind = "compile-many" ->
         NextFile("open", step' = "create_pk" /\ i' = 1 /\ UNCHANGED exit)
    [] OTHER -> NextFile("open", Exit("ok") /\ UNCHANGED i)
\* Mutant of AfterDrop: the same file again.
AfterDropAgain ==
  IF cmd.kind = "compile-many" THEN GoTo("create_pk") ELSE Exit("ok") /\ UNCHANGED i
AfterDrop ==
  IF cmd.kind = "compile-many" THEN NextFile("create_pk", Exit("ok") /\ UNCHANGED i)
                               ELSE Exit("ok") /\ UNCHANGED i

------------------------------------------------------------------------------
(* The steps of a run.                                                       *)

Start(c) ==
  /\ step = "idle" /\ runs < MaxRuns
  /\ cmd' = c /\ exit' = "none" /\ mishaps' = {}
  /\ before' = disk /\ loaded' = <<>> /\ i' = 1 /\ runs' = runs + 1
  /\ IF c.kind \in OverDirectory THEN step' = "list" /\ files' = <<>>
                                 ELSE step' = "open" /\ files' = <<c.ir.stem>>
  /\ UNCHANGED <<disk, edits, troubles>>

List ==
  /\ step = "list" /\ files' \in Listings(disk)
  /\ IF files' = <<>> THEN Exit("ok") /\ UNCHANGED i ELSE GoTo("open")
  /\ UNCHANGED <<disk, cmd, loaded, mishaps, before, counters>>

\* Mutant of Open: what cannot be read is taken all the same.
OpenUnchecked ==
  /\ step = "open" /\ loaded' = Append(loaded, disk[Input])
  /\ IF Input.ext = "zkir" THEN GoTo("create_bin") ELSE AfterLoad
  /\ UNCHANGED <<disk, mishaps, run, troubles>>

\* maybe_bzkir: whatever is not the text or binary of a source is refused.
Open ==
  /\ step = "open"
  /\ IF disk[Input] \notin Sources THEN Exit("failed") /\ UNCHANGED <<i, loaded>>
     ELSE /\ loaded' = Append(loaded, disk[Input])
          /\ IF Input.ext = "zkir" THEN GoTo("create_bin") ELSE AfterLoad
  /\ UNCHANGED <<disk, mishaps, run, troubles>>

\* File::create empties a file that is there.
Create(s, f, next) ==
  /\ step = s /\ disk' = [disk EXCEPT ![f] = "empty"] /\ GoTo(next)
  /\ UNCHANGED <<loaded, mishaps, run, troubles>>

\* Mutants: one that refuses a file that is there, one that does not empty it.
CreateBinNew ==
  IF step = "create_bin" /\ disk[Binary] # "absent"
  THEN Exit("failed") /\ UNCHANGED <<disk, i, loaded, mishaps, run, troubles>>
  ELSE Create("create_bin", Binary, "write_bin")
CreateVkKeeps ==
  /\ step = "create_vk" /\ GoTo(IF cmd.kind = "compile" THEN "model" ELSE "keygen")
  /\ UNCHANGED <<disk, loaded, mishaps, run, troubles>>

CreateBin == Create("create_bin", Binary, "write_bin")
CreatePk == Create("create_pk", Key("prover"), "create_vk")
CreateVk ==
  Create("create_vk", Key("verifier"), IF cmd.kind = "compile" THEN "model" ELSE "keygen")

\* What files hold after their writers are dropped, and whether a flush failed.
Flush(fs, s) ==
  \E bad \in SUBSET fs :
    /\ bad # {} => troubles < MaxTroubles
    /\ disk' = [f \in DOMAIN disk |->
                  IF f \in bad THEN "partial" ELSE IF f \in fs THEN s ELSE disk[f]]
    /\ mishaps' = IF bad # {} THEN mishaps \cup {"lost"} ELSE mishaps
    /\ troubles' = IF bad # {} THEN troubles + 1 ELSE troubles

WriteBin ==
  /\ step = "write_bin" /\ Flush({Binary}, loaded[i]) /\ AfterLoad
  /\ UNCHANGED <<loaded, run>>

Model ==
  /\ step = "model"
  /\ IF loaded[i] \in Synthesizable THEN AfterModel ELSE Exit("failed") /\ UNCHANGED i
  /\ UNCHANGED <<disk, loaded, mishaps, run, troubles>>

\* ir.keygen(&pp).await, when the parameters arrive.
Keygen ==
  /\ step = "keygen" /\ GoTo("write_pk")
  /\ UNCHANGED <<disk, loaded, mishaps, run, troubles>>

\* Some of a key may be in its file, some in the buffer.
WriteKey(s, f, next) ==
  /\ step = s /\ disk' = [disk EXCEPT ![f] = "partial"] /\ GoTo(next)
  /\ UNCHANGED <<loaded, mishaps, run, troubles>>
WritePk == WriteKey("write_pk", Key("prover"), "write_vk")
WriteVk == WriteKey("write_vk", Key("verifier"), "drop")

Drop ==
  /\ step = "drop" /\ Flush({Key("prover"), Key("verifier")}, loaded[i]) /\ AfterDrop
  /\ UNCHANGED <<loaded, run>>

\* An I/O error the code returns: the writers in scope are dropped on the way, the
\* one that failed with less than it was given.
Fail ==
  /\ step \notin {"idle", "drop"} /\ troubles < MaxTroubles
  /\ \E some, whole \in BOOLEAN :
       LET cut(f) == IF some THEN "partial" ELSE disk[f] IN
       disk' =
         CASE step = "write_bin" -> [disk EXCEPT ![Binary] = cut(Binary)]
           [] step = "write_pk" -> [disk EXCEPT ![Key("prover")] = cut(Key("prover"))]
           [] step = "write_vk" ->
                [disk EXCEPT ![Key("verifier")] = cut(Key("verifier")),
                             ![Key("prover")] = IF whole THEN loaded[i] ELSE @]
           [] OTHER -> disk
  /\ Exit("failed") /\ mishaps' = mishaps \cup {"fault"} /\ troubles' = troubles + 1
  /\ UNCHANGED <<i, loaded, run>>

\* The process is killed: what is in its buffers is gone.
Kill ==
  /\ step # "idle" /\ troubles < MaxTroubles
  /\ Exit("killed") /\ troubles' = troubles + 1
  /\ UNCHANGED <<disk, i, loaded, mishaps, run>>

\* Between runs somebody changes, adds or removes a source file.
Edit ==
  /\ step = "idle" /\ edits < MaxEdits
  /\ \E f \in Files, c \in Sources \cup {"absent", "partial"} :
       f.ext \in {"zkir", "bzkir"} /\ disk' = [disk EXCEPT ![f] = c]
  /\ edits' = edits + 1 /\ exit' = "none"
  /\ UNCHANGED <<cmd, files, i, loaded, step, mishaps, before, runs, troubles>>

------------------------------------------------------------------------------
Init ==
  /\ disk \in Disks /\ before = disk
  /\ cmd \in Commands
  /\ files = <<>> /\ i = 1 /\ loaded = <<>>
  /\ step = "idle" /\ exit = "none" /\ mishaps = {}
  /\ runs = 0 /\ edits = 0 /\ troubles = 0

Work == List \/ Open \/ CreateBin \/ WriteBin \/ Model \/ CreatePk \/ CreateVk
        \/ Keygen \/ WritePk \/ WriteVk \/ Drop
Next == (\E c \in Commands : Start(c)) \/ Work \/ Fail \/ Kill \/ Edit
CliSpec == Init /\ [][Next]_vars
\* The process is scheduled and the parameters arrive or fail to.
FairCliSpec == CliSpec /\ WF_vars(Work)
------------------------------------------------------------------------------
(* Properties.                                                               *)

TypeOK ==
  /\ disk \in [Files -> Contents] /\ before \in [Files -> Contents]
  /\ cmd \in Commands /\ files \in Seq(Dir) /\ i \in Nat \ {0}
  /\ loaded \in Seq(Sources) /\ step \in Steps /\ exit \in Exits
  /\ mishaps \subseteq {"lost", "fault"}
  /\ runs \in Nat /\ edits \in Nat /\ troubles \in Nat

\* What a stem of the directory stands for, and whether it can be compiled.
Held(s) ==
  LET at(e) == disk[WithExtension(s, e)] IN
  IF at("zkir") = "absent" THEN at("bzkir") ELSE at("zkir")
Targets == IF cmd.kind \in OverDirectory THEN {Held(s) : s \in Present(disk)}
                                         ELSE {disk[cmd.ir]}
PairOf(s) == {disk[[stem |-> s, ext |-> e]] : e \in {"prover", "verifier"}}

\* A prover key and a verifier key that lie together are of one source, at every
\* instant and after every crash, error and edit: both files are emptied before
\* either is written.
PairsMatch == \A s \in Dir : Pairs(disk, s)

\* compile-many touches no key file of the directory as long as one of its sources
\* cannot be read or laid out: the loop that creates files comes after the loop
\* that loads and models.
NoKeyUnlessAllLoad ==
  cmd.kind = "compile-many" /\ exit # "none" /\ ~(Targets \subseteq Synthesizable) =>
    \A f \in Files : f.ext \in {"prover", "verifier"} => disk[f] = before[f]

\* A run that ends well, whatever runs before it left behind, has made the keys of
\* the sources as they are, and has refreshed the binary of every text it read;
\* stems with a dot aside, and provided that no flush was lost.
OkMeansKeyed ==
  exit = "ok" /\ "lost" \notin mishaps =>
    /\ cmd.kind = "compile" => PairOf(cmd.out) = {disk[cmd.ir]}
    /\ cmd.kind = "compile-many" =>
         \A s \in Present(disk) : Len(s) = 1 => PairOf(s) = {Held(s)}
    /\ cmd.kind \in OverDirectory =>
         \A s \in Present(disk) : disk[WithExtension(s, "bzkir")] = Held(s)

\* A run fails only when I/O fails or a source cannot be compiled: nothing that a
\* killed run leaves behind stops the next one.
FailsForAReason ==
  exit = "failed" /\ "fault" \notin mishaps => ~(Targets \subseteq Synthesizable)

\* Every run ends.
RunsEnd == (step # "idle") ~> (step = "idle")

\* "Generate prover and verifier keys for all sources in a directory" (main.rs 59):
\* a run that ends well leaves keys under the name of every source.
AllSourcesKeyed ==
  exit = "ok" /\ cmd.kind = "compile-many" /\ "lost" \notin mishaps =>
    \A s \in Present(disk) : PairOf(s) \subseteq Sources
==============================================================================
