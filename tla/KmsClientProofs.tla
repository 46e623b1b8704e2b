--------------------------- MODULE KmsClientProofs ---------------------------
(***************************************************************************)
(* Proofs about KmsClient, for any number of runs and attempts: what the   *)
(* exit status of a run says of its file, and what no run ever does to the *)
(* files it finds.                                                         *)
(*                                                                         *)
(* The inductive invariant follows a run: until it opens its file nothing  *)
(* has changed since it began; while it writes, the file is its own; once  *)
(* it has exited, its status says which of the two it left behind.  All    *)
(* along the run has met only good in the phases behind it, the upload     *)
(* apart, and nothing yet in those to come.                                *)
(***************************************************************************)
EXTENDS KmsClient, TLAPS

Inputs ==
    {"none", "ok", "flags", "signingKey", "notBase64", "oversized", "error", "disk"} \cup Answers

FileState == [run : Nat, whole : BOOLEAN]

RunState == [number : Nat, cmd : Commands, toFile : BOOLEAN,
             pc : Phases \cup {"exited"},
             tries : Nat, status : {"none", "running", "ok", "failed", "killed"},
             met : [Phases -> Inputs]]

FilesTypeOK ==
    /\ run \in RunState
    /\ file \in [Commands -> FileState]
    /\ before \in [Commands -> FileState]

Untouched == file = before

(* The phases a run has behind it, the upload apart. *)
Behind(pc) ==
    CASE pc = "config"               -> {}
      [] pc = "evidence"             -> {"config"}
      [] pc = "request"              -> {"config", "evidence"}
      [] pc \in {"post", "output"}  -> {"config", "evidence", "request"}
      [] pc = "write"                -> {"config", "evidence", "request", "output"}

AllGood(phases) == \A phase \in phases : run.met[phase] \in Good

(* It met only good in those, and nothing yet in the ones to come. *)
Passed ==
    \A phase \in Phases \ {"post"} :
        IF phase \in Behind(run.pc) THEN run.met[phase] \in Good
        ELSE phase = run.pc \/ run.met[phase] = "none"

KeyFileInTheWay == run.cmd = "derive-storage-key" /\ before[run.cmd] # NoFile

MetTrouble ==
    \E phase \in Phases \ {"post"} : run.met[phase] \notin Good \cup {"none"}

(* What a run's state says of the files, and of what the run met. *)
RunInv ==
    /\ Running =>
          /\ run.number >= 1 /\ run.status = "running" /\ Passed
          /\ run.cmd = "derive-storage-key" => run.toFile
          /\ run.pc # "write" => Untouched
    /\ run.pc = "write" =>
          run.toFile /\ file[run.cmd].run = run.number /\ ~KeyFileInTheWay
    /\ run.status = "ok" =>
          /\ run.toFile => file[run.cmd] = [run |-> run.number, whole |-> TRUE]
          /\ ~MetTrouble /\ ~KeyFileInTheWay
    /\ run.status = "failed" => MetTrouble \/ KeyFileInTheWay
    /\ ~Untouched =>
          /\ AllGood({"config", "evidence", "request"})
          /\ run.status = "failed" => run.met["write"] = "disk"

ClientInv == FilesTypeOK /\ RunInv

-----------------------------------------------------------------------------
(* The input of a phase is recorded there, and the others are kept. *)
LEMMA MetRecords ==
    ASSUME FilesTypeOK, Running, NEW input \in Inputs
    PROVE  /\ Met(input) \in [Phases -> Inputs]
           /\ Met(input)[run.pc] = input
           /\ \A phase \in Phases \ {run.pc} : Met(input)[phase] = run.met[phase]
<1>1. run.pc \in Phases /\ run.met \in [Phases -> Inputs]
  BY DEF FilesTypeOK, RunState, Running
<1> QED BY <1>1 DEF Met

(* A run that goes on without touching a file keeps the invariant, as long *)
(* as it has not reached its file: it met good, or it met the user API.    *)
LEMMA ProceedPreserves ==
    ASSUME ClientInv, NEW input \in Inputs, NEW pc \in Phases,
           \/ run.pc = "config" /\ pc = "evidence" /\ input \in Good
           \/ run.pc = "evidence" /\ pc = "request" /\ input \in Good
           \/ run.pc = "request" /\ pc \in {"post", "output"} /\ input \in Good
           \/ run.pc = "post" /\ pc = "output",
           Proceed(input, pc), UNCHANGED <<file, before>>
    PROVE  ClientInv'
<1>1. Running /\ FilesTypeOK /\ run \in RunState /\ pc # "write"
  BY DEF ClientInv, FilesTypeOK, Running
<1>2. /\ run' \in RunState /\ run'.pc = pc /\ run'.met = Met(input)
      /\ run'.status = "running" /\ run'.number = run.number /\ run'.cmd = run.cmd
      /\ run'.toFile = run.toFile
  BY <1>1, MetRecords DEF Proceed, RunState, ClientInv, RunInv
<1>3. Untouched'
  BY <1>1 DEF ClientInv, RunInv, Untouched
<1>4. Passed'
  <2> SUFFICES ASSUME NEW phase \in Phases \ {"post"}
               PROVE  IF phase \in Behind(pc) THEN Met(input)[phase] \in Good
                      ELSE phase = pc \/ Met(input)[phase] = "none"
    BY <1>2 DEF Passed
  <2>1. Passed
    BY <1>1 DEF ClientInv, RunInv
  <2>2. CASE phase = run.pc
    BY <1>1, <2>2, MetRecords DEF Behind
  <2>3. CASE phase # run.pc
    <3>1. Met(input)[phase] = run.met[phase]
      BY <1>1, <2>3, MetRecords
    <3>2. IF phase \in Behind(run.pc) THEN run.met[phase] \in Good ELSE run.met[phase] = "none"
      BY <2>1, <2>3 DEF Passed
    <3> QED BY <2>3, <3>1, <3>2 DEF Behind
  <2> QED BY <2>2, <2>3
<1> QED BY <1>1, <1>2, <1>3, <1>4 DEF ClientInv, FilesTypeOK, RunInv, Running, Phases

(* So does one that is tried again ... *)
LEMMA RetryPreserves ==
    ASSUME ClientInv, run.pc \in {"request", "post"}, NEW answer \in Answers,
           Retry(answer), UNCHANGED <<file, before>>
    PROVE  ClientInv'
<1>1. Running /\ FilesTypeOK /\ run \in RunState /\ answer \in Inputs
  BY DEF ClientInv, FilesTypeOK, Running, Inputs
<1>2. /\ run' \in RunState /\ run'.pc = run.pc /\ run'.met = Met(answer)
      /\ run'.status = "running" /\ run'.number = run.number /\ run'.cmd = run.cmd
      /\ run'.toFile = run.toFile
  <2>1. Met(answer) \in [Phases -> Inputs] /\ run.status = "running"
    BY <1>1, MetRecords DEF ClientInv, RunInv
  <2>2. run' = [run EXCEPT !.met = Met(answer), !.tries = run.tries + 1]
    BY DEF Retry
  <2>3. run.tries + 1 \in Nat
    BY <1>1 DEF RunState
  <2>4. \A met \in [Phases -> Inputs], n \in Nat :
           [run EXCEPT !.met = met, !.tries = n] \in RunState
    BY <1>1 DEF RunState
  <2> QED BY <1>1, <2>1, <2>2, <2>3, <2>4 DEF RunState
<1>3. Untouched'
  BY <1>1 DEF ClientInv, RunInv, Untouched
<1>4. Passed'
  <2>1. Passed
    BY <1>1 DEF ClientInv, RunInv
  <2>2. run.pc \notin Behind(run.pc)
    BY DEF Behind
  <2> QED BY <1>1, <1>2, <2>1, <2>2, MetRecords DEF Passed
<1> QED BY <1>1, <1>2, <1>3, <1>4 DEF ClientInv, FilesTypeOK, RunInv, Running, Phases

(* ... and one that fails, over what it met in its phase, or over a key    *)
(* file, and while it writes for the disk only.                            *)
LEMMA FailPreserves ==
    ASSUME ClientInv, NEW input \in Inputs \ {"none"}, Running, run.pc # "post",
           input \notin Good \/ KeyFileInTheWay,
           run.pc = "write" => input = "disk",
           Fail(input), UNCHANGED <<file, before>>
    PROVE  ClientInv'
<1>1. FilesTypeOK /\ run \in RunState /\ run.pc \in Phases
  BY DEF ClientInv, FilesTypeOK, Running, RunState
<1>2. /\ run' \in RunState /\ run'.pc = "exited" /\ run'.met = Met(input)
      /\ run'.status = "failed" /\ run'.cmd = run.cmd
  BY <1>1, MetRecords DEF Fail, Exit, RunState
<1>3. MetTrouble' \/ KeyFileInTheWay'
  BY <1>1, <1>2, MetRecords DEF MetTrouble, KeyFileInTheWay
<1>4. ~Untouched' =>
         AllGood({"config", "evidence", "request"})' /\ run'.met["write"] = "disk"
  <2> SUFFICES ASSUME ~Untouched
               PROVE  /\ AllGood({"config", "evidence", "request"})'
                      /\ run'.met["write"] = "disk"
    BY DEF Untouched
  <2>1. run.pc = "write" /\ input = "disk" /\ AllGood({"config", "evidence", "request"})
    BY DEF ClientInv, RunInv
  <2> QED BY <1>1, <1>2, <2>1, MetRecords DEF AllGood, Phases
<1> QED BY <1>1, <1>2, <1>3, <1>4 DEF ClientInv, FilesTypeOK, RunInv, Running, Phases

LEMMA StartPreserves ==
    ASSUME ClientInv, NEW cmd \in Commands, NEW toFile \in BOOLEAN, NEW remove \in BOOLEAN,
           Start(cmd, toFile, remove)
    PROVE  ClientInv'
<1>1. file' \in [Commands -> FileState] /\ before' = file'
  BY DEF ClientInv, FilesTypeOK, Start, NoFile, FileState
<1>2. run' = [number |-> run.number + 1, cmd |-> cmd, toFile |-> toFile, pc |-> "config",
              tries |-> 0, status |-> "running", met |-> [phase \in Phases |-> "none"]]
  BY DEF Start, NoRun
<1>3. run' \in RunState /\ run'.number >= 1
  <2>1. run.number \in Nat
    BY DEF ClientInv, FilesTypeOK, RunState
  <2>2. [phase \in Phases |-> "none"] \in [Phases -> Inputs]
    BY DEF Inputs
  <2> QED BY <1>2, <2>1, <2>2 DEF RunState, Phases
<1>4. Passed'
  BY <1>2 DEF Passed, Behind
<1>5. run'.cmd = "derive-storage-key" => run'.toFile
  BY <1>2 DEF Start
<1> QED BY <1>1, <1>2, <1>3, <1>4, <1>5
     DEF ClientInv, FilesTypeOK, RunInv, Untouched, Running

LEMMA OpenFilePreserves ==
    ASSUME ClientInv, OpenFile
    PROVE  ClientInv'
<1>1. /\ run \in RunState /\ run.pc = "output" /\ run.toFile /\ Running /\ Untouched
      /\ run.number >= 1 /\ file \in [Commands -> FileState] /\ FilesTypeOK /\ Passed
  BY DEF ClientInv, FilesTypeOK, RunInv, OpenFile, Running
<1>2. CASE /\ run.cmd = "derive-storage-key" /\ file[run.cmd] # NoFile
           /\ Fail("ok") /\ UNCHANGED <<file, before>>
  BY <1>1, <1>2, FailPreserves DEF Untouched, KeyFileInTheWay, Inputs
<1>3. CASE /\ ~(run.cmd = "derive-storage-key" /\ file[run.cmd] # NoFile)
           /\ Create /\ Proceed("ok", "write") /\ UNCHANGED before
  <2>1. file' \in [Commands -> FileState] /\ file'[run.cmd].run = run.number
    BY <1>1, <1>3 DEF Create, RunState, FileState
  <2>2. /\ run' \in RunState /\ run'.pc = "write" /\ run'.status = "running"
        /\ run'.toFile /\ run'.cmd = run.cmd /\ run'.number = run.number
        /\ run'.met = Met("ok")
    BY <1>1, <1>3, MetRecords DEF ClientInv, RunInv, Proceed, RunState, Inputs, Phases
  <2>3. Passed'
    BY <1>1, <2>2, MetRecords DEF Passed, Behind, Good, Phases, Inputs
  <2>4. AllGood({"config", "evidence", "request"})'
    BY <2>2, <2>3 DEF Passed, Behind, AllGood, Phases
  <2>5. ~KeyFileInTheWay'
    BY <1>1, <1>3, <2>2 DEF KeyFileInTheWay, Untouched
  <2> QED BY <1>1, <1>3, <2>1, <2>2, <2>3, <2>4, <2>5
       DEF ClientInv, FilesTypeOK, RunInv, Running
<1>4. CASE Fail("disk") /\ UNCHANGED <<file, before>>
  BY <1>1, <1>4, FailPreserves DEF Inputs, Good
<1> QED BY <1>2, <1>3, <1>4 DEF OpenFile

(* A run that met only good to its end is one that met no trouble. *)
LEMMA SucceedMetNoTrouble ==
    ASSUME ClientInv, Running, run.pc \in {"output", "write"}, Succeed("ok")
    PROVE  /\ run' \in RunState /\ run'.pc = "exited" /\ run'.status = "ok"
           /\ run'.cmd = run.cmd /\ run'.number = run.number /\ run'.toFile = run.toFile
           /\ ~MetTrouble' /\ AllGood({"config", "evidence", "request"})'
<1>1. FilesTypeOK /\ run \in RunState /\ Passed
  BY DEF ClientInv, FilesTypeOK, RunInv
<1>2. /\ run' \in RunState /\ run'.pc = "exited" /\ run'.status = "ok"
      /\ run'.cmd = run.cmd /\ run'.number = run.number /\ run'.toFile = run.toFile
      /\ run'.met = Met("ok")
  BY <1>1, MetRecords DEF Succeed, Exit, RunState, Inputs
<1>3. \A phase \in Phases \ {"post"} : run'.met[phase] \in Good \cup {"none"}
  BY <1>1, <1>2, MetRecords DEF Passed, Good, Inputs
<1>4. AllGood({"config", "evidence", "request"})'
  BY <1>1, <1>2, MetRecords DEF Passed, Behind, AllGood, Inputs, Phases
<1> QED BY <1>2, <1>3, <1>4 DEF MetTrouble

LEMMA PrintResultPreserves ==
    ASSUME ClientInv, PrintResult
    PROVE  ClientInv'
<1>1. run.pc = "output" /\ ~run.toFile /\ Running /\ Untouched /\ FilesTypeOK
      /\ run.cmd # "derive-storage-key" /\ UNCHANGED <<file, before>>
  BY DEF ClientInv, RunInv, PrintResult, Running
<1>2. /\ run' \in RunState /\ run'.pc = "exited" /\ run'.status = "ok" /\ ~run'.toFile
      /\ run'.cmd # "derive-storage-key" /\ ~MetTrouble'
  BY <1>1, SucceedMetNoTrouble DEF PrintResult
<1> QED BY <1>1, <1>2
     DEF ClientInv, FilesTypeOK, RunInv, Running, Untouched, KeyFileInTheWay

LEMMA WriteFilePreserves ==
    ASSUME ClientInv, WriteFile
    PROVE  ClientInv'
<1>1. /\ run \in RunState /\ run.pc = "write" /\ run.toFile /\ Running
      /\ run.number >= 1 /\ file \in [Commands -> FileState]
      /\ file[run.cmd].run = run.number /\ ~KeyFileInTheWay
  BY DEF ClientInv, FilesTypeOK, RunInv, WriteFile, Running
<1>2. CASE /\ file' = [file EXCEPT ![run.cmd].whole = TRUE] /\ Succeed("ok")
           /\ UNCHANGED before
  <2>1. /\ file' \in [Commands -> FileState]
        /\ file'[run.cmd] = [run |-> run.number, whole |-> TRUE]
    BY <1>1, <1>2 DEF RunState, FileState
  <2>2. /\ run' \in RunState /\ run'.pc = "exited" /\ run'.status = "ok"
        /\ run'.cmd = run.cmd /\ run'.number = run.number /\ ~MetTrouble'
        /\ AllGood({"config", "evidence", "request"})'
    BY <1>1, <1>2, SucceedMetNoTrouble
  <2> QED BY <1>1, <1>2, <2>1, <2>2
       DEF ClientInv, FilesTypeOK, RunInv, Running, KeyFileInTheWay
<1>3. CASE Fail("disk") /\ UNCHANGED <<file, before>>
  BY <1>1, <1>3, FailPreserves DEF Inputs, Good
<1> QED BY <1>2, <1>3 DEF WriteFile

LEMMA ClientInvStep == ClientInv /\ [ClientNext]_clientFileVars => ClientInv'
<1> SUFFICES ASSUME ClientInv, [ClientNext]_clientFileVars
             PROVE  ClientInv'
  OBVIOUS
<1>1. ASSUME NEW cmd \in Commands, NEW toFile \in BOOLEAN, NEW remove \in BOOLEAN,
             Start(cmd, toFile, remove)
      PROVE  ClientInv'
  BY <1>1, StartPreserves
<1>2. CASE LoadConfig
  <2>1. PICK input \in ConfigInputs(run.cmd) :
           IF input \in Good THEN Proceed(input, "evidence") ELSE Fail(input)
    BY <1>2 DEF LoadConfig
  <2>2. input \in Inputs \ {"none"} /\ run.pc = "config" /\ UNCHANGED <<file, before>>
    BY <1>2 DEF LoadConfig, ConfigInputs, Inputs
  <2> QED BY <2>1, <2>2, FailPreserves, ProceedPreserves DEF Running, Phases
<1>3. CASE GetAttestation
  BY <1>3, FailPreserves, ProceedPreserves
  DEF GetAttestation, Inputs, Good, Phases, Running
<1>4. CASE SendRequest
  <2>1. PICK answer \in Answers :
           \/ Retry(answer)
           \/ (GivesUp(answer) \/ answer = "unusable") /\ Fail(answer)
           \/ answer = "usable" /\ Proceed(answer, AfterAnswer)
    BY <1>4 DEF SendRequest
  <2>2. /\ answer \in Inputs \ {"none"} /\ run.pc = "request" /\ Running
        /\ UNCHANGED <<file, before>>
    BY <1>4 DEF SendRequest, Inputs, Answers, Running
  <2>3. CASE Retry(answer)
    BY <2>2, <2>3, RetryPreserves
  <2>4. CASE (GivesUp(answer) \/ answer = "unusable") /\ Fail(answer)
    BY <2>2, <2>4, FailPreserves DEF GivesUp, Good
  <2>5. CASE answer = "usable" /\ Proceed(answer, AfterAnswer)
    BY <2>2, <2>5, ProceedPreserves DEF AfterAnswer, Good, Phases
  <2> QED BY <2>1, <2>3, <2>4, <2>5
<1>5. CASE PostAttestation
  <2>1. PICK answer \in Answers :
           Retry(answer) \/ (~IsRetried(answer) /\ Proceed(answer, "output"))
    BY <1>5 DEF PostAttestation
  <2>2. answer \in Inputs /\ run.pc = "post" /\ UNCHANGED <<file, before>>
    BY <1>5 DEF PostAttestation, Inputs
  <2> QED BY <2>1, <2>2, ProceedPreserves, RetryPreserves DEF Phases
<1>6. CASE PrintResult
  BY <1>6, PrintResultPreserves
<1>7. CASE OpenFile
  BY <1>7, OpenFilePreserves
<1>8. CASE WriteFile
  BY <1>8, WriteFilePreserves
<1>9. CASE Kill
  <2>1. run' = [run EXCEPT !.pc = "exited", !.status = "killed"] /\ Running
        /\ UNCHANGED <<file, before>> /\ run \in RunState
    BY <1>9 DEF Kill, ClientInv, FilesTypeOK
  <2>2. /\ run' \in RunState /\ run'.pc = "exited" /\ run'.status = "killed"
        /\ run'.met = run.met
    BY <2>1 DEF RunState
  <2> QED BY <2>1, <2>2 DEF ClientInv, FilesTypeOK, RunInv, Untouched, Running, AllGood
<1>10. CASE UNCHANGED clientFileVars
  BY <1>10 DEF clientFileVars, ClientInv, FilesTypeOK, RunInv, Untouched, Running,
     Passed, MetTrouble, KeyFileInTheWay, AllGood
<1> QED BY <1>1, <1>2, <1>3, <1>4, <1>5, <1>6, <1>7, <1>8, <1>9, <1>10
     DEF ClientNext, ClientStep

LEMMA ClientInvInit == ClientInit => ClientInv
BY DEF ClientInit, NoRun, NoFile, ClientInv, FilesTypeOK, RunInv, Untouched, Running,
       RunState, FileState, Commands, Inputs

(* ClientInv is inductive. *)
THEOREM ClientInvariance == ClientSpec => []ClientInv
BY ClientInvInit, ClientInvStep, PTL DEF ClientSpec

-----------------------------------------------------------------------------
(* Whatever earlier runs left in its place, after exit status 0 the file   *)
(* is whole and of this run (main.go:154-157, 223-238, 256-260).           *)
THEOREM SuccessAlwaysMeansWhole == ClientSpec => []SuccessMeansWhole
<1>1. ClientInv => SuccessMeansWhole
  BY DEF ClientInv, RunInv, SuccessMeansWhole
<1> QED BY <1>1, ClientInvariance, PTL

(* A run that has changed a file had its result in hand, and if it failed, *)
(* it was the write that failed (main.go:101-157, 195-238).                *)
THEOREM OldFileAlwaysSurvives == ClientSpec => []OldFileSurvivesFailure
<1>1. ClientInv => OldFileSurvivesFailure
  BY DEF ClientInv, RunInv, OldFileSurvivesFailure, Untouched, AllGood
<1> QED BY <1>1, ClientInvariance, PTL

(* Whether a run fails follows from what it met outside the upload, and    *)
(* from the key file it found (envclient.go:199-206, main.go:101-238).     *)
THEOREM StatusAlwaysIgnoresUpload == ClientSpec => []StatusIgnoresUpload
<1>1. ClientInv => StatusIgnoresUpload
  BY DEF ClientInv, RunInv, StatusIgnoresUpload, MetTrouble, KeyFileInTheWay
<1> QED BY <1>1, ClientInvariance, PTL

(* Once a storage key file is there, no run changes it, unless it is the   *)
(* run that made it (main.go:223-230).                                     *)
THEOREM KeyFileIsNeverReplaced == ClientSpec => KeyFileNeverReplaced
<1> DEFINE key == "derive-storage-key"
           Kept == file'[key] = file[key] \/ file[key].run = run.number
<1>1. ASSUME ClientInv, [ClientNext]_clientFileVars,
             file[key] # NoFile, Running, run'.number = run.number
      PROVE  Kept
  <2>1. run.cmd \in Commands /\ file \in [Commands -> FileState]
    BY <1>1 DEF ClientInv, FilesTypeOK, RunState
  <2>2. ASSUME NEW cmd \in Commands, NEW toFile \in BOOLEAN, NEW remove \in BOOLEAN,
               Start(cmd, toFile, remove)
        PROVE  Kept
    BY <1>1, <2>2 DEF Start
  <2>3. CASE OpenFile
    BY <1>1, <2>1, <2>3 DEF OpenFile, Create, Commands
  <2>4. CASE WriteFile
    <3>1. file[run.cmd].run = run.number
      BY <1>1, <2>4 DEF ClientInv, RunInv, WriteFile
    <3>2. CASE run.cmd = key
      BY <3>1, <3>2
    <3>3. CASE run.cmd # key
      BY <2>1, <2>4, <3>3 DEF WriteFile, Commands
    <3> QED BY <3>2, <3>3
  <2>5. CASE UNCHANGED file
    BY <2>5
  <2> QED BY <1>1, <2>2, <2>3, <2>4, <2>5
       DEF ClientNext, ClientStep, LoadConfig, GetAttestation, SendRequest, PostAttestation,
           PrintResult, Kill, clientFileVars
<1>2. ClientInv /\ [ClientNext]_clientFileVars =>
         [ file[key] # NoFile /\ Running /\ run'.number = run.number => Kept ]_clientFileVars
  BY <1>1
<1> QED BY <1>2, ClientInvariance, PTL DEF ClientSpec, KeyFileNeverReplaced

-----------------------------------------------------------------------------
(* A run is never beyond its last attempt. *)
TriesInv == run.tries = 0 \/ run.tries < MaxTries

LEMMA TriesInvariance == ClientSpec => []TriesInv
<1>1. ClientInit => TriesInv
  BY DEF ClientInit, NoRun, TriesInv
<1>2. ClientInv /\ TriesInv /\ [ClientNext]_clientFileVars => TriesInv'
  <2> SUFFICES ASSUME ClientInv, TriesInv, [ClientNext]_clientFileVars
               PROVE  TriesInv'
    OBVIOUS
  <2>1. run \in RunState
    BY DEF ClientInv, FilesTypeOK
  <2>2. ASSUME NEW input, NEW pc, Proceed(input, pc)
        PROVE  TriesInv'
    BY <2>1, <2>2 DEF Proceed, TriesInv, RunState
  <2>3. ASSUME NEW answer, Retry(answer)
        PROVE  TriesInv'
    BY <2>1, <2>3 DEF Retry, IsRetried, TriesInv, RunState
  <2>4. ASSUME run'.tries = run.tries
        PROVE  TriesInv'
    BY <2>4 DEF TriesInv
  <2>5. ASSUME NEW input, NEW status, Exit(input, status)
        PROVE  TriesInv'
    BY <2>1, <2>4, <2>5 DEF Exit, RunState
  <2>6. CASE Kill \/ UNCHANGED run
    BY <2>1, <2>4, <2>6 DEF Kill, RunState
  <2>7. ASSUME NEW cmd, NEW toFile, NEW remove, Start(cmd, toFile, remove)
        PROVE  TriesInv'
    BY <2>7 DEF Start, NoRun, TriesInv
  <2>8. CASE LoadConfig \/ GetAttestation
    BY <2>2, <2>5, <2>8 DEF LoadConfig, GetAttestation, Fail
  <2>9. CASE SendRequest \/ PostAttestation
    BY <2>2, <2>3, <2>5, <2>9 DEF SendRequest, PostAttestation, Fail
  <2>10. CASE PrintResult \/ OpenFile \/ WriteFile
    BY <2>2, <2>5, <2>10 DEF PrintResult, OpenFile, WriteFile, Fail, Succeed
  <2> QED BY <2>6, <2>7, <2>8, <2>9, <2>10 DEF ClientNext, ClientStep, clientFileVars
<1> QED BY <1>1, <1>2, ClientInvariance, PTL DEF ClientSpec

StepsGoDown == StepsLeft(run') \in 0..(StepsLeft(run) - 1)

(* A run that goes on, to a later phase ... *)
LEMMA ProceedingRunsDown ==
    ASSUME ClientInv, TriesInv, NEW input, NEW pc, Proceed(input, pc),
           \/ run.pc = "config" /\ pc = "evidence"
           \/ run.pc = "evidence" /\ pc = "request"
           \/ run.pc = "request" /\ pc \in {"post", "output"}
           \/ run.pc = "post" /\ pc = "output"
           \/ run.pc = "output" /\ pc = "write"
    PROVE  StepsGoDown
<1>1. run \in RunState /\ MaxTries \in Nat
  BY ClientAssumption DEF ClientInv, FilesTypeOK
<1>2. run'.pc = pc /\ run'.tries = 0
  BY <1>1 DEF Proceed, RunState
<1>3. run.tries \in 0..MaxTries
  BY <1>1 DEF TriesInv, RunState
<1>4. PICK t \in 0..MaxTries : t = run.tries
  BY <1>3
<1> QED BY <1>1, <1>2, <1>4 DEF StepsLeft, StepsGoDown

(* ... one that tries again ... *)
LEMMA RetryingRunsDown ==
    ASSUME ClientInv, TriesInv, NEW answer, Retry(answer), run.pc \in {"request", "post"}
    PROVE  StepsGoDown
<1>1. run \in RunState /\ MaxTries \in Nat
  BY ClientAssumption DEF ClientInv, FilesTypeOK
<1>2. run'.pc = run.pc /\ run'.tries = run.tries + 1 /\ run.tries + 1 < MaxTries
  BY <1>1 DEF Retry, IsRetried, RunState
<1>3. run.tries \in Nat
  BY <1>1 DEF RunState
<1> QED BY <1>1, <1>2, <1>3 DEF StepsLeft, StepsGoDown

(* ... and one that ends. *)
LEMMA ExitingRunsDown ==
    ASSUME ClientInv, TriesInv, Running,
           (\E input, status : Exit(input, status)) \/ Kill
    PROVE  StepsGoDown
<1>1. run \in RunState /\ MaxTries \in Nat
  BY ClientAssumption DEF ClientInv, FilesTypeOK
<1>2. run'.pc = "exited"
  BY <1>1 DEF Exit, Kill, RunState
<1>3. run.tries \in 0..MaxTries
  BY <1>1 DEF TriesInv, RunState
<1>4. StepsLeft(run') = 0
  BY <1>2 DEF StepsLeft
<1>5. StepsLeft(run) \in Nat \ {0}
  BY <1>1, <1>3 DEF StepsLeft, RunState, Running, Phases
<1> QED BY <1>4, <1>5 DEF StepsGoDown

(* For any number of retries: a run ends for want of steps, if it runs on; *)
(* this is all CommandEnds needs but the fairness (envclient.go:211-226).  *)
THEOREM CommandAlwaysRunsDown == ClientSpec => CommandRunsDown
<1>1. ClientInv /\ TriesInv /\ [ClientNext]_clientFileVars =>
         [ \/ UNCHANGED run
           \/ run'.number # run.number
           \/ StepsLeft(run') \in 0..(StepsLeft(run) - 1) ]_clientFileVars
  <2> SUFFICES ASSUME ClientInv, TriesInv, ClientNext
               PROVE  run'.number # run.number \/ StepsGoDown
    BY DEF StepsGoDown
  <2>1. ASSUME NEW cmd, NEW toFile, NEW remove, Start(cmd, toFile, remove)
        PROVE  run'.number # run.number
    <3>1. run'.number = run.number + 1 /\ run.number \in Nat
      BY <2>1 DEF Start, NoRun, ClientInv, FilesTypeOK, RunState
    <3> QED BY <3>1
  <2>2. CASE LoadConfig \/ GetAttestation
    BY <2>2, ProceedingRunsDown, ExitingRunsDown
    DEF LoadConfig, GetAttestation, Fail, Running
  <2>3. CASE SendRequest
    BY <2>3, ProceedingRunsDown, RetryingRunsDown, ExitingRunsDown
    DEF SendRequest, AfterAnswer, Fail, Running
  <2>4. CASE PostAttestation
    BY <2>4, ProceedingRunsDown, RetryingRunsDown DEF PostAttestation
  <2>5. CASE PrintResult \/ OpenFile \/ WriteFile
    BY <2>5, ProceedingRunsDown, ExitingRunsDown
    DEF PrintResult, OpenFile, WriteFile, Fail, Succeed, Running
  <2>6. CASE Kill
    BY <2>6, ExitingRunsDown DEF Kill
  <2> QED BY <2>1, <2>2, <2>3, <2>4, <2>5, <2>6 DEF ClientNext, ClientStep
<1> QED BY <1>1, ClientInvariance, TriesInvariance, PTL DEF ClientSpec, CommandRunsDown
=============================================================================
