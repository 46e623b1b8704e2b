----------------------------- MODULE KmsClient ------------------------------
(***************************************************************************)
(* The kms-client binary on an instance (cmd/kms-client/main.go): a boot   *)
(* script runs it to fetch the env (the default command), an attestation   *)
(* token (attest) or the storage key (derive-storage-key), and uses the    *)
(* file each leaves behind.  Runs follow one another; each may be killed   *)
(* at any point, and then leaves its file as it is.                        *)
(*                                                                         *)
(* What the server answers, and to whom, is the subject of EnvProtocol and *)
(* AttestServer; here an answer may be anything.                           *)
(***************************************************************************)
EXTENDS Integers

CONSTANTS
    MaxRuns,      \* bound: runs of kms-client
    MaxTries      \* stands for maxElapsedTime: attempts of one HTTP exchange

ASSUME ClientAssumption == MaxRuns \in Nat /\ MaxTries \in Nat

VARIABLES
    run,          \* the run in progress, or the last one
    file,         \* the output file of each command
    before        \* history: the files as they were when the run began

clientFileVars == <<run, file, before>>

-----------------------------------------------------------------------------
Commands == {"run", "attest", "derive-storage-key"}

Phases == {"config", "evidence", "request", "post", "output", "write"}

(* The answers of an HTTP exchange: a usable or unusable 200, a status     *)
(* that is not retried, and what is: 5xx, and no answer within 30 s.       *)
Answers == {"usable", "unusable", "permanent", "retryable"}

(* What --extra-data adds to what may be wrong with the configuration: it  *)
(* is not base64, or more than 1 MB of it.                                 *)
ConfigInputs(cmd) ==
    {"ok", "flags", "signingKey"} \cup IF cmd = "attest" THEN {"notBase64", "oversized"} ELSE {}

Good == {"ok", "usable"}

(* run is the number of the run that made the file. *)
NoFile == [run |-> 0, whole |-> FALSE]

(* met is history: what the run's environment (flags, launcher, servers,   *)
(* disk) last gave it in each phase.                                       *)
NoRun == [number |-> 0, cmd |-> "run", toFile |-> FALSE, pc |-> "exited", tries |-> 0,
          status |-> "none", met |-> [phase \in Phases |-> "none"]]

ClientInit ==
    /\ run = NoRun
    /\ file = [c \in Commands |-> NoFile]
    /\ before = file

Running == run.pc # "exited"

Met(input) == [run.met EXCEPT ![run.pc] = input]

Proceed(input, pc) == run' = [run EXCEPT !.met = Met(input), !.pc = pc, !.tries = 0]

Exit(input, status) == run' = [run EXCEPT !.met = Met(input), !.pc = "exited", !.status = status]

Fail(input) == Exit(input, "failed")

Succeed(input) == Exit(input, "ok")

-----------------------------------------------------------------------------
(* The boot script starts a command, having removed the file first or not. *)
(* Only the storage key cannot go to stdout.                               *)
Start(cmd, toFile, remove) ==
    /\ ~Running /\ run.number < MaxRuns
    /\ cmd = "derive-storage-key" => toFile
    /\ run' = [NoRun EXCEPT !.number = run.number + 1, !.cmd = cmd, !.toFile = toFile,
                            !.pc = "config", !.status = "running"]
    /\ file' = IF remove THEN [file EXCEPT ![cmd] = NoFile] ELSE file
    /\ before' = file'

(* The output file is created, or truncated. *)
Create == file' = [file EXCEPT ![run.cmd] = [run |-> run.number, whole |-> FALSE]]

(* Mutant: the output file is opened first, to fail early. *)
LoadConfigAndOpen ==
    /\ run.pc = "config"
    /\ \E input \in ConfigInputs(run.cmd) :
          IF input \in Good THEN Proceed(input, "evidence") ELSE Fail(input)
    /\ IF run.toFile THEN Create ELSE UNCHANGED file
    /\ UNCHANGED before

(* The flags are read, then the KMS signing key, then attest's extra data. *)
LoadConfig ==
    /\ run.pc = "config"
    /\ \E input \in ConfigInputs(run.cmd) :
          IF input \in Good THEN Proceed(input, "evidence") ELSE Fail(input)
    /\ UNCHANGED <<file, before>>

(* The launcher's socket; there is no timeout. *)
GetAttestation ==
    /\ run.pc = "evidence"
    /\ Proceed("ok", "request") \/ Fail("error")
    /\ UNCHANGED <<file, before>>

(* retryHTTPRequest, after an attempt. *)
IsRetried(answer) == answer = "retryable" /\ run.tries + 1 < MaxTries

GivesUp(answer) == answer \in {"permanent", "retryable"} /\ ~IsRetried(answer)

(* Mutant: the elapsed time starts anew. *)
RetryAnew(answer) ==
    /\ answer = "retryable"
    /\ run' = [run EXCEPT !.met = Met(answer), !.tries = (@ + 1) % MaxTries]

Retry(answer) ==
    /\ IsRetried(answer)
    /\ run' = [run EXCEPT !.met = Met(answer), !.tries = @ + 1]

AfterAnswer == IF run.cmd = "attest" THEN "output" ELSE "post"

(* /env/v3 or /auth/attest.  An answer whose signature, ciphertext, body   *)
(* or (for an env) mnemonic is bad ends the run.                           *)
SendRequest ==
    /\ run.pc = "request"
    /\ \E answer \in Answers :
          \/ Retry(answer)
          \/ (GivesUp(answer) \/ answer = "unusable") /\ Fail(answer)
          \/ answer = "usable" /\ Proceed(answer, AfterAnswer)
    /\ UNCHANGED <<file, before>>

(* Mutant: the upload is taken as seriously as the request. *)
PostAttestationOrFail ==
    /\ run.pc = "post"
    /\ \E answer \in Answers :
          \/ Retry(answer)
          \/ GivesUp(answer) /\ Fail(answer)
          \/ answer \in {"usable", "unusable"} /\ Proceed(answer, "output")
    /\ UNCHANGED <<file, before>>

(* The evidence is uploaded to the user API before anything is written; a  *)
(* 200 or 201 will do, whatever the body, and so will giving up.           *)
PostAttestation ==
    /\ run.pc = "post"
    /\ \E answer \in Answers :
          \/ Retry(answer)
          \/ ~IsRetried(answer) /\ Proceed(answer, "output")
    /\ UNCHANGED <<file, before>>

-----------------------------------------------------------------------------
(* Without --output the result is printed. *)
PrintResult ==
    /\ run.pc = "output" /\ ~run.toFile
    /\ Succeed("ok")
    /\ UNCHANGED <<file, before>>

(* Mutant: derive-storage-key opens its file like the others do. *)
OpenAnyFile ==
    /\ run.pc = "output" /\ run.toFile
    /\ \/ Create /\ Proceed("ok", "write")
       \/ Fail("disk") /\ UNCHANGED file
    /\ UNCHANGED before

(* os.WriteFile truncates what is there; the storage key's file is opened  *)
(* with O_EXCL and must not be there.                                      *)
OpenFile ==
    /\ run.pc = "output" /\ run.toFile
    /\ LET inTheWay == run.cmd = "derive-storage-key" /\ file[run.cmd] # NoFile
       IN  \/ inTheWay /\ Fail("ok") /\ UNCHANGED file
           \/ ~inTheWay /\ Create /\ Proceed("ok", "write")
           \/ Fail("disk") /\ UNCHANGED file
    /\ UNCHANGED before

(* Mutant: the error of the write is not looked at. *)
WriteUnchecked ==
    /\ run.pc = "write"
    /\ \/ file' = [file EXCEPT ![run.cmd].whole = TRUE] /\ Succeed("ok")
       \/ UNCHANGED file /\ Succeed("disk")
    /\ UNCHANGED before

WriteFile ==
    /\ run.pc = "write"
    /\ \/ file' = [file EXCEPT ![run.cmd].whole = TRUE] /\ Succeed("ok")
       \/ Fail("disk") /\ UNCHANGED file
    /\ UNCHANGED before

(* The process is killed, or the VM reset. *)
Kill ==
    /\ Running
    /\ run' = [run EXCEPT !.pc = "exited", !.status = "killed"]
    /\ UNCHANGED <<file, before>>

ClientStep ==
    \/ LoadConfig \/ SendRequest \/ PostAttestation
    \/ PrintResult \/ OpenFile \/ WriteFile

ClientNext ==
    \/ \E cmd \in Commands, toFile, remove \in BOOLEAN : Start(cmd, toFile, remove)
    \/ ClientStep \/ GetAttestation \/ Kill

(* The process keeps running.  Nothing makes the launcher answer: its      *)
(* socket is asked without a timeout.                                      *)
ClientSpec == ClientInit /\ [][ClientNext]_clientFileVars /\ WF_clientFileVars(ClientStep)

-----------------------------------------------------------------------------
(* A script that looks at the exit status never reads half a file, or one  *)
(* of an earlier boot: after status 0 the file is whole and of that run,   *)
(* whatever earlier runs left there (main.go:154-157, 223-238, 256-260).   *)
SuccessMeansWhole ==
    run.status = "ok" /\ run.toFile => file[run.cmd] = [run |-> run.number, whole |-> TRUE]

(* A run touches its file only with its result in hand, and then the file  *)
(* is replaced unless the disk fails: whether the run still goes on, was   *)
(* killed or has failed, a file that is not as the run found it was opened *)
(* by a run whose flags, evidence and answer were all good, and a failed   *)
(* run leaves it so only for an error of the write itself, never one of    *)
(* the open or of anything before (main.go:101-157, 195-238).              *)
OldFileSurvivesFailure ==
    file # before =>
        /\ \A phase \in {"config", "evidence", "request"} : run.met[phase] \in Good
        /\ run.status = "failed" => run.met["write"] = "disk"

(* No run of the client ever changes a storage key file it finds, whole or *)
(* cut short: a disk's key is never replaced by accident (main.go:223-230).*)
KeyFileNeverReplaced ==
    [][ file["derive-storage-key"] # NoFile /\ Running /\ run'.number = run.number
        => \/ file'["derive-storage-key"] = file["derive-storage-key"]
           \/ file["derive-storage-key"].run = run.number ]_clientFileVars

(* The user API has no say in a boot: the exit status follows from the     *)
(* flags, the evidence, the KMS server's last answer, the disk and the key *)
(* file found in the way, whatever the upload met, and however many tries  *)
(* the two exchanges took (envclient.go:199-206, main.go:101-238).         *)
StatusIgnoresUpload ==
    run.status \in {"ok", "failed"} =>
        ( run.status = "failed" <=>
             \/ \E phase \in Phases \ {"post"} : run.met[phase] \notin Good \cup {"none"}
             \/ run.cmd = "derive-storage-key" /\ before[run.cmd] # NoFile )

(* Once it has its evidence every command ends, however the server and the *)
(* user API behave (envclient.go:211-226).                                 *)
CommandEnds == run.pc = "request" ~> run.pc = "exited"

(* How many steps a run in state r has before it at most. *)
StepsLeft(r) ==
    CASE r.pc = "config"   -> 2 * MaxTries + 6
      [] r.pc = "evidence" -> 2 * MaxTries + 5
      [] r.pc = "request"  -> (MaxTries - r.tries) + MaxTries + 4
      [] r.pc = "post"     -> (MaxTries - r.tries) + 3
      [] r.pc = "output"   -> 2
      [] r.pc = "write"    -> 1
      [] r.pc = "exited"   -> 0

(* What makes a command end: no step of a run, of its two exchanges and    *)
(* their retries included, leads back to a state it has been in; each      *)
(* leaves fewer to come (main.go:101-157, envclient.go:211-226).           *)
CommandRunsDown ==
    [][ \/ UNCHANGED run
        \/ run'.number # run.number
        \/ StepsLeft(run') \in 0..(StepsLeft(run) - 1) ]_clientFileVars

=============================================================================
