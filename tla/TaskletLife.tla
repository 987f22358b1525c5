---------------------------- MODULE TaskletLife ----------------------------
(***************************************************************************)
(* The tasklets of a DPU from one subkernel to the next: boot.s starts     *)
(* them, __ime_stop_tasklet (ime.c) ends them, tasklet 0 releases the      *)
(* mutexes and jumps to ime_replace_sk (core_load.S), which proves with    *)
(* ime_check_threads (core_thrd.s) that nobody else runs, loads the next   *)
(* subkernel and resumes the others.                                       *)
(*                                                                         *)
(* A thread has a run bit and a pc.  "boot" sets the run bit of a stopped  *)
(* thread and starts it at pc 0; it leaves a running thread alone and its  *)
(* condition nz reports that the thread was running.  "stop" clears the    *)
(* run bit and leaves a pc behind at which "resume" continues.             *)
(*                                                                         *)
(* A thread that waits for the host (jump 2, core_on_signal) saves r23,    *)
(* sets it to -1 and faults.  The host resolves the fault by starting the  *)
(* thread at pc 0, where the -1 sends it back to what it has saved and not *)
(* into the stop that a booted thread runs into.                           *)
(***************************************************************************)
EXTENDS Naturals, FiniteSets

CONSTANT N   \* NR_TASKLETS of the trusted loader

ASSUME NAssumption == N \in Nat /\ N >= 2

Tasklets == 0 .. N-1
Others == 1 .. N-1

VARIABLES
  pc,      \* pc[t]: where t is
  run,     \* run[t]: RUN_BIT[t]
  lneg,    \* the threads whose register r23 is -1
  used,    \* NR_TASKLETS of the subkernel in IRAM
  count,   \* __ime_tasklet_count
  lock,    \* the tasklets inside __ime_tasklet_lock
  seen,    \* what tasklet 0 last read from __ime_tasklet_count
  r,       \* register r0 of tasklet 0 in the loops over the threads
  fault,   \* whether ime_sec_fault stopped the DPU
  ran,     \* the tasklets that have run main() of this subkernel
  direct   \* whether main() called __ime_replace_sk instead of returning

vars == <<pc, run, lneg, used, count, lock, seen, r, fault, ran, direct>>
runtime == <<lneg, used, count, lock, seen, ran, direct>>

(***************************************************************************)
(* All tasklets: "start" (__bootstrap of boot.s), "main", "lock", "unlock" *)
(* (__ime_stop_tasklet), "tl" (pc 0 of the trusted loader).  Others:       *)
(* "count", "stop" (__ime_stop_tasklet).  Tasklet 0: "read" (there),       *)
(* "reset" (reset_atomic) and the parts of ime_replace_sk.                 *)
(***************************************************************************)
Locations == {"start", "main", "lock", "count", "unlock", "stop", "tl", "read",
              "reset", "boot1", "delay1", "boot2", "delay2", "load", "resume"}

Goto(t, l) == pc' = [pc EXCEPT ![t] = l]

\* Stop(t, l): the stop instruction, leaving l behind as the pc.
Stop(t, l) == Goto(t, l) /\ run' = [run EXCEPT ![t] = FALSE]

\* The host boots thread 0; it runs core_cont_boot into ime_replace_sk.  The
\* others do not run; where their pc is does not matter until they are booted.
\* Their registers are what an earlier program left: some may have been in the
\* main() of one, waiting for the host.
Init ==
  /\ pc = [t \in Tasklets |-> IF t = 0 THEN "boot1" ELSE "start"]
  /\ run = [t \in Tasklets |-> t = 0]
  /\ lneg \in SUBSET Others
  /\ used = N
  /\ count = N
  /\ lock = {}
  /\ seen = 0
  /\ r = N - 1
  /\ fault = FALSE
  /\ ran = lneg
  /\ direct = TRUE

-----------------------------------------------------------------------------
(* The runtime in the subkernel. *)

\* Slip: unused tasklets end like the others (boot.s:38 warns of it).
StopUnusedCounted(t) ==
  /\ pc[t] = "start" /\ run[t]
  /\ t >= used
  /\ Goto(t, "lock")
  /\ UNCHANGED <<run, runtime, r, fault>>

\* __bootstrap: a tasklet the subkernel does not use stops at once.
StopUnused(t) ==
  /\ pc[t] = "start" /\ run[t]
  /\ t >= used
  /\ Stop(t, "start")
  /\ UNCHANGED <<runtime, r, fault>>

EnterMain(t) ==
  /\ pc[t] = "start" /\ run[t]
  /\ t < used
  /\ ran' = ran \cup {t}
  /\ Goto(t, "main")
  /\ UNCHANGED <<run, lneg, used, count, lock, seen, r, fault, direct>>

ReturnFromMain(t) ==
  /\ pc[t] = "main"
  /\ Goto(t, "lock")
  /\ UNCHANGED <<run, runtime, r, fault>>

\* __ime_wait_for_host: the fault halts the whole DPU, so nothing happens on it
\* before the host resolves the fault by starting the thread at pc 0.
WaitForHost(t) ==
  /\ pc[t] = "main"
  /\ lneg' = lneg \cup {t}
  /\ Goto(t, "tl")
  /\ UNCHANGED <<run, used, count, lock, seen, r, fault, ran, direct>>

\* msg, the key exchange and any other subkernel may load the next one
\* themselves, without waiting for the other tasklets.
ReplaceFromMain ==
  /\ pc[0] = "main"
  /\ direct' = TRUE
  /\ r' = N - 1
  /\ Goto(0, "boot1")
  /\ UNCHANGED <<run, lneg, used, count, lock, seen, fault, ran>>

Acquire(t) ==
  /\ pc[t] = "lock"
  /\ lock = {}
  /\ lock' = {t}
  /\ Goto(t, IF t = 0 THEN "read" ELSE "count")
  /\ UNCHANGED <<run, lneg, used, count, seen, r, fault, ran, direct>>

CountDown(t) ==
  /\ pc[t] = "count"
  /\ count' = count - 1
  /\ Goto(t, "unlock")
  /\ UNCHANGED <<run, lneg, used, lock, seen, r, fault, ran, direct>>

ReadCount ==
  /\ pc[0] = "read"
  /\ seen' = count
  /\ Goto(0, "unlock")
  /\ UNCHANGED <<run, lneg, used, count, lock, r, fault, ran, direct>>

\* Slip: tasklet 0 goes on when one tasklet is still to be counted.
UnlockOffByOne(t) ==
  /\ pc[t] = "unlock"
  /\ lock' = lock \ {t}
  /\ Goto(t, IF t # 0 THEN "stop" ELSE IF seen <= 2 THEN "reset" ELSE "lock")
  /\ UNCHANGED <<run, lneg, used, count, seen, r, fault, ran, direct>>

\* Tasklet 0 polls until its own is the only tasklet left.
Unlock(t) ==
  /\ pc[t] = "unlock"
  /\ lock' = lock \ {t}
  /\ Goto(t, IF t # 0 THEN "stop" ELSE IF seen = 1 THEN "reset" ELSE "lock")
  /\ UNCHANGED <<run, lneg, used, count, seen, r, fault, ran, direct>>

StopSelf(t) ==
  /\ pc[t] = "stop"
  /\ Stop(t, "start")
  /\ UNCHANGED <<runtime, r, fault>>

\* reset_atomic releases every mutex; tasklet 0 then jumps to the loader.
ResetAtomic ==
  /\ pc[0] = "reset"
  /\ lock' = {}
  /\ direct' = FALSE
  /\ r' = N - 1
  /\ Goto(0, "boot1")
  /\ UNCHANGED <<run, lneg, used, count, seen, fault, ran>>

-----------------------------------------------------------------------------
(* The trusted loader. *)

\* core_on_boot of a thread whose r23 is -1: core_on_sigret jumps to what r23
\* was when the thread began to wait, an address in its main().
SigReturn(t) ==
  /\ pc[t] = "tl" /\ run[t] /\ t \in lneg
  /\ lneg' = lneg \ {t}
  /\ Goto(t, "main")
  /\ UNCHANGED <<run, used, count, lock, seen, r, fault, ran, direct>>

\* core_on_boot of any other thread but 0.
StopInLoader(t) ==
  /\ pc[t] = "tl" /\ run[t] /\ t \notin lneg /\ t # 0
  /\ Stop(t, "start")
  /\ UNCHANGED <<runtime, r, fault>>

(***************************************************************************)
(* The loops of ime_check_threads run r0 from N-1 down to 1.  boot leaves  *)
(* a running thread alone and starts a stopped one at pc 0.                *)
(***************************************************************************)
BootThread(l, next) ==
  /\ pc[0] = l
  /\ pc' = [pc EXCEPT ![0] = IF r = 1 THEN next ELSE l,
                      ![r] = IF run[r] THEN @ ELSE "tl"]
  /\ run' = [run EXCEPT ![r] = TRUE]
  /\ r' = IF r = 1 THEN N - 1 ELSE r - 1

Boot1 ==
  /\ BootThread("boot1", "delay1")
  /\ UNCHANGED <<runtime, fault>>

\* The delay loops give threads "some time to boot and terminate": enough
\* for the few instructions on which a thread is certain to stop, and no
\* help for one that is elsewhere in a subkernel.
AboutToStop(t) ==
  /\ run[t]
  /\ \/ pc[t] = "tl" /\ t \notin lneg
     \/ pc[t] = "stop"
     \/ pc[t] = "start" /\ t >= used

\* Slip: the second boots follow the first at once.
Delay1Skipped ==
  /\ pc[0] = "delay1"
  /\ Goto(0, "boot2")
  /\ UNCHANGED <<run, runtime, r, fault>>

Delay1 ==
  /\ pc[0] = "delay1"
  /\ \A t \in Others : ~ AboutToStop(t)
  /\ Goto(0, "boot2")
  /\ UNCHANGED <<run, runtime, r, fault>>

\* Slip: the second round of boots does not look at the old run bit.
Boot2Unchecked ==
  /\ BootThread("boot2", "delay2")
  /\ UNCHANGED <<runtime, fault>>

\* boot r0, 0, nz, ime_sec_fault: a thread that still runs is a fault.
Boot2 ==
  \/ /\ ~ run[r]
     /\ BootThread("boot2", "delay2")
     /\ UNCHANGED <<runtime, fault>>
  \/ /\ pc[0] = "boot2"
     /\ run[r]
     /\ fault' = TRUE
     /\ run' = [t \in Tasklets |-> FALSE]
     /\ UNCHANGED <<pc, runtime, r>>

Delay2 ==
  /\ pc[0] = "delay2"
  /\ \A t \in Others : ~ AboutToStop(t)
  /\ Goto(0, "load")
  /\ UNCHANGED <<run, runtime, r, fault>>

\* ime_load_wram and ime_load_iram replace the code and __ime_tasklet_count.
Load ==
  /\ pc[0] = "load"
  /\ used' \in 1..N
  /\ count' = used'
  /\ ran' = {}
  /\ Goto(0, "resume")
  /\ UNCHANGED <<run, lneg, lock, seen, r, fault, direct>>

\* Slip: the resume loop leaves out the last thread.
ResumeShort ==
  /\ pc[0] = "resume"
  /\ run' = [run EXCEPT ![r] = r # N - 1]
  /\ r' = IF r = 1 THEN N - 1 ELSE r - 1
  /\ Goto(0, IF r = 1 THEN "start" ELSE "resume")
  /\ UNCHANGED <<runtime, fault>>

\* resume_loop: the others continue at the pc they stopped with.
Resume ==
  /\ pc[0] = "resume"
  /\ run' = [run EXCEPT ![r] = TRUE]
  /\ r' = IF r = 1 THEN N - 1 ELSE r - 1
  /\ Goto(0, IF r = 1 THEN "start" ELSE "resume")
  /\ UNCHANGED <<runtime, fault>>

-----------------------------------------------------------------------------
Loader == Boot1 \/ Delay1 \/ Boot2 \/ Delay2 \/ Load \/ Resume

\* The steps a thread takes by itself, once it has no mutex to wait for.
Thread(t) ==
  \/ StopUnused(t) \/ EnterMain(t) \/ SigReturn(t)
  \/ CountDown(t) \/ Unlock(t) \/ StopSelf(t) \/ StopInLoader(t)

Tasklet0 == ReadCount \/ ResetAtomic \/ Loader

\* After ime_sec_fault the DPU stays as it is.
Halted == fault /\ UNCHANGED vars

Next ==
  \/ /\ ~ fault
     /\ \/ \E t \in Tasklets : Thread(t) \/ Acquire(t)
        \/ \E t \in Tasklets : ReturnFromMain(t) \/ WaitForHost(t)
        \/ Tasklet0
        \/ ReplaceFromMain
  \/ Halted

Spec == Init /\ [][Next]_vars

(***************************************************************************)
(* Threads issue in round-robin order; main() of a subkernel returns,      *)
(* however often it waits for the host before (strong fairness), and the   *)
(* host lets a thread that waits for it go on (WaitForHost is one step).   *)
(* Taking the mutex is strongly fair: tasklet 0 pauses for 1000 iterations *)
(* between two polls (ime.c:20) and every other tasklet takes it once, so  *)
(* one that waits for it finds it free again and again.                    *)
(***************************************************************************)
FairSpec ==
  /\ Spec
  /\ WF_vars(~ fault /\ Tasklet0)
  /\ \A t \in Tasklets : WF_vars(~ fault /\ Thread(t))
  /\ \A t \in Tasklets :
       SF_vars(~ fault /\ Acquire(t)) /\ SF_vars(~ fault /\ ReturnFromMain(t))

-----------------------------------------------------------------------------
TypeOK ==
  /\ pc \in [Tasklets -> Locations]
  /\ run \in [Tasklets -> BOOLEAN]
  /\ lneg \subseteq Tasklets
  /\ used \in 1..N
  /\ count \in 0..N
  /\ lock \subseteq Tasklets
  /\ seen \in 0..N
  /\ r \in Others
  /\ fault \in BOOLEAN
  /\ ran \subseteq Tasklets
  /\ direct \in BOOLEAN

\* While ime_replace_sk changes IRAM and WRAM no other thread runs, and each
\* will resume at the first instruction of the new subkernel (core_thrd.s).
LoadIsExclusive ==
  pc[0] = "load" => \A t \in Others : ~ run[t] /\ pc[t] = "start"

\* boot.s:19-20: "here all threads except for 0 have stopped or will at least
\* no longer use atomic memory / therefore I can safely reset it".
ResetIsSafe ==
  pc[0] = "reset" =>
    /\ lock = {}
    /\ \A t \in Others : pc[t] \notin {"main", "lock", "count", "unlock"} /\ t \notin lneg

\* A subkernel whose main() returns in tasklet 0 is replaced only after every
\* tasklet it uses has run its main() to the end (ime.c:11-29).
MainsComplete ==
  pc[0] \in {"reset", "boot1", "delay1", "boot2", "delay2", "load"} /\ ~ direct =>
    /\ \A t \in Tasklets : t < used => t \in ran
    /\ \A t \in Others : pc[t] # "main" /\ t \notin lneg

\* The thread check stops the DPU only when tasklet 0 left main() directly
\* while others were still running (core_thrd.s:19).
NoSpuriousFault == fault => direct

(***************************************************************************)
(* The inductive invariant behind the properties above.                    *)
(***************************************************************************)
\* Tasklet 0 is in the subkernel, or loaded it and resumes the others.
InSubkernel ==
  pc[0] \in {"resume", "start", "main", "tl", "lock", "read", "unlock", "reset"}

\* The tasklets __ime_tasklet_count still counts, tasklet 0 apart.
Pending ==
  {t \in Others :
     t < used /\ (t \notin ran \/ t \in lneg \/ pc[t] \in {"main", "lock", "count"})}

\* Booted, and stopped again or about to stop in the loader.
Parked(t) == t \notin lneg /\ IF run[t] THEN pc[t] = "tl" ELSE pc[t] = "start"

\* A thread whose r23 is -1 waits for the host or has been let go on by it, but
\* for those that an earlier program left and the first boots have yet to reach.
WaitsOK ==
  /\ 0 \in lneg <=> pc[0] = "tl"
  /\ \A t \in lneg \cap Others :
       /\ t < used /\ t \in ran
       /\ run[t] => pc[t] = "tl"
       /\ ~ run[t] => pc[0] = "boot1" /\ t <= r /\ direct

Places ==
  /\ run[0] /\ pc[0] \notin {"stop", "count"}
  /\ pc[0] \in {"resume", "start"} => 0 \notin ran
  /\ pc[0] \in {"main", "tl", "lock", "read", "unlock", "reset"} => 0 \in ran
  /\ \A t \in Others :
       /\ pc[t] \in {"start", "main", "lock", "count", "unlock", "stop", "tl"}
       /\ pc[t] # "start" => run[t]
       /\ pc[t] = "start" /\ run[t] => t \notin ran
       /\ pc[t] \in {"main", "lock", "count", "unlock"} => t < used /\ t \in ran

MutexOK ==
  /\ \A t \in Tasklets : t \in lock <=> pc[t] \in {"read", "count", "unlock"}
  /\ \A s, t \in lock : s = t

CountOK ==
  /\ Cardinality(Pending) <= count
  /\ InSubkernel =>
      /\ count = 1 + Cardinality(Pending)
      /\ \A t \in Others :
           /\ pc[t] = "tl" => t \in lneg
           /\ t \in ran => t < used /\ (pc[t] = "start" => ~ run[t])
           /\ t \notin ran => pc[t] = "start"
      /\ pc[0] = "unlock" /\ seen = 1 => Pending = {}
      /\ pc[0] = "reset" => Pending = {} /\ lock = {}

ExitOK ==
  pc[0] \in {"boot1", "delay1", "boot2", "delay2", "load"} /\ ~ direct =>
    /\ \A t \in Tasklets : t < used => t \in ran
    /\ \A t \in Others :
         t \notin lneg /\ IF run[t] THEN AboutToStop(t) ELSE pc[t] = "start"

CheckOK ==
  /\ pc[0] = "boot2" => \A t \in Others : t > r => Parked(t)
  /\ pc[0] = "boot2" /\ ~ direct => \A t \in Others : t <= r => ~ run[t]
  /\ pc[0] = "delay2" => \A t \in Others : Parked(t)
  /\ pc[0] = "load" => \A t \in Others : ~ run[t]
  /\ pc[0] = "resume" => \A t \in Others : t <= r => t \notin ran /\ ~ run[t]
  /\ pc[0] \in {"delay1", "delay2", "load"} => r = N - 1

LifeInv ==
  /\ TypeOK
  /\ fault => direct /\ pc[0] = "boot2"
  /\ ~ fault => Places /\ WaitsOK /\ MutexOK /\ CountOK /\ ExitOK /\ CheckOK

\* When main() of tasklet 0 returns, the next subkernel eventually starts.
NextSubkernelStarts == pc[0] = "lock" ~> pc[0] = "start"
=============================================================================
