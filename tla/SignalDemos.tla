---------------------------- MODULE SignalDemos ----------------------------
(***************************************************************************)
(* The programs of unix-network-programming/linux信号和信号集: each catches, *)
(* blocks or waits for signals.  A program is the sequence of its calls on  *)
(* the kernel's signal state; an action is the execution of one call, the  *)
(* delivery of a signal, which may come between any two, or a handler's    *)
(* return.  Semantics of Linux and glibc: signal() blocks the signal in    *)
(* its handler and does not reset it, setjmp() does not save the mask.     *)
(***************************************************************************)
EXTENDS Naturals, Sequences, SequencesExt

CONSTANT MaxSent       \* bound: how often each signal is sent to the process

ASSUME SentAssumption == MaxSent \in Nat

Signals == {"INT", "QUIT", "TERM", "ALRM"}

----------------------------------------------------------------------------
(* The programs.  "until" is the head of a while loop whose body is the one *)
(* statement after it, and which ends when a handler has set the flag.     *)

Call(name, signals) == [call |-> name, set |-> signals]
Catch(s) == Call("signal", {s})
Until == Call("until", {})
Spin == Call("spin", {})

\* Fault: sigprocmask(SIG_UNBLOCK) and then pause(), instead of sigsuspend.
Demo12Pausing == <<Catch("INT"), Catch("QUIT"), Call("block", {"QUIT"}), Call("restore", {}),
                   Until, Call("pause", {})>>

\* Fault: sigsetjmp(context_buffer, 0), which the source has commented out.
Demo11NotSaving == <<Catch("TERM"), Call("setjmp", {}), Spin>>

Demo0 == <<Catch("TERM"), Until, Call("select", {})>>
Demo1 == <<Catch("TERM"), Spin>>
Demo6 == <<Catch("TERM"), Call("block", Signals), Spin>>
Demo7 == <<Catch("QUIT"), Call("block", {"QUIT"}), Call("sleep", {}), Call("restore", {}),
           Call("sleep", {})>>
Demo8 == <<Catch("TERM"), Spin>>
Demo9 == <<Catch("ALRM"), Call("alarm", {}), Call("pause", {})>>
Demo10 == <<Catch("TERM"), Call("setjmp", {}), Spin>>
Demo11 == <<Catch("TERM"), Call("sigsetjmp", {}), Spin>>
Demo12 == <<Catch("INT"), Catch("QUIT"), Call("block", {"QUIT"}), Until,
            Call("sigsuspend", {}), Call("restore", {})>>
Demo13 == <<Call("block", Signals), Until, Call("sigwait", {"INT"})>>

Programs == [demo0 |-> Demo0, demo1 |-> Demo1, demo6 |-> Demo6, demo7 |-> Demo7,
             demo8 |-> Demo8, demo9 |-> Demo9, demo10 |-> Demo10, demo11 |-> Demo11,
             demo12 |-> Demo12, demo13 |-> Demo13]

VARIABLES demo,        \* which program; never changes
          pc,          \* the statement main is at, one past the last: returned
          fate,        \* "running", "killed" by a signal or "crashed"
          asleep,      \* is main inside the call at pc, waiting?
          mask, pending, caught,
          frames,      \* the handlers that run: their signal, the mask to restore
          saMask,      \* sa_mask of the handler; garbage in demo8
          old,         \* oldmask
          before,      \* the mask before sigsuspend changed it
          env,         \* jmp_buf: set yet?  with a mask, and which?
          timer,       \* is an alarm set?
          flag,        \* run, quitflag, or the alarm has rung: 0, or the
                       \* statement main was at when the handler set it
          sent         \* history: how often each signal was sent

kernel == <<mask, pending, caught, frames>>
memory == <<saMask, old, before, env, timer, flag>>
vars == <<demo, pc, fate, asleep, kernel, memory, sent>>

Init == /\ demo \in DOMAIN Programs
        /\ pc = 1 /\ fate = "running" /\ asleep = FALSE
        /\ mask = {} /\ pending = {} /\ caught = {} /\ frames = <<>>
        /\ IF demo = "demo8" THEN saMask \in SUBSET Signals ELSE saMask = {}
        /\ old = {} /\ before = {} /\ timer = FALSE /\ flag = 0
        /\ env = [isSet |-> FALSE, hasMask |-> FALSE, mask |-> {}]
        /\ sent = [s \in Signals |-> 0]

Program == Programs[demo]
Running == fate = "running" /\ pc <= Len(Program)

\* Where main goes on after the call at pc: back to the head of its loop.
After == IF pc > 1 /\ Program[pc - 1].call = "until" THEN pc - 1 ELSE pc + 1

----------------------------------------------------------------------------
(* The statements of main                                                  *)

Execute(calls) == Running /\ frames = <<>> /\ ~asleep /\ Program[pc].call \in calls
Arg == Program[pc].set

Signal == /\ Execute({"signal"})
          /\ caught' = caught \cup Arg
          /\ pc' = After
          /\ UNCHANGED <<demo, fate, asleep, mask, pending, frames, memory, sent>>

Block == /\ Execute({"block"})
         /\ old' = mask
         /\ mask' = mask \cup Arg
         /\ pc' = After
         /\ UNCHANGED <<demo, fate, asleep, pending, caught, frames, saMask, before, env,
                        timer, flag, sent>>

Restore == /\ Execute({"restore"})
           /\ mask' = old
           /\ pc' = After
           /\ UNCHANGED <<demo, fate, asleep, pending, caught, frames, memory, sent>>

SetJump == /\ Execute({"setjmp", "sigsetjmp"})
           /\ env' = [isSet |-> TRUE, hasMask |-> Program[pc].call = "sigsetjmp", mask |-> mask]
           /\ pc' = After
           /\ UNCHANGED <<demo, fate, asleep, kernel, saMask, old, before, timer, flag, sent>>

Alarm == /\ Execute({"alarm"})
         /\ timer' = TRUE
         /\ pc' = After
         /\ UNCHANGED <<demo, fate, asleep, kernel, saMask, old, before, env, flag, sent>>

Test == /\ Execute({"until"})
        /\ pc' = IF flag = 0 THEN pc + 1 ELSE pc + 2
        /\ UNCHANGED <<demo, fate, asleep, kernel, memory, sent>>

\* A call that waits; sigsuspend waits with another mask.
FallAsleep == /\ Execute({"select", "pause", "sleep", "sigsuspend"})
              /\ asleep' = TRUE
              /\ before' = mask
              /\ mask' = IF Program[pc].call = "sigsuspend" THEN Arg ELSE mask
              /\ UNCHANGED <<demo, pc, fate, pending, caught, frames, saMask, old, env, timer,
                             flag, sent>>

\* The seconds of a sleep are over; a client connects to the socket of select.
WakeUp(call) == /\ Running /\ asleep /\ Program[pc].call = call
                /\ asleep' = FALSE
                /\ pc' = After
                /\ UNCHANGED <<demo, fate, kernel, memory, sent>>

SigWait == /\ Execute({"sigwait"})
           /\ \E s \in pending \cap Arg : pending' = pending \ {s}
           /\ pc' = After
           /\ UNCHANGED <<demo, fate, asleep, mask, caught, frames, memory, sent>>

Main == \/ Signal \/ Block \/ Restore \/ SetJump \/ Alarm \/ Test \/ FallAsleep \/ SigWait
        \/ WakeUp("sleep")

----------------------------------------------------------------------------
(* Signals and their handlers                                              *)

\* Sent while it is pending, a signal merges with the one that is.
Send(s) == /\ Running
           /\ sent[s] < MaxSent
           /\ sent' = [sent EXCEPT ![s] = @ + 1]
           /\ pending' = pending \cup {s}
           /\ UNCHANGED <<demo, pc, fate, asleep, mask, caught, frames, memory>>

Ring == /\ Running /\ timer
        /\ timer' = FALSE
        /\ pending' = pending \cup {"ALRM"}
        /\ UNCHANGED <<demo, pc, fate, asleep, mask, caught, frames, saMask, old, before, env,
                       flag, sent>>

Kill(s) == /\ Running /\ s \in pending \ (mask \cup caught)
           /\ fate' = "killed"
           /\ pending' = pending \ {s}
           /\ UNCHANGED <<demo, pc, asleep, mask, caught, frames, memory, sent>>

\* Fault: SA_NODEFER.
HandlerMaskOpen(s) == saMask

\* What is blocked while the handler of s runs, besides what was.
HandlerMask(s) == saMask \cup {s}

\* The handler of s begins; the call that main waits in will return with EINTR,
\* for none of these is restarted.
Handle(s) == /\ Running /\ s \in (pending \ mask) \cap caught
             /\ pending' = pending \ {s}
             /\ frames' = Append(frames, [signal |-> s, mask |-> IF asleep THEN before ELSE mask])
             /\ mask' = mask \cup HandlerMask(s)
             /\ asleep' = FALSE
             /\ pc' = IF asleep THEN After ELSE pc
             /\ UNCHANGED <<demo, fate, caught, memory, sent>>

SetsFlag == demo \in {"demo0", "demo9"} \/ (demo = "demo12" /\ Last(frames).signal = "QUIT")
Jumps == demo \in {"demo10", "demo11"}

HandlerReturns ==
    /\ frames # <<>> /\ fate = "running" /\ ~Jumps
    /\ flag' = IF SetsFlag THEN pc ELSE flag
    /\ caught' = IF demo = "demo7" THEN caught \ {"QUIT"} ELSE caught
    /\ mask' = Last(frames).mask
    /\ frames' = Front(frames)
    /\ UNCHANGED <<demo, pc, fate, asleep, pending, saMask, old, before, env, timer, sent>>

\* longjmp out of the handler, or through a jmp_buf that was never set.
LongJump ==
    /\ frames # <<>> /\ fate = "running" /\ Jumps
    /\ IF env.isSet THEN pc' = 3 /\ UNCHANGED fate
                    ELSE fate' = "crashed" /\ UNCHANGED pc
    /\ mask' = IF env.hasMask THEN env.mask ELSE mask
    /\ frames' = <<>>
    /\ UNCHANGED <<demo, asleep, pending, caught, memory, sent>>

Delivery == HandlerReturns \/ LongJump \/ \E s \in Signals : Kill(s) \/ Handle(s)

----------------------------------------------------------------------------

Next == \/ Main \/ Delivery \/ Ring \/ WakeUp("select")
        \/ \E s \in Signals : Send(s)

Safety == Init /\ [][Next]_vars

\* Main, the handlers and the clock run; nobody need send anything or connect.
Spec == Safety /\ WF_vars(Main) /\ WF_vars(Delivery) /\ WF_vars(Ring)

----------------------------------------------------------------------------
(* Properties                                                              *)

Frame == [signal : Signals, mask : SUBSET Signals]

\* Every variable has its type; a handler never interrupts itself.
TypeOK == /\ pc \in 1 .. Len(Program) + 1 /\ flag \in 0 .. Len(Program) + 1
          /\ fate \in {"running", "killed", "crashed"}
          /\ asleep \in BOOLEAN /\ timer \in BOOLEAN
          /\ {mask, pending, caught, saMask, old, before} \subseteq SUBSET Signals
          /\ frames \in Seq(Frame)
          /\ \A j, k \in DOMAIN frames : frames[j].signal = frames[k].signal => j = k
          /\ env \in [isSet : BOOLEAN, hasMask : BOOLEAN, mask : SUBSET Signals]
          /\ sent \in [Signals -> 0 .. MaxSent]

\* What main itself has blocked at this statement.
OwnMask == UNION {Program[k].set : k \in {j \in 1 .. pc - 1 :
               /\ Program[j].call = "block"
               /\ \A r \in j .. pc - 1 : Program[r].call # "restore"}}

\* Whatever handlers interrupted, in whatever nesting, and whatever mask a call
\* waited with, main goes on with the mask it had set: sigsuspend (demo12.c:25)
\* and the siglongjmp of demo11 give it back.  The longjmp of demo10.c:15 does
\* not: it leaves SIGTERM blocked.
MaskIsRestored ==
    Running /\ frames = <<>> /\ ~asleep =>
        \/ mask = OwnMask
        \/ demo = "demo10" /\ pc = 3 /\ mask = {"TERM"}

Over == ~Running

\* Signals that main keeps blocked for ever.
Kept(s) == /\ frames = <<>> /\ s \in mask
           /\ \/ demo = "demo6"
              \/ demo = "demo10" /\ s = "TERM"
              \/ demo = "demo13" /\ s # "INT"

\* The handler ran after main had looked and before it slept.
Missed == demo \in {"demo0", "demo9"} /\ asleep /\ flag = pc

\* A signal that is sent is taken, by its handler or by the end of the process,
\* unless the program keeps it blocked; and a program that waits for its
\* handler goes on: always in demo12, whose sigsuspend unblocks and waits in one
\* step, and in demo0 and demo9 unless the handler ran in the window before the
\* select (demo0.c:28) or the pause (demo9.c:12).
EverySignalIsTaken ==
    /\ \A s \in Signals : s \in pending ~> s \notin pending \/ Over \/ Kept(s)
    /\ flag # 0 ~> Over \/ Missed
=============================================================================
