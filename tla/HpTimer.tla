------------------------------ MODULE HpTimer -------------------------------
(***************************************************************************)
(* transport/hptimer: the timer engine (a heap of tasks, a run loop that   *)
(* sleeps until the earliest one, a wake-up channel) and the server that   *)
(* owns one.  Add, Remove, Start and Stop may come at any moment, also     *)
(* while the loop is calling a task back.                                  *)
(* Definitions named Mutant... are faulty variants of the one after them.  *)
(***************************************************************************)
EXTENDS Naturals, FiniteSets

CONSTANTS TaskIDs,
          Repeating,        \* those with an Interval
          MaxTime, MaxAdds, MaxStarts, MaxStops     \* bounds

VARIABLES owner,            \* who drives the engine: "user", or the "server"
          now,
          running, ctx,     \* HighPrecisionTimer.running; the number of its context
          ended,            \* contexts that have been cancelled
          heap,             \* the tasks waiting; the index by ID has the same content
          cancelled,        \* serial numbers of tasks whose context is cancelled
          wakeup,           \* something in the wake-up channel?
          hasTimer,         \* ht.timer is set
          loop,             \* run loop -> where it is
          stop,             \* the Stop call under way
          mu, startCtx, stopCall,   \* Server: its lock, Start's context, a Stop call
          adds, starts, stops,
          removed,          \* tasks whose RemoveTask returned true
          undead,           \* such a task was called back later
          crossed           \* a Start came between the two halves of a Stop

timerVars == <<owner, now, running, ctx, ended, heap, cancelled, wakeup, hasTimer, loop, stop, mu, startCtx,
               stopCall, adds, starts, stops, removed, undead, crossed>>
server == <<mu, startCtx, stopCall>>
bounds == <<adds, starts, stops>>
ghosts == <<removed, undead>>

Loops == 1 .. MaxStarts
NoTask == [n |-> 0, id |-> 0, at |-> 0, every |-> 0]
Gone == [pc |-> "none", until |-> 0, ctx |-> 0, armed |-> FALSE, task |-> NoTask, last |-> 0]

TimerInit ==
    /\ owner \in {"user", "server"}
    /\ now = 0 /\ running = FALSE /\ ctx = 1 /\ ended = {} /\ heap = {} /\ cancelled = {}
    /\ wakeup = FALSE /\ hasTimer = FALSE
    /\ loop = [l \in Loops |-> Gone]
    /\ stop = "none"
    /\ mu = "free" /\ startCtx = "alive" /\ stopCall = "none"
    /\ adds = 0 /\ starts = 0 /\ stops = 0
    /\ removed = {} /\ undead = FALSE /\ crossed = FALSE

-----------------------------------------------------------------------------
(* The engine.  Start makes a new context when Stop has cancelled the old  *)
(* one.                                                                    *)
Start ==
    /\ ~running /\ starts < MaxStarts
    /\ running' = TRUE
    /\ ctx' = IF ctx \in ended THEN ctx + 1 ELSE ctx
    /\ starts' = starts + 1
    /\ loop' = [loop EXCEPT ![starts + 1].pc = "check"]
    /\ crossed' = (crossed \/ stop # "none")
    /\ UNCHANGED <<owner, now, ended, heap, cancelled, wakeup, hasTimer, stop, adds, stops, ghosts>>

(* Stop cancels the context, then takes the lock, stops the timer and      *)
(* cancels the tasks, then waits for the loop.                             *)
MutantStopCancels ==
    /\ stop \in {"none", "begun"}
    /\ stop' = "cancelled"
    /\ UNCHANGED <<owner, now, running, ctx, ended, heap, cancelled, wakeup, hasTimer, loop, adds, starts, ghosts, crossed>>
StopCancels ==
    /\ stop \in {"none", "begun"}
    /\ ended' = ended \cup {ctx}
    /\ stop' = "cancelled"
    /\ UNCHANGED <<owner, now, running, ctx, heap, cancelled, wakeup, hasTimer, loop, adds, starts, ghosts, crossed>>
StopLocks ==
    /\ stop = "cancelled"
    /\ IF ~running THEN stop' = "none" /\ UNCHANGED <<running, cancelled, loop>>
       ELSE /\ running' = FALSE
            /\ cancelled' = cancelled \cup {t.n : t \in heap}
            /\ loop' = [l \in Loops |-> [loop[l] EXCEPT !.armed = FALSE]]
            /\ stop' = "waiting"
    /\ UNCHANGED <<owner, now, ctx, ended, heap, wakeup, hasTimer, server, bounds, ghosts, crossed>>
StopReturns ==
    /\ stop = "waiting" /\ \A l \in Loops : loop[l].pc = "none"
    /\ stop' = "none"
    /\ UNCHANGED <<owner, now, running, ctx, ended, heap, cancelled, wakeup, hasTimer, loop, server, bounds,
                   ghosts, crossed>>

(* AddTask: refused when the engine is stopped or the ID is taken; the     *)
(* loop is woken when the task is the earliest and the loop has a timer.   *)
Taken(id) == \E t \in heap : t.id = id
MutantPush(t) ==
    /\ heap' = heap \cup {t}
    /\ wakeup' = (wakeup \/ (hasTimer /\ heap = {}))
Push(t) ==
    /\ heap' = heap \cup {t}
    /\ wakeup' = (wakeup \/ (hasTimer /\ \A u \in heap : t.at < u.at))
(* Bound: the engine a server builds is the one its user drives otherwise, *)
(* and gets one task.                                                      *)
MoreAdds == adds < IF owner = "server" THEN 1 ELSE MaxAdds
AddTask ==
    \E id \in TaskIDs, at \in now .. MaxTime :
        /\ MoreAdds /\ running /\ ~Taken(id)
        /\ owner = "server" => mu = "start"
        /\ adds' = adds + 1
        /\ Push([n |-> adds + 1, id |-> id, at |-> at,
              every |-> IF id \in Repeating THEN 1 ELSE 0])
        /\ UNCHANGED <<owner, now, running, ctx, ended, cancelled, hasTimer, loop, stop, server, starts, stops,
                       ghosts, crossed>>
RemoveTask ==
    \E t \in heap :
        /\ running
        /\ owner = "server" => mu = "start"
        /\ heap' = heap \ {t}
        /\ cancelled' = cancelled \cup {t.n}
        /\ removed' = removed \cup {t.n}
        /\ UNCHANGED <<owner, now, running, ctx, ended, wakeup, hasTimer, loop, stop, server, bounds, undead, crossed>>

-----------------------------------------------------------------------------
(* The loop.                                                               *)
At(l, pc) == loop[l].pc = pc
Goto(l, pc) == loop' = [loop EXCEPT ![l].pc = pc]
Recheck(l) == loop' = [loop EXCEPT ![l] = [Gone EXCEPT !.pc = "check"]]
Exit(l) == loop' = [loop EXCEPT ![l] = Gone]
Top == {t \in heap : \A u \in heap : t.at <= u.at}

Check(l) ==
    /\ At(l, "check")
    /\ \/ /\ ~running \/ ctx \in ended
          /\ Exit(l) /\ UNCHANGED <<heap, hasTimer>>
       \/ /\ running /\ ctx \notin ended /\ heap = {}
          /\ Goto(l, "idle") /\ UNCHANGED <<heap, hasTimer>>
       \/ /\ running /\ ctx \notin ended
          /\ \E t \in Top :
                IF t.at <= now
                THEN /\ heap' = heap \ {t}
                     /\ IF t.n \in cancelled THEN Recheck(l)
                        ELSE loop' = [loop EXCEPT ![l].pc = "fire", ![l].task = t, ![l].last = now]
                     /\ UNCHANGED hasTimer
                ELSE /\ hasTimer' = TRUE
                     /\ loop' = [k \in Loops |->
                                   IF k = l THEN [loop[l] EXCEPT !.pc = "select", !.until = t.at, !.armed = TRUE]
                                   ELSE [loop[k] EXCEPT !.armed = FALSE]]
                     /\ UNCHANGED heap
    /\ UNCHANGED <<owner, now, running, ctx, ended, cancelled, wakeup, stop, server, bounds, ghosts, crossed>>

(* The heap is empty: poll every millisecond.                              *)
Idle(l) ==
    /\ At(l, "idle")
    /\ Recheck(l) \/ (ctx \in ended /\ Exit(l))
    /\ UNCHANGED <<owner, now, running, ctx, ended, heap, cancelled, wakeup, hasTimer, stop, server, bounds,
                   ghosts, crossed>>

(* select evaluates ht.ctx after the lock has been given back.             *)
Select(l) ==
    /\ At(l, "select")
    /\ loop' = [loop EXCEPT ![l].pc = "sleep", ![l].ctx = ctx]
    /\ UNCHANGED <<owner, now, running, ctx, ended, heap, cancelled, wakeup, hasTimer, stop, server, bounds,
                   ghosts, crossed>>
Wake(l) ==
    /\ At(l, "sleep")
    /\ \/ loop[l].armed /\ loop[l].until <= now /\ Recheck(l) /\ UNCHANGED wakeup
       \/ wakeup /\ Recheck(l) /\ wakeup' = FALSE
       \/ loop[l].ctx \in ended /\ Exit(l) /\ UNCHANGED wakeup
    /\ UNCHANGED <<owner, now, running, ctx, ended, heap, cancelled, hasTimer, stop, server, bounds, ghosts, crossed>>

Fire(l) ==
    /\ At(l, "fire")
    /\ undead' = (undead \/ loop[l].task.n \in removed)
    /\ Goto(l, "repeat")
    /\ UNCHANGED <<owner, now, running, ctx, ended, heap, cancelled, wakeup, hasTimer, stop, server, bounds,
                   removed, crossed>>

(* A repeating task goes back into the heap, with the same context.        *)
handleRepeatTask(l) ==
    LET t == loop[l].task IN
    /\ At(l, "repeat")
    /\ Recheck(l)
    /\ IF t.n \notin cancelled /\ t.every > 0 /\ running /\ ~Taken(t.id)
       THEN Push([t EXCEPT !.at = loop[l].last + t.every]) ELSE UNCHANGED <<heap, wakeup>>
    /\ UNCHANGED <<owner, now, running, ctx, ended, cancelled, hasTimer, stop, server, bounds, ghosts, crossed>>

Tick ==
    /\ now < MaxTime
    /\ now' = now + 1
    /\ UNCHANGED <<owner, running, ctx, ended, heap, cancelled, wakeup, hasTimer, loop, stop, server, bounds,
                   ghosts, crossed>>

-----------------------------------------------------------------------------
(* The engine in the user's hands.                                         *)
UserStart == owner = "user" /\ Start /\ UNCHANGED server
UserStop == owner = "user" /\ stops < MaxStops /\ StopCancels /\ stops' = stops + 1 /\ UNCHANGED server

(* The server: Start holds the lock until its context is done, Stop takes  *)
(* the same lock.  Each Start builds a new engine; what is left of the one *)
(* before it, its loop or a Stop that waits, goes on apart from everything *)
(* and is dropped here.                                                    *)
ServerStart ==
    /\ owner = "server" /\ mu = "free" /\ starts < MaxStarts
    /\ running' = TRUE /\ ctx' = 1 /\ ended' = {}
    /\ heap' = {} /\ cancelled' = {} /\ wakeup' = FALSE /\ hasTimer' = FALSE
    /\ starts' = starts + 1
    /\ loop' = [l \in Loops |-> IF l = 1 THEN [Gone EXCEPT !.pc = "check"] ELSE Gone]
    /\ stop' = IF stop = "begun" THEN "begun" ELSE "none"
    /\ mu' = "start" /\ startCtx' = "alive"
    /\ now' = 0 /\ adds' = 0 /\ removed' = {}
    /\ UNCHANGED <<owner, stopCall, stops, undead, crossed>>
CancelStart ==
    /\ owner = "server" /\ mu = "start" /\ startCtx = "alive"
    /\ startCtx' = "done"
    /\ UNCHANGED <<owner, now, running, ctx, ended, heap, cancelled, wakeup, hasTimer, loop, stop, mu, stopCall,
                   bounds, ghosts, crossed>>
CallStop ==
    /\ owner = "server" /\ starts > 0 /\ stopCall = "none" /\ stops < MaxStops
    /\ stopCall' = "asked" /\ stops' = stops + 1
    /\ UNCHANGED <<owner, now, running, ctx, ended, heap, cancelled, wakeup, hasTimer, loop, stop, mu, startCtx,
                   adds, starts, ghosts, crossed>>
(* stopInternal hands the engine to a goroutine and waits for it, but not  *)
(* longer than ten seconds or than the context of Stop lives ...           *)
stopInternal ==
    /\ owner = "server" /\ stop = "none"
    /\ \/ mu = "start" /\ startCtx = "done" /\ mu' = "starting to stop"
       \/ mu = "free" /\ stopCall = "asked" /\ mu' = "stop"
    /\ stop' = "begun"
    /\ UNCHANGED <<owner, now, running, ctx, ended, heap, cancelled, wakeup, hasTimer, loop, startCtx, stopCall,
                   bounds, ghosts, crossed>>
ServerReturns ==
    /\ mu \in {"starting to stop", "stop"}
    /\ mu' = "free"
    /\ stopCall' = IF mu = "stop" THEN "none" ELSE stopCall
    /\ UNCHANGED <<owner, now, running, ctx, ended, heap, cancelled, wakeup, hasTimer, loop, stop, startCtx,
                   bounds, ghosts, crossed>>
(* ... so the goroutine may find the engine of the next Start.             *)
StopEngine == owner = "server" /\ stop = "begun" /\ StopCancels /\ UNCHANGED <<server, stops>>

LoopStep(l) == Check(l) \/ Idle(l) \/ Select(l) \/ Wake(l) \/ Fire(l) \/ handleRepeatTask(l)
TimerNext ==
    \/ UserStart \/ UserStop \/ ServerStart \/ CancelStart \/ CallStop \/ stopInternal \/ ServerReturns \/ StopEngine
    \/ StopLocks \/ StopReturns \/ AddTask \/ RemoveTask \/ Tick
    \/ \E l \in Loops : LoopStep(l)

(* A started goroutine goes on, a lock holder finishes, time passes; calls *)
(* and the end of Start's context may or may not come.                     *)
TimerFairness ==
    /\ \A l \in Loops : WF_timerVars(LoopStep(l))
    /\ WF_timerVars(StopLocks) /\ WF_timerVars(StopReturns) /\ WF_timerVars(stopInternal)
    /\ WF_timerVars(ServerReturns) /\ WF_timerVars(StopEngine) /\ WF_timerVars(Tick)
TimerSpec == TimerInit /\ [][TimerNext]_timerVars /\ TimerFairness

-----------------------------------------------------------------------------
(* The loop never sleeps past a task: whatever is added while it sleeps,   *)
(* or while it is about to, either comes later than its timer or has left  *)
(* a wake-up behind (AddTask, high_precision_timer.go:168-176), unless a    *)
(* Start has crossed a Stop and two loops share the channel; and a task    *)
(* RemoveTask has answered true for is never called back again, repeating  *)
(* or not (RemoveTask 181-210, handleRepeatTask 295-329).                  *)
SleepsRight ==
    /\ ~undead
    /\ \A l \in Loops : loop[l].pc \in {"select", "sleep"} /\ loop[l].armed /\ ~crossed =>
          \A t \in heap : t.at >= loop[l].until \/ wakeup

(* A Stop of the engine that no Start crosses comes back: the loop is not  *)
(* left sleeping on the stopped timer (Stop, high_precision_timer.go:      *)
(* 91-119); and a task that is due leaves the heap while the engine runs.  *)
NothingOverdue ==
    /\ stop = "none" \/ crossed
    /\ running => \A t \in heap : t.at >= MaxTime
EngineLives == <>[]NothingOverdue
=============================================================================
