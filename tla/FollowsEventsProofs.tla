------------------------ MODULE FollowsEventsProofs ------------------------
(***************************************************************************)
(* FollowsEvents of ModuleOrchestrator, for all modules, whatever they     *)
(* depend on, require and provide, and for behaviours of any length.       *)
(*                                                                         *)
(* In a calm site one task runs at a time and what is enabled changes only *)
(* between tasks.  The invariant says of each module that should run and   *)
(* does not what will still start it, and of each module that runs and     *)
(* lost its supply what will still stop it: an event, a coroutine wherever *)
(* on the stack it is, or the start of a module on which this one depends. *)
(***************************************************************************)
EXTENDS ModuleOrchestratorProofs

-----------------------------------------------------------------------------
(* The invariant.                                                          *)

\* The coroutines of a task, and of both.
Held(t)    == {stack[t][k] : k \in 1 .. Len(stack[t])}
Coroutines == UNION {Held(t) : t \in Tasks}

Enabling(d)  == [module |-> d, what |-> "enable"]
Disabling(d) == [module |-> d, what |-> "disable"]

\* An event is on its way that starts d, and none after it that stops it.
Coming(d) ==
    \E i \in 1 .. Len(events) :
        events[i] = Enabling(d) /\ \A j \in i + 1 .. Len(events) : events[j] # Disabling(d)

\* d runs, and no event is on its way that stops it.
Fine(d) == status[d] = "running" /\ ~Leaving(d)

\* d is about to be disabled.
Withdrawn(d) == pending # None /\ pending.module = d /\ ~pending.on

\* What is there to stay supplies d, and d should run.
FineModules == {n \in Modules : Fine(n)}
WellSupplied(d) == Requires[d] \subseteq UNION {Provides[n] : n \in FineModules}
Eager(d) ==
    /\ d \in enabled /\ Deps[d] \subseteq enabled
    /\ SuppliedWithin(d) /\ WellSupplied(d)

\* The coroutine f starts d, if nothing else does.
Promises(f, d) ==
    \/ f.op = "sync" /\ f.stage \in {"read", "decide"}
    \/ f.stage = "stops" /\ d \in f.mods
    \/ f.stage = "starts" /\ d \in f.todo
    \/ /\ f.op = "start" /\ f.module = d
       /\ f.stage \in {"read", "decide", "starting", "launch", "register"}
    \/ f.op = "restart" /\ f.module = d

\* What is on its way for d itself.
Own(d) == Coming(d) \/ \E f \in Coroutines : Promises(f, d)

\* A change of n is of interest to d.
Concerns(n, d) == n # d /\ (n \in Deps[d] \/ Requires[d] # {})

\* The coroutine f reviews d, or begins such a review.
Reviews(f, d) ==
    /\ f.op = "review"
    /\ \/ f.stage = "read" /\ Concerns(f.module, d)
       \/ f.stage \in {"decide", "loop"} /\ d \in f.todo
Tries(f, d) ==
    \/ Reviews(f, d) /\ f.try
    \/ /\ f.op = "start" /\ f.stage = "running" /\ f.module \notin Isolated
       /\ Concerns(f.module, d)

\* The coroutine f starts a module on which d depends, or is told it is blocked.
Moves(f, d) ==
    \/ Reviews(f, d)
    \/ /\ f.op = "start" /\ f.module \in Deps[d] \ {d}
       /\ f.stage \in {"read", "decide", "starting", "launch", "register", "blocked"}
ComesFor(d) == \E n \in Deps[d] \ {d} : ~Fine(n) /\ Coming(n)

\* What is on its way that starts d.
Cause(d) ==
    \/ Own(d)
    \/ \E f \in Coroutines : Tries(f, d)
    \/ status[d] = "blocked" /\ (ComesFor(d) \/ \E f \in Coroutines : Moves(f, d))

\* The coroutine f stops d, when it finds that nothing supplies it.
Sheds(f, d) ==
    \/ Reviews(f, d)
    \/ f.op = "stop" /\ f.module \notin Isolated /\ Concerns(f.module, d)

\* A module whose dependencies are not enabled is known to be blocked, one that
\* should run does, or something is on its way that will see to it.
Sought(d) ==
    d \in enabled /\ ~Withdrawn(d) =>
        /\ Leaving(d) => Coming(d)
        /\ ~(Deps[d] \subseteq enabled) => status[d] = "blocked" \/ Own(d)
        /\ Eager(d) => Fine(d) \/ Cause(d)

\* A module that nothing supplies is about to be stopped.
Shed(d) ==
    checks = 0 /\ Fine(d) /\ SuppliedWithin(d) /\ ~Supplied(d) =>
        \E f \in Coroutines : Sheds(f, d)

\* A module that is about to run is supplied.
Furnishes(t) ==
    stack[t] # <<>> /\ Top(t).stage \in {"starting", "launch", "register"}
        => Supplied(Top(t).module)
Furnished == checks = 0 => \A t \in Tasks : Furnishes(t)

\* A change that is about to enable a module has announced it.
Heralded == pending # None /\ pending.on => Coming(pending.module) \/ Fine(pending.module)

\* What a coroutine read of the database holds, and what it stops is not enabled.
Current(f) ==
    /\ f.stage \in {"loop", "stops"} => f.mods = enabled
    /\ f.stage = "stops" => f.todo \cap enabled = {}

Followed ==
    /\ \A d \in Modules : Sought(d)
    /\ \A d \in Modules : Shed(d)
    /\ Furnished
    /\ Heralded
    /\ \A f \in Coroutines : Current(f)

Following == calm => Followed

-----------------------------------------------------------------------------
(* The coroutines of a task that makes a step.                             *)

\* The task t is in the coroutines new, and no more in its innermost one.
Swaps(t, new) ==
    /\ \A f \in Coroutines : f = Top(t) \/ f \in Coroutines'
    /\ new \subseteq Coroutines'
    /\ Coroutines' \subseteq Coroutines \cup new
    /\ \A u \in Tasks \ {t} : stack'[u] = stack[u]

LEMMA HeldOthers ==
    ASSUME NEW t \in Tasks, \A u \in Tasks \ {t} : stack'[u] = stack[u],
           NEW new, new \subseteq Held(t)',
           \A f \in Held(t) : f = Top(t) \/ f \in Held(t)',
           Held(t)' \subseteq Held(t) \cup new
    PROVE  Swaps(t, new)
<1>1. \A u \in Tasks \ {t} : Held(u)' = Held(u)
  BY DEF Held
<1>2. Coroutines = UNION {Held(u) : u \in Tasks} /\ Coroutines' = UNION {Held(u)' : u \in Tasks}
  BY DEF Coroutines
<1> QED
  BY <1>1, <1>2 DEF Swaps

\* What a sequence holds, and what its tail does.
LEMMA HeadAndTail ==
    ASSUME NEW S, NEW s \in Seq(S), s # <<>>
    PROVE  {s[k] : k \in 1 .. Len(s)} = {Head(s)} \cup {Tail(s)[k] : k \in 1 .. Len(Tail(s))}
<1>1. /\ Head(s) = s[1] /\ Len(Tail(s)) = Len(s) - 1 /\ Len(s) \in Nat /\ Len(s) >= 1
      /\ \A k \in 1 .. Len(Tail(s)) : Tail(s)[k] = s[k + 1]
  BY HeadTailProperties, LenProperties, EmptySeq
<1>2. ASSUME NEW k \in 1 .. Len(s)
      PROVE  k = 1 \/ (k - 1 \in 1 .. Len(Tail(s)) /\ (k - 1) + 1 = k)
  BY <1>1, <1>2
<1>3. ASSUME NEW k \in 1 .. Len(s)
      PROVE  s[k] \in {Head(s)} \cup {Tail(s)[j] : j \in 1 .. Len(Tail(s))}
  BY <1>1, <1>2, <1>3
<1>4. ASSUME NEW k \in 1 .. Len(Tail(s))
      PROVE  k + 1 \in 1 .. Len(s)
  BY <1>1, <1>4
<1>5. 1 \in 1 .. Len(s)
  BY <1>1
<1> QED
  BY <1>1, <1>3, <1>4, <1>5

LEMMA BecomesSwaps ==
    ASSUME stack \in [Tasks -> Stacks], NEW t \in Tasks, stack[t] # <<>>,
           NEW f, Enters(t, f, Tail(stack[t]))
    PROVE  Swaps(t, {f})
<1>1. stack[t] \in Seq(Frames) /\ stack'[t] \in Seq(Frames) /\ stack'[t] # <<>>
  BY DEF Enters, Stacks
<1>2. Held(t) = {Top(t)} \cup {Tail(stack[t])[k] : k \in 1 .. Len(Tail(stack[t]))}
  BY <1>1, HeadAndTail DEF Held, Top
<1>3. Held(t)' = {Head(stack'[t])} \cup {Tail(stack'[t])[k] : k \in 1 .. Len(Tail(stack'[t]))}
  BY <1>1, HeadAndTail DEF Held
<1>4. Held(t)' = {f} \cup {Tail(stack[t])[k] : k \in 1 .. Len(Tail(stack[t]))}
  BY <1>3 DEF Enters
<1> QED
  BY <1>2, <1>4, HeldOthers DEF Enters

LEMMA CallsSwaps ==
    ASSUME stack \in [Tasks -> Stacks], NEW t \in Tasks, stack[t] # <<>>,
           NEW f \in Waiting, NEW g, Enters(t, g, <<f>> \o Tail(stack[t]))
    PROVE  Swaps(t, {f, g})
<1>1. stack[t] \in Seq(Frames) /\ stack'[t] \in Seq(Frames) /\ stack'[t] # <<>>
  BY DEF Enters, Stacks
<1>2. Held(t) = {Top(t)} \cup {Tail(stack[t])[k] : k \in 1 .. Len(Tail(stack[t]))}
  BY <1>1, HeadAndTail DEF Held, Top
<1>3. PICK s : s = <<f>> \o Tail(stack[t])
  OBVIOUS
<1>4. Held(t)' = {g} \cup {s[k] : k \in 1 .. Len(s)}
  <2>1. Held(t)' = {Head(stack'[t])} \cup {Tail(stack'[t])[k] : k \in 1 .. Len(Tail(stack'[t]))}
    BY <1>1, HeadAndTail DEF Held
  <2> QED
    BY <1>3, <2>1 DEF Enters
<1>5. s \in Seq(Waiting) /\ s # <<>> /\ Head(s) = f /\ Tail(s) = Tail(stack[t])
  <2>1. Tail(stack[t]) \in Seq(Waiting) /\ f \in Frames
    BY TopTyped, WaitingAreFrames
  <2>2. s \in Seq(Waiting)
    BY <1>3, <2>1, ConcatProperties
  <2> QED
    BY <1>3, <2>1, <2>2, PushTyped
<1>6. {s[k] : k \in 1 .. Len(s)} = {f} \cup {Tail(stack[t])[k] : k \in 1 .. Len(Tail(stack[t]))}
  <2>1. {s[k] : k \in 1 .. Len(s)} = {Head(s)} \cup {Tail(s)[k] : k \in 1 .. Len(Tail(s))}
    BY <1>5, HeadAndTail
  <2> QED
    BY ONLY <1>5, <2>1
<1>7. Held(t)' = {f, g} \cup {Tail(stack[t])[k] : k \in 1 .. Len(Tail(stack[t]))}
  BY <1>4, <1>6
<1> QED
  BY <1>2, <1>7, HeldOthers DEF Enters

LEMMA ReturnsSwaps ==
    ASSUME stack \in [Tasks -> Stacks], NEW t \in Tasks, stack[t] # <<>>, Leaves(t)
    PROVE  Swaps(t, {})
<1>1. stack[t] \in Seq(Frames)
  BY DEF Stacks
<1>2. Held(t) = {Top(t)} \cup {Tail(stack[t])[k] : k \in 1 .. Len(Tail(stack[t]))}
  BY <1>1, HeadAndTail DEF Held, Top
<1>3. Held(t)' = {Tail(stack[t])[k] : k \in 1 .. Len(Tail(stack[t]))}
  BY DEF Leaves, Held
<1> QED
  BY <1>2, <1>3, HeldOthers DEF Leaves

-----------------------------------------------------------------------------
(* What a step of a task carries over.                                     *)

\* The task t makes a step in a calm site.
Working(t) ==
    /\ OrchestratorInv /\ OrchestratorInv' /\ Followed
    /\ calm /\ calm' /\ Watched
    /\ stack[t] # <<>> /\ Steps

LEMMA WorkingFacts ==
    ASSUME NEW t \in Tasks, Working(t)
    PROVE  /\ stack \in [Tasks -> Stacks] /\ enabled \subseteq Modules
           /\ status \in [Modules -> States] /\ status' \in [Modules -> States]
           /\ Top(t) \in FrameType /\ Shaped(Top(t)) /\ Knows(Top(t)) /\ Current(Top(t))
           /\ \A u \in Tasks \ {t} : stack[u] = <<>>
           /\ pending = None /\ pending' = None /\ enabled' = enabled /\ checks' = checks
           /\ \A n : Leaving(n)' <=> Leaving(n)
           /\ \A n : Coming(n)' <=> Coming(n)
<1>1. Typed /\ Typed'
  BY DEF Working, OrchestratorInv
<1>2. stack \in [Tasks -> Stacks] /\ stack[t] # <<>>
  BY <1>1 DEF Working, Typed
<1>3. /\ pending' = pending /\ enabled' = enabled /\ checks' = checks /\ events' = events
  BY DEF Working, Steps, world, counts
<1>4. Knows(Top(t)) /\ pending = None /\ \A u \in Tasks \ {t} : stack[u] = <<>>
  BY CalmTop DEF Working
<1>5. Top(t) \in FrameType /\ Shaped(Top(t))
  BY <1>2, TopTyped DEF Top, Frames
<1>6. Current(Top(t))
  <2>1. stack[t] \in Seq(Frames)
    BY <1>2 DEF Stacks
  <2>2. Top(t) = stack[t][1] /\ 1 \in 1 .. Len(stack[t])
    BY <1>2, <2>1, HeadTailProperties, LenProperties, EmptySeq DEF Top
  <2>3. Top(t) \in Coroutines
    BY <2>2 DEF Coroutines, Held
  <2> QED
    BY <2>3 DEF Working, Followed
<1>7. /\ \A n : Leaving(n)' <=> Leaving(n)
      /\ \A n : Coming(n)' <=> Coming(n)
  BY <1>3 DEF Leaving, Coming, Enabling, Disabling
<1> QED
  BY <1>1, <1>2, <1>3, <1>4, <1>5, <1>6, <1>7 DEF Typed

\* Of a module that runs there is nothing to show but that it will be started again
\* if an event stops it.
LEMMA RunningSought ==
    ASSUME OrchestratorInv', calm', NEW d \in Modules, status'[d] = "running",
           d \in enabled' /\ ~Withdrawn(d)' /\ Leaving(d)' => Coming(d)'
    PROVE  Sought(d)'
<1>1. ~Leaving(d)' => d \in enabled' /\ Deps[d] \subseteq enabled'
  BY DEF OrchestratorInv, Good, Agrees
<1>2. Coming(d)' => Own(d)' /\ Cause(d)'
  BY DEF Own, Cause
<1>3. ~Leaving(d)' => Fine(d)'
  BY DEF Fine
<1> QED
  BY <1>1, <1>2, <1>3 DEF Sought

LEMMA SuppliesKept ==
    ASSUME NEW d \in Modules, \A n \in Modules : Fine(n)' => Fine(n), enabled' = enabled, Eager(d)'
    PROVE  Eager(d)
<1>1. \A n \in FineModules' : n \in FineModules
  BY DEF FineModules
<1>2. WellSupplied(d)' => WellSupplied(d)
  BY <1>1 DEF WellSupplied
<1> QED
  BY <1>2 DEF Eager, SuppliedWithin

\* What the innermost coroutine of t would do for d, the coroutines new will do.
Passes(t, new, d) ==
    /\ status'[d] = status[d] \/ status[d] \notin {"running", "blocked"}
    /\ Promises(Top(t), d) => \E g \in new : Promises(g, d)
    /\ Eager(d) /\ Tries(Top(t), d) => \E g \in new : Promises(g, d) \/ Tries(g, d)
    /\ Eager(d) /\ status[d] = "blocked" /\ Moves(Top(t), d) =>
           \E g \in new : Promises(g, d) \/ Tries(g, d) \/ Moves(g, d)

LEMMA SoughtCarried ==
    ASSUME NEW t \in Tasks, Working(t), NEW new, Swaps(t, new), NEW d \in enabled,
           Eager(d)' => Eager(d),
           \A n \in Deps[d] : Eager(d) /\ Fine(n)' => Fine(n),
           status'[d] # "running" => Passes(t, new, d)
    PROVE  Sought(d)'
<1>1. /\ d \in Modules /\ pending = None /\ pending' = None /\ enabled' = enabled
      /\ \A n : Leaving(n)' <=> Leaving(n)
      /\ \A n : Coming(n)' <=> Coming(n)
  BY WorkingFacts
<1>2. Sought(d) /\ ~Withdrawn(d)
  BY <1>1 DEF Working, Followed, Withdrawn
<1>3. Leaving(d)' => Coming(d)'
  BY <1>1, <1>2 DEF Sought
<1>4. CASE status'[d] = "running"
  BY <1>1, <1>3, <1>4, RunningSought DEF Working
<1>5. CASE status'[d] # "running"
  <2>1. Passes(t, new, d)
    BY <1>5
  <2>2. /\ \A f \in Coroutines : f = Top(t) \/ f \in Coroutines'
        /\ \A f \in new : f \in Coroutines'
    BY DEF Swaps
  <2>3. Own(d) => Own(d)'
    BY <1>1, <2>1, <2>2 DEF Own, Passes
  <2>4. \A f \in new : Promises(f, d) \/ Tries(f, d) => Cause(d)'
    BY <2>2 DEF Own, Cause
  <2>5. \A f \in new : status'[d] = "blocked" /\ Moves(f, d) => Cause(d)'
    BY <2>2 DEF Cause
  <2>6. ~(Deps[d] \subseteq enabled') => status'[d] = "blocked" \/ Own(d)'
    BY <1>1, <1>2, <2>1, <2>3 DEF Sought, Passes
  <2>7. ASSUME Eager(d)'
        PROVE  Cause(d)'
    <3>1. Eager(d)
      BY <2>7
    <3>2. Fine(d) \/ Cause(d)
      BY <1>1, <1>2, <3>1 DEF Sought
    <3>3. ~Fine(d)
      BY <1>5, <2>1 DEF Fine, Passes
    <3>4. CASE Own(d)
      BY <2>3, <3>4 DEF Cause
    <3>5. CASE \E f \in Coroutines : Tries(f, d)
      <4>1. PICK f \in Coroutines : Tries(f, d)
        BY <3>5
      <4>2. CASE f \in Coroutines'
        BY <4>1, <4>2 DEF Cause
      <4>3. CASE f = Top(t)
        BY <2>1, <2>4, <3>1, <4>1, <4>3 DEF Passes
      <4> QED
        BY <2>2, <4>2, <4>3
    <3>6. CASE status[d] = "blocked" /\ (ComesFor(d) \/ \E f \in Coroutines : Moves(f, d))
      <4>1. status'[d] = "blocked"
        BY <2>1, <3>6 DEF Passes
      <4>2. CASE ComesFor(d)
        <5>1. ComesFor(d)'
          BY <1>1, <3>1, <4>2 DEF ComesFor
        <5> QED
          BY <4>1, <5>1 DEF Cause
      <4>3. CASE \E f \in Coroutines : Moves(f, d)
        <5>1. PICK f \in Coroutines : Moves(f, d)
          BY <4>3
        <5>2. CASE f \in Coroutines'
          BY <4>1, <5>1, <5>2 DEF Cause
        <5>3. CASE f = Top(t)
          BY <2>1, <2>4, <2>5, <3>1, <3>6, <4>1, <5>1, <5>3 DEF Passes
        <5> QED
          BY <2>2, <5>2, <5>3
      <4> QED
        BY <3>6, <4>2, <4>3
    <3> QED
      BY <3>2, <3>3, <3>4, <3>5, <3>6 DEF Cause
  <2> QED
    BY <1>3, <2>6, <2>7 DEF Sought
<1> QED
  BY <1>4, <1>5

\* A module from which its supply is taken away is about to be looked at.
LEMMA ShedCarried ==
    ASSUME NEW t \in Tasks, Working(t), NEW new, Swaps(t, new), NEW d \in Modules,
           Fine(d)' => Fine(d),
           \A n \in Modules : status[n] = "running" =>
               status'[n] = "running" \/ n \in Isolated \/ StopOf(n) \in Coroutines',
           checks = 0 /\ Fine(d) /\ Fine(d)' /\ ~Supplied(d) /\ Sheds(Top(t), d)
               => \E f \in new : Sheds(f, d)
    PROVE  Shed(d)'
<1> SUFFICES ASSUME checks' = 0, Fine(d)', SuppliedWithin(d)', ~Supplied(d)'
             PROVE  \E f \in Coroutines' : Sheds(f, d)
  BY DEF Shed
<1>1. checks = 0 /\ Fine(d) /\ SuppliedWithin(d) /\ status'[d] = "running"
  BY WorkingFacts DEF SuppliedWithin, Fine
<1>2. CASE ~Supplied(d)
  <2>1. PICK f \in Coroutines : Sheds(f, d)
    BY <1>1, <1>2 DEF Working, Followed, Shed
  <2>2. CASE f = Top(t)
    <3>1. PICK g \in new : Sheds(g, d)
      BY <1>1, <1>2, <2>1, <2>2
    <3> QED
      BY <3>1 DEF Swaps
  <2> QED
    BY <2>1, <2>2 DEF Swaps
<1>3. CASE Supplied(d)
  <2>1. PICK c \in Requires[d] : c \notin UNION {Provides[n] : n \in Running'}
    BY DEF Supplied
  <2>2. PICK n \in Running : c \in Provides[n]
    BY <1>3, <2>1 DEF Supplied
  <2>3. n \in Modules /\ status[n] = "running" /\ status'[n] # "running"
    BY <2>1, <2>2 DEF Running
  <2>4. n \notin Isolated
    BY <1>1, <2>1, <2>2 DEF SuppliedWithin
  <2>5. StopOf(n) \in Coroutines'
    BY <2>3, <2>4
  <2>6. StopOf(n).op = "stop" /\ StopOf(n).module = n
    BY DEF StopOf, Frame
  <2>7. Concerns(n, d)
    BY <1>1, <2>1, <2>3 DEF Concerns
  <2> QED
    BY <2>4, <2>5, <2>6, <2>7 DEF Sheds
<1> QED
  BY <1>2, <1>3

\* What else there is to show of a step of t.
LEMMA PartsFollowed ==
    ASSUME NEW t \in Tasks, Working(t), NEW new, Swaps(t, new),
           \A d \in enabled : Sought(d)',
           \A d \in Modules : Shed(d)',
           checks = 0 => Furnishes(t)',
           \A f \in new : Current(f)
    PROVE  Followed'
<1>1. /\ pending' = None /\ enabled' = enabled /\ checks' = checks
      /\ \A u \in Tasks \ {t} : stack[u] = <<>>
  BY WorkingFacts
<1>2. \A d \in Modules : Sought(d)'
  BY <1>1 DEF Sought
<1>3. Furnished'
  <2>1. \A u \in Tasks \ {t} : stack'[u] = <<>>
    BY <1>1 DEF Swaps
  <2> QED
    BY <1>1, <2>1 DEF Furnished, Furnishes
<1>4. Heralded'
  BY <1>1 DEF Heralded
<1>5. \A f \in Coroutines' : Current(f)'
  <2>1. \A f \in Coroutines' : Current(f)
    BY DEF Swaps, Working, Followed
  <2> QED
    BY <1>1, <2>1 DEF Current
<1> QED
  BY <1>2, <1>3, <1>4, <1>5 DEF Followed

\* A step of t after which no more modules run than before.
LEMMA StepFollowed ==
    ASSUME NEW t \in Tasks, Working(t), NEW new, Swaps(t, new),
           \A n \in Modules : status'[n] = "running" => status[n] = "running",
           \A n \in Modules : status[n] = "running" =>
               status'[n] = "running" \/ n \in Isolated \/ StopOf(n) \in Coroutines',
           \A d \in enabled : status'[d] # "running" => Sought(d)' \/ Passes(t, new, d),
           \A d \in Modules : checks = 0 /\ Fine(d) /\ Fine(d)' /\ ~Supplied(d) /\ Sheds(Top(t), d)
               => \E f \in new : Sheds(f, d),
           checks = 0 => Furnishes(t)',
           \A f \in new : Current(f)
    PROVE  Followed'
<1>1. enabled' = enabled /\ enabled \subseteq Modules /\ \A n : Leaving(n)' <=> Leaving(n)
  BY WorkingFacts
<1>2. \A n \in Modules : Fine(n)' => Fine(n)
  BY <1>1 DEF Fine
<1>3. ASSUME NEW d \in enabled
      PROVE  Sought(d)'
  <2>1. Eager(d)' => Eager(d)
    BY <1>1, <1>2, SuppliesKept
  <2>2. \A n \in Deps[d] : Eager(d) /\ Fine(n)' => Fine(n)
    BY <1>1, <1>2, OrchestratorAssumption
  <2>3. Sought(d)' \/ (status'[d] # "running" => Passes(t, new, d))
    OBVIOUS
  <2> QED
    BY <2>1, <2>2, <2>3, SoughtCarried
<1>4. \A d \in Modules : Shed(d)'
  BY <1>2, ShedCarried
<1> QED
  BY <1>3, <1>4, PartsFollowed

\* The coroutines of a task after a step.
LEMMA Becoming ==
    ASSUME NEW t \in Tasks, Working(t), NEW f \in Frames, Becomes(t, f)
    PROVE  Swaps(t, {f}) /\ stack'[t] # <<>> /\ Top(t)' = f
<1>1. Enters(t, f, Tail(stack[t]))
  BY WorkingFacts, BecomesEnters DEF Working
<1> QED
  BY <1>1, WorkingFacts, BecomesSwaps DEF Working, Enters, Top

LEMMA Calling ==
    ASSUME NEW t \in Tasks, Working(t), NEW f \in Waiting, NEW g \in Frames, Calls(t, f, g)
    PROVE  Swaps(t, {f, g}) /\ stack'[t] # <<>> /\ Top(t)' = g
<1>1. Enters(t, g, <<f>> \o Tail(stack[t]))
  BY WorkingFacts, CallsEnters DEF Working
<1> QED
  BY <1>1, WorkingFacts, CallsSwaps DEF Working, Enters, Top

\* The same of a step that marks no module.
LEMMA ReturnsFollowed ==
    ASSUME NEW t \in Tasks, Working(t), Returns(t), status' = status,
           \A d \in enabled : status[d] # "running" => Passes(t, {}, d),
           \A d \in Modules : checks = 0 /\ Fine(d) /\ ~Supplied(d) => ~Sheds(Top(t), d)
    PROVE  Followed'
<1>1. Leaves(t)
  BY WorkingFacts, ReturnsLeaves DEF Working
<1>2. Swaps(t, {})
  BY <1>1, WorkingFacts, ReturnsSwaps DEF Working
<1>3. Furnishes(t)'
  <2>1. stack'[t] # <<>> => Head(stack'[t]).stage \in Resumes
    BY <1>1 DEF Leaves, Waiting
  <2> QED
    BY <2>1 DEF Furnishes, Top, Resumes
<1> QED
  BY <1>2, <1>3, StepFollowed

LEMMA BecomesFollowed ==
    ASSUME NEW t \in Tasks, Working(t), NEW f \in Frames, Becomes(t, f), status' = status,
           \A d \in enabled : status[d] # "running" => Passes(t, {f}, d),
           \A d \in Modules : checks = 0 /\ Fine(d) /\ ~Supplied(d) /\ Sheds(Top(t), d) => Sheds(f, d),
           checks = 0 /\ f.stage \in {"starting", "launch", "register"} => Supplied(f.module),
           Current(f)
    PROVE  Followed'
<1>1. Swaps(t, {f}) /\ Top(t)' = f
  BY Becoming
<1>2. checks = 0 => Furnishes(t)'
  <2>1. Running' = Running
    BY DEF Running
  <2> QED
    BY <1>1, <2>1 DEF Furnishes, Supplied
<1> QED
  BY <1>1, <1>2, StepFollowed

LEMMA CallsFollowed ==
    ASSUME NEW t \in Tasks, Working(t), NEW f \in Waiting, NEW g \in Frames, Calls(t, f, g),
           status' = status,
           \A d \in enabled : status[d] # "running" => Passes(t, {f, g}, d),
           \A d \in Modules : checks = 0 /\ Fine(d) /\ ~Supplied(d) /\ Sheds(Top(t), d)
               => Sheds(f, d) \/ Sheds(g, d),
           g.stage \notin {"starting", "launch", "register"},
           Current(f), Current(g)
    PROVE  Followed'
<1>1. Swaps(t, {f, g}) /\ Top(t)' = g
  BY Calling
<1>2. Furnishes(t)'
  BY <1>1 DEF Furnishes
<1> QED
  BY <1>1, <1>2, StepFollowed

-----------------------------------------------------------------------------
(* The steps of a task, one lemma each.                                    *)

\* The awaits after which a coroutine does nothing for another module.
LEMMA Spent ==
    ASSUME NEW f \in FrameType, Shaped(f), NEW d,
           f.stage \in {"refused", "launchBlocked", "reviewed", "failed", "mark", "check",
                        "stopping", "halt", "stopped"}
    PROVE  /\ ~Promises(f, d) /\ ~Tries(f, d) /\ ~Moves(f, d)
           /\ f.stage \notin {"stopping", "halt", "stopped"} => ~Sheds(f, d)
BY DEF Promises, Tries, Moves, Sheds, Reviews, Shaped, StartStages, StopStages

LEMMA EndsFollowed ==
    ASSUME NEW t \in Tasks, Working(t), Returns(t), status' = status,
           Top(t).stage \in {"refused", "launchBlocked", "reviewed", "failed", "mark", "check"}
    PROVE  Followed'
<1>1. Top(t) \in FrameType /\ Shaped(Top(t))
  BY WorkingFacts
<1>2. \A d : /\ ~Promises(Top(t), d) /\ ~Tries(Top(t), d) /\ ~Moves(Top(t), d)
             /\ ~Sheds(Top(t), d)
  BY <1>1, Spent
<1> QED
  BY <1>2, ReturnsFollowed DEF Passes

\* A coroutine at an await is the innermost one.
LEMMA AtStage ==
    ASSUME NEW t, NEW stage, At(t, stage)
    PROVE  stack[t] # <<>> /\ Top(t).stage = stage
BY DEF At

LEMMA RefusedFollowed ==
    ASSUME NEW t \in Tasks, Working(t), Refused(t)
    PROVE  Followed'
BY EndsFollowed, AtStage DEF Refused

LEMMA LaunchBlockedFollowed ==
    ASSUME NEW t \in Tasks, Working(t), LaunchBlocked(t)
    PROVE  Followed'
BY EndsFollowed, AtStage DEF LaunchBlocked

LEMMA ReviewedFollowed ==
    ASSUME NEW t \in Tasks, Working(t), Reviewed(t)
    PROVE  Followed'
BY EndsFollowed, AtStage DEF Reviewed, site

LEMMA FailedFollowed ==
    ASSUME NEW t \in Tasks, Working(t), Failed(t)
    PROVE  Followed'
BY EndsFollowed, AtStage DEF Failed

LEMMA MarkedFollowed ==
    ASSUME NEW t \in Tasks, Working(t), Marked(t)
    PROVE  Followed'
BY EndsFollowed, AtStage DEF Marked

LEMMA EndCheckFollowed ==
    ASSUME NEW t \in Tasks, Working(t), EndCheck(t)
    PROVE  Followed'
BY EndsFollowed, AtStage DEF EndCheck

\* What there is to know of the modules while a task is at a quiet await.
LEMMA WorkingModules ==
    ASSUME NEW t \in Tasks, Working(t), NEW d \in Modules
    PROVE  /\ Fine(d) => d \in enabled /\ Deps[d] \subseteq enabled
           /\ Top(t).stage \in Quiet => status[d] # "starting"
           /\ d \in enabled /\ Leaving(d) => Coming(d)
<1>1. Attended(d) /\ Agrees(d) /\ faults = 0
  BY DEF Working, OrchestratorInv, Good
<1>2. \A stages : Doing(d, stages) => Top(t).stage \in stages
  BY CalmTop DEF Working
<1>3. Top(t).stage \in Quiet => status[d] # "starting"
  BY <1>1, <1>2 DEF Attended, Quiet
<1>4. d \in enabled /\ Leaving(d) => Coming(d)
  <2>1. Sought(d) /\ pending = None
    BY WorkingFacts DEF Working, Followed
  <2> QED
    BY <2>1 DEF Sought, Withdrawn
<1> QED
  BY <1>1, <1>3, <1>4 DEF Fine, Agrees

LEMMA StartPromises ==
    ASSUME NEW m
    PROVE  /\ StartOf(m).op = "start" /\ StartOf(m).stage = "read" /\ StartOf(m).module = m
           /\ Promises(StartOf(m), m)
           /\ Current(StartOf(m))
<1>1. StartOf(m).op = "start" /\ StartOf(m).stage = "read" /\ StartOf(m).module = m
  BY DEF StartOf, Frame
<1> QED
  BY <1>1 DEF Promises, Current

LEMMA StopSheds ==
    ASSUME NEW m
    PROVE  StopOf(m).op = "stop" /\ StopOf(m).stage = "stopping" /\ StopOf(m).module = m
           /\ Current(StopOf(m))
<1>1. StopOf(m).op = "stop" /\ StopOf(m).stage = "stopping" /\ StopOf(m).module = m
  BY DEF StopOf, Frame
<1> QED
  BY <1>1 DEF Current

LEMMA ReviewReviews ==
    ASSUME NEW m, NEW try
    PROVE  /\ ReviewOf(m, try).stage = "read" /\ ReviewOf(m, try).try = try
           /\ Current(ReviewOf(m, try))
           /\ \A d : Concerns(m, d) => Reviews(ReviewOf(m, try), d)
<1>1. /\ ReviewOf(m, try).op = "review" /\ ReviewOf(m, try).stage = "read"
      /\ ReviewOf(m, try).module = m /\ ReviewOf(m, try).try = try
  BY DEF ReviewOf, Frame
<1> QED
  BY <1>1 DEF Reviews, Current

LEMMA ReadEnabledFollowed ==
    ASSUME NEW t \in Tasks, Working(t), ReadEnabled(t)
    PROVE  Followed'
<1>1. PICK f \in FrameType : f = Top(t) /\ Shaped(f) /\ f.stage = "read"
  BY WorkingFacts, AtStage DEF ReadEnabled
<1>2. enabled \subseteq Modules
  BY WorkingFacts
<1>3. PICK g : g = [f EXCEPT !.stage = "decide", !.mods = enabled,
                             !.todo = IF f.op = "review" THEN Affected(f.module, enabled) ELSE {}]
  OBVIOUS
<1>4. Affected(f.module, enabled) \subseteq Modules
  BY <1>2 DEF Affected
<1>5. /\ g \in FrameType /\ g.stage = "decide" /\ g.op = f.op /\ g.module = f.module
      /\ g.try = f.try /\ (f.op = "review" => g.todo = Affected(f.module, enabled))
  BY <1>2, <1>3, <1>4 DEF FrameType, Stages
<1>6. g \in Frames
  BY <1>1, <1>5 DEF Shaped, Frames, StartStages, StopStages
<1>7. Becomes(t, g) /\ status' = status
  BY <1>1, <1>3 DEF ReadEnabled, site
<1>8. ASSUME NEW d \in enabled
      PROVE  /\ Promises(f, d) => Promises(g, d)
             /\ Reviews(f, d) => Reviews(g, d)
  <2>1. Promises(f, d) => Promises(g, d)
    BY <1>1, <1>5 DEF Promises, Shaped
  <2>2. Concerns(f.module, d) => d \in Affected(f.module, enabled)
    BY DEF Concerns, Affected
  <2>3. Reviews(f, d) => Reviews(g, d)
    BY <1>1, <1>5, <2>2 DEF Reviews
  <2> QED
    BY <2>1, <2>3
<1>9. ASSUME NEW d \in enabled
      PROVE  Passes(t, {g}, d)
  <2>1. Tries(f, d) => Tries(g, d)
    BY <1>1, <1>5, <1>8, <1>9 DEF Tries
  <2>2. Moves(f, d) => Moves(g, d)
    BY <1>1, <1>5, <1>8, <1>9 DEF Moves
  <2> QED
    BY <1>1, <1>7, <1>8, <1>9, <2>1, <2>2 DEF Passes
<1>10. ASSUME NEW d \in Modules, Fine(d), Sheds(Top(t), d)
       PROVE  Sheds(g, d)
  <2>1. d \in enabled
    BY <1>10, WorkingModules
  <2>2. Reviews(f, d)
    BY <1>1, <1>10 DEF Sheds, Shaped
  <2> QED
    BY <1>8, <2>1, <2>2 DEF Sheds
<1>11. Current(g)
  BY <1>5 DEF Current
<1> QED
  BY <1>5, <1>6, <1>7, <1>9, <1>10, <1>11, BecomesFollowed

\* Where a module changed, the review of its dependents goes on with what concerns them.
LEMMA ReviewsFollowed ==
    ASSUME NEW t \in Tasks, Working(t), NEW m \in Modules, m = Top(t).module, status' = status,
           Top(t).stage \in {"blocked", "stopped"}, Becomes(t, ReviewOf(m, FALSE))
    PROVE  Followed'
<1>1. PICK f \in FrameType : f = Top(t) /\ Shaped(f)
  BY WorkingFacts
<1>2. PICK g \in Frames : g = ReviewOf(m, FALSE)
  BY NewFramesTyped
<1>3. /\ g.stage = "read" /\ Current(g)
      /\ \A d : Concerns(m, d) => Reviews(g, d)
  BY <1>2, ReviewReviews
<1>4. ASSUME NEW d \in Modules
      PROVE  /\ ~Promises(f, d) /\ ~Tries(f, d)
             /\ Moves(f, d) => Reviews(g, d)
             /\ Sheds(f, d) => Reviews(g, d)
  <2>1. ~Promises(f, d) /\ ~Tries(f, d)
    BY <1>1 DEF Promises, Tries, Reviews, Shaped, StartStages, StopStages
  <2>2. Moves(f, d) => Concerns(m, d)
    BY <1>1 DEF Moves, Concerns, Reviews, Shaped, StartStages, StopStages
  <2>3. Sheds(f, d) => Concerns(m, d)
    BY <1>1 DEF Sheds, Reviews, Shaped, StartStages, StopStages
  <2> QED
    BY <1>3, <2>1, <2>2, <2>3
<1>5. \A d \in enabled : Passes(t, {g}, d)
  BY <1>1, <1>4, WorkingFacts DEF Passes, Moves
<1>6. \A d \in Modules : Sheds(Top(t), d) => Sheds(g, d)
  BY <1>1, <1>4 DEF Sheds
<1> QED
  BY <1>2, <1>3, <1>5, <1>6, BecomesFollowed

LEMMA BlockedFollowed ==
    ASSUME NEW t \in Tasks, Working(t), Blocked(t)
    PROVE  Followed'
<1>1. Top(t).stage = "blocked" /\ Shaped(Top(t))
  BY WorkingFacts, AtStage DEF Blocked
<1>2. Top(t).module \in Modules
  BY <1>1 DEF Shaped, StartStages
<1> QED
  BY <1>1, <1>2, ReviewsFollowed DEF Blocked

LEMMA StoppedFollowed ==
    ASSUME NEW t \in Tasks, Working(t), Stopped(t)
    PROVE  Followed'
<1>1. PICK f \in FrameType : f = Top(t) /\ Shaped(f) /\ f.stage = "stopped"
  BY WorkingFacts, AtStage DEF Stopped
<1>2. f.module \in Modules /\ f.op = "stop" /\ status' = status
  BY <1>1 DEF Stopped, Shaped, StopStages
<1>3. CASE f.module \in Isolated
  <2>1. Returns(t)
    BY <1>1, <1>3 DEF Stopped
  <2>2. \A d : ~Promises(f, d) /\ ~Tries(f, d) /\ ~Moves(f, d)
    BY <1>1, Spent
  <2>3. \A d : ~Sheds(f, d)
    BY <1>2, <1>3 DEF Sheds, Reviews
  <2> QED
    BY <1>1, <1>2, <2>1, <2>2, <2>3, ReturnsFollowed DEF Passes
<1>4. CASE f.module \notin Isolated
  <2>1. Becomes(t, ReviewOf(f.module, FALSE))
    BY <1>1, <1>4 DEF Stopped
  <2> QED
    BY <1>1, <1>2, <2>1, ReviewsFollowed
<1> QED
  BY <1>3, <1>4

\* A start or a stop at another of its awaits.
LEMMA GoesFrame ==
    ASSUME NEW t \in Tasks, Working(t), NEW stage \in StartStages \cup StopStages, Goes(t, stage),
           stage \in StartStages => Top(t).op = "start",
           stage \in StopStages => Top(t).op = "stop"
    PROVE  \E g \in Frames : /\ Becomes(t, g)
                             /\ g.op = Top(t).op /\ g.module = Top(t).module /\ g.stage = stage
                             /\ Current(g)
<1>1. PICK f \in FrameType : f = Top(t) /\ Shaped(f)
  BY WorkingFacts
<1>2. PICK g : g = [f EXCEPT !.stage = stage, !.mods = {}]
  OBVIOUS
<1>3. g \in FrameType /\ g.op = f.op /\ g.module = f.module /\ g.stage = stage
  BY <1>2 DEF FrameType, Stages
<1>4. Shaped(g)
  BY <1>1, <1>3 DEF Shaped, StartStages, StopStages
<1>5. Becomes(t, g)
  BY <1>1, <1>2 DEF Goes
<1>6. Current(g)
  BY <1>3 DEF Current, StartStages, StopStages
<1> QED
  BY <1>1, <1>3, <1>4, <1>5, <1>6 DEF Frames

LEMMA StartingFollowed ==
    ASSUME NEW t \in Tasks, Working(t), Starting(t)
    PROVE  Followed'
<1>1. PICK f \in FrameType : f = Top(t) /\ Shaped(f) /\ f.stage = "starting"
  BY WorkingFacts, AtStage DEF Starting
<1>2. PICK stage \in {"launch", "register"} : Goes(t, stage) /\ status' = status
  BY DEF Starting
<1>3. f.op = "start" /\ stage \in StartStages /\ stage \notin StopStages
  BY <1>1 DEF Shaped, StartStages, StopStages
<1>4. PICK g \in Frames : /\ Becomes(t, g) /\ Current(g)
                          /\ g.op = "start" /\ g.module = f.module /\ g.stage = stage
  BY <1>1, <1>2, <1>3, GoesFrame
<1>5. ASSUME NEW d \in Modules
      PROVE  /\ Promises(f, d) => Promises(g, d)
             /\ ~Tries(f, d) /\ ~Sheds(f, d)
             /\ Moves(f, d) => Moves(g, d)
  BY <1>1, <1>3, <1>4 DEF Promises, Tries, Sheds, Moves, Reviews
<1>6. \A d \in enabled : Passes(t, {g}, d)
  BY <1>1, <1>2, <1>5, WorkingFacts DEF Passes
<1>7. checks = 0 => Supplied(g.module)
  BY <1>1, <1>4 DEF Working, Followed, Furnished, Furnishes
<1> QED
  BY <1>1, <1>2, <1>4, <1>5, <1>6, <1>7, BecomesFollowed

LEMMA StartedFollowed ==
    ASSUME NEW t \in Tasks, Working(t), Started(t)
    PROVE  Followed'
<1>1. PICK f \in FrameType : f = Top(t) /\ Shaped(f) /\ f.stage = "running"
  BY WorkingFacts, AtStage DEF Started
<1>2. f.op = "start" /\ f.module \in Modules /\ status' = status
  BY <1>1 DEF Started, Shaped, StartStages
<1>3. \A d : ~Promises(f, d) /\ ~Moves(f, d) /\ ~Sheds(f, d)
  BY <1>1, <1>2 DEF Promises, Moves, Sheds, Reviews
<1>4. CASE f.module \in Isolated
  <2>1. Returns(t)
    BY <1>1, <1>4 DEF Started
  <2>2. \A d : ~Tries(f, d)
    BY <1>2, <1>4 DEF Tries, Reviews
  <2> QED
    BY <1>1, <1>2, <1>3, <2>1, <2>2, ReturnsFollowed DEF Passes
<1>5. CASE f.module \notin Isolated
  <2>1. PICK h \in Waiting : h = [f EXCEPT !.stage = "reviewed"] /\ h.stage = "reviewed"
    BY <1>1, <1>2, StageTyped DEF FrameType
  <2>2. PICK g \in Frames : g = ReviewOf(f.module, TRUE)
    BY <1>2, NewFramesTyped
  <2>3. Calls(t, h, g)
    BY <1>1, <1>5, <2>1, <2>2 DEF Started
  <2>4. /\ g.stage = "read" /\ g.try /\ Current(g) /\ Current(h)
        /\ \A d : Concerns(f.module, d) => Reviews(g, d)
    BY <2>1, <2>2, ReviewReviews DEF Current
  <2>5. \A d : Tries(f, d) => Tries(g, d)
    BY <1>2, <2>4 DEF Tries, Reviews
  <2>6. \A d \in enabled : Passes(t, {h, g}, d)
    BY <1>1, <1>2, <1>3, <2>5 DEF Passes
  <2> QED
    BY <1>1, <1>2, <1>3, <2>3, <2>4, <2>6, CallsFollowed
<1> QED
  BY <1>4, <1>5

LEMMA RestartFollowed ==
    ASSUME NEW t \in Tasks, Working(t), Restart(t)
    PROVE  Followed'
<1>1. PICK f \in FrameType : f = Top(t) /\ Shaped(f) /\ f.stage = "start"
  BY WorkingFacts, AtStage DEF Restart
<1>2. f.op = "restart" /\ f.module \in Modules /\ status' = status
  BY <1>1 DEF Restart, Shaped, site
<1>3. \A d : /\ ~Tries(f, d) /\ ~Moves(f, d) /\ ~Sheds(f, d)
             /\ Promises(f, d) => d = f.module
  BY <1>1, <1>2 DEF Promises, Tries, Moves, Sheds, Reviews
<1>4. CASE Startable(f.module)
  <2>1. PICK g \in Frames : g = StartOf(f.module)
    BY <1>2, NewFramesTyped
  <2>2. Becomes(t, g)
    BY <1>1, <1>4, <2>1 DEF Restart
  <2>3. g.stage = "read" /\ Promises(g, f.module) /\ Current(g)
    BY <2>1, StartPromises
  <2>4. \A d \in enabled : Passes(t, {g}, d)
    BY <1>1, <1>2, <1>3, <2>3 DEF Passes
  <2> QED
    BY <1>1, <1>2, <1>3, <2>2, <2>3, <2>4, BecomesFollowed
<1>5. CASE ~Startable(f.module)
  <2>1. Returns(t)
    BY <1>1, <1>5 DEF Restart
  <2>2. status[f.module] = "running"
    BY <1>1, <1>2, <1>5, WorkingModules DEF Startable, Quiet
  <2>3. \A d \in enabled : status[d] # "running" => Passes(t, {}, d)
    BY <1>1, <1>2, <1>3, <2>2 DEF Passes
  <2> QED
    BY <1>1, <1>2, <1>3, <2>1, <2>3, ReturnsFollowed
<1> QED
  BY <1>4, <1>5

LEMMA DecideSyncFollowed ==
    ASSUME NEW t \in Tasks, Working(t), DecideSync(t)
    PROVE  Followed'
<1>1. PICK f \in FrameType : f = Top(t) /\ Shaped(f) /\ f.stage = "decide" /\ f.op = "sync"
  BY WorkingFacts, AtStage DEF DecideSync
<1>2. f.mods = enabled /\ enabled \subseteq Modules
  BY <1>1, WorkingFacts DEF Knows
<1>3. PICK g : g = [f EXCEPT !.stage = "stops", !.todo = Running \ f.mods]
  OBVIOUS
<1>4. /\ g \in FrameType /\ g.stage = "stops" /\ g.op = "sync"
      /\ g.mods = enabled /\ g.todo = Running \ enabled
  BY <1>1, <1>2, <1>3 DEF FrameType, Stages, Running
<1>5. g \in Frames
  BY <1>4 DEF Frames, Shaped, StartStages, StopStages
<1>6. Becomes(t, g) /\ status' = status
  BY <1>1, <1>3 DEF DecideSync, site
<1>7. Current(g)
  BY <1>4 DEF Current
<1>8. \A d \in enabled : Passes(t, {g}, d)
  <2>1. \A d \in enabled : Promises(g, d)
    BY <1>4 DEF Promises
  <2> QED
    BY <1>6, <2>1 DEF Passes
<1>9. \A d : ~Sheds(Top(t), d)
  BY <1>1 DEF Sheds, Reviews
<1> QED
  BY <1>4, <1>5, <1>6, <1>7, <1>8, <1>9, BecomesFollowed

\* A loop of the reconciliation that has acted on one of its modules.
LEMMA TodoTyped ==
    ASSUME NEW f \in FrameType, f.op = "sync", f.stage \in {"stops", "starts"},
           NEW todo \in SUBSET Modules
    PROVE  \E h \in Waiting : /\ h = [f EXCEPT !.todo = todo]
                              /\ h.op = "sync" /\ h.stage = f.stage /\ h.mods = f.mods /\ h.todo = todo
<1>1. [f EXCEPT !.stage = f.stage, !.todo = todo] \in Waiting
  BY LoopTyped
<1>2. [f EXCEPT !.stage = f.stage, !.todo = todo] = [f EXCEPT !.todo = todo]
  BY DEF FrameType
<1>3. PICK h \in Waiting : h = [f EXCEPT !.todo = todo]
  BY <1>1, <1>2
<1>4. h.op = "sync" /\ h.stage = f.stage /\ h.mods = f.mods /\ h.todo = todo
  BY <1>3 DEF FrameType
<1> QED
  BY <1>3, <1>4

LEMMA SyncStartsFollowed ==
    ASSUME NEW t \in Tasks, Working(t), SyncStarts(t)
    PROVE  Followed'
<1>1. PICK f \in FrameType : f = Top(t) /\ Shaped(f) /\ f.stage = "starts"
  BY WorkingFacts, AtStage DEF SyncStarts
<1>2. f.op = "sync" /\ f.todo \subseteq Modules /\ status' = status
  BY <1>1 DEF Shaped, SyncStarts, site, FrameType
<1>3. \A d : /\ ~Tries(f, d) /\ ~Moves(f, d) /\ ~Sheds(f, d)
             /\ Promises(f, d) => d \in f.todo
  BY <1>1, <1>2 DEF Promises, Tries, Moves, Sheds, Reviews
<1>4. \A d \in enabled : status[d] # "running" => Startable(d)
  BY <1>1, WorkingModules, WorkingFacts DEF Startable, Quiet
<1>5. \/ {m \in f.todo : Startable(m)} = {} /\ Returns(t)
      \/ \E m \in f.todo, passed \in SUBSET (f.todo \ {n \in f.todo : Startable(n)}) :
            Calls(t, [f EXCEPT !.todo = f.todo \ (passed \cup {m})], StartOf(m))
  BY <1>1 DEF SyncStarts
<1>6. CASE {m \in f.todo : Startable(m)} = {} /\ Returns(t)
  <2>1. \A d \in enabled : status[d] # "running" => Passes(t, {}, d)
    BY <1>1, <1>2, <1>3, <1>4, <1>6 DEF Passes
  <2> QED
    BY <1>1, <1>2, <1>3, <1>6, <2>1, ReturnsFollowed
<1>7. CASE \E m \in f.todo, passed \in SUBSET (f.todo \ {n \in f.todo : Startable(n)}) :
              Calls(t, [f EXCEPT !.todo = f.todo \ (passed \cup {m})], StartOf(m))
  <2>1. PICK m, passed : /\ m \in f.todo /\ passed \subseteq f.todo \ {n \in f.todo : Startable(n)}
                         /\ Calls(t, [f EXCEPT !.todo = f.todo \ (passed \cup {m})], StartOf(m))
    BY <1>7
  <2>2. PICK h \in Waiting : /\ h = [f EXCEPT !.todo = f.todo \ (passed \cup {m})]
                             /\ h.op = "sync" /\ h.stage = "starts"
                             /\ h.todo = f.todo \ (passed \cup {m})
    <3>1. PICK todo \in SUBSET Modules : todo = f.todo \ (passed \cup {m})
      BY <1>2
    <3>2. \E h \in Waiting : /\ h = [f EXCEPT !.todo = todo]
                             /\ h.op = "sync" /\ h.stage = f.stage /\ h.mods = f.mods
                             /\ h.todo = todo
      BY <1>1, <1>2, TodoTyped
    <3> QED
      BY <1>1, <1>2, <3>1, <3>2
  <2>3. PICK g \in Frames : g = StartOf(m)
    BY <1>2, <2>1, NewFramesTyped
  <2>4. /\ Calls(t, h, g) /\ g.stage = "read" /\ Promises(g, m) /\ Current(g)
        /\ Current(h)
    BY <2>1, <2>2, <2>3, StartPromises DEF Current
  <2>5. ASSUME NEW d \in enabled, status[d] # "running"
        PROVE  Passes(t, {h, g}, d)
    <3>1. d \in f.todo => d \in h.todo \/ d = m
      BY <1>4, <2>1, <2>2, <2>5
    <3>2. d \in h.todo => Promises(h, d)
      BY <2>2 DEF Promises
    <3> QED
      BY <1>1, <1>2, <1>3, <2>4, <3>1, <3>2 DEF Passes
  <2> QED
    BY <1>1, <1>2, <1>3, <2>4, <2>5, CallsFollowed
<1> QED
  BY <1>5, <1>6, <1>7

\* A call that stops a module, or marks one that does not run.
LEMMA ReactsFollowed ==
    ASSUME NEW t \in Tasks, Working(t), NEW f \in Waiting, NEW g \in Frames, Calls(t, f, g),
           NEW m \in Modules, NEW state \in States, Marks(m, state), state # "running",
           g = StopOf(m) \/ status[m] # "running",
           g.stage \notin {"starting", "launch", "register"},
           \A d \in enabled \ {m} : status[d] # "running" => Passes(t, {f, g}, d),
           m \in enabled => Sought(m)',
           \A d \in Modules : checks = 0 /\ Fine(d) /\ d # m /\ ~Supplied(d) /\ Sheds(Top(t), d)
               => Sheds(f, d),
           Current(f), Current(g)
    PROVE  Followed'
<1>1. status' \in [Modules -> States] /\ status'[m] = state
      /\ \A n \in Modules \ {m} : status'[n] = status[n]
  BY WorkingFacts, MarksStatus
<1>2. Swaps(t, {f, g}) /\ Top(t)' = g
  BY Calling
<1>3. \A n \in Modules : status'[n] = "running" => status[n] = "running"
  BY <1>1
<1>4. \A n \in Modules : status[n] = "running" =>
          status'[n] = "running" \/ n \in Isolated \/ StopOf(n) \in Coroutines'
  BY <1>1, <1>2 DEF Swaps
<1>5. \A d \in enabled : status'[d] # "running" => Sought(d)' \/ Passes(t, {f, g}, d)
  BY <1>1, WorkingFacts
<1>6. \A d \in Modules : checks = 0 /\ Fine(d) /\ Fine(d)' /\ ~Supplied(d) /\ Sheds(Top(t), d)
          => \E h \in {f, g} : Sheds(h, d)
  BY <1>1 DEF Fine
<1>7. Furnishes(t)'
  BY <1>2 DEF Furnishes
<1> QED
  BY <1>2, <1>3, <1>4, <1>5, <1>6, <1>7, StepFollowed

LEMMA SyncStopsFollowed ==
    ASSUME NEW t \in Tasks, Working(t), SyncStops(t)
    PROVE  Followed'
<1>1. PICK f \in FrameType : f = Top(t) /\ Shaped(f) /\ f.stage = "stops" /\ Current(f)
  BY WorkingFacts, AtStage DEF SyncStops
<1>2. /\ f.op = "sync" /\ f.todo \subseteq Modules /\ f.mods = enabled /\ f.todo \cap enabled = {}
      /\ enabled \subseteq Modules
  BY <1>1, WorkingFacts DEF Shaped, FrameType, Current
<1>3. \A d : ~Tries(f, d) /\ ~Moves(f, d) /\ ~Sheds(f, d)
  BY <1>1, <1>2 DEF Tries, Moves, Sheds, Reviews
<1>4. \/ /\ Becomes(t, [f EXCEPT !.stage = "starts", !.todo = f.mods, !.mods = {}])
         /\ status' = status
      \/ \E m \in f.todo, passed \in SUBSET f.todo :
            /\ Calls(t, [f EXCEPT !.todo = f.todo \ (passed \cup {m})], StopOf(m))
            /\ Marks(m, "stopping")
  BY <1>1 DEF SyncStops
<1>5. CASE /\ Becomes(t, [f EXCEPT !.stage = "starts", !.todo = f.mods, !.mods = {}])
           /\ status' = status
  <2>1. PICK g : g = [f EXCEPT !.stage = "starts", !.todo = f.mods, !.mods = {}]
    OBVIOUS
  <2>2. g \in FrameType /\ g.stage = "starts" /\ g.op = "sync" /\ g.todo = enabled
    BY <1>2, <2>1 DEF FrameType, Stages
  <2>3. g \in Frames /\ Current(g)
    BY <2>2 DEF Frames, Shaped, StartStages, StopStages, Current
  <2>4. \A d \in enabled : Promises(g, d)
    BY <2>2 DEF Promises
  <2>5. \A d \in enabled : Passes(t, {g}, d)
    BY <1>5, <2>4 DEF Passes
  <2> QED
    BY <1>1, <1>3, <1>5, <2>1, <2>2, <2>3, <2>5, BecomesFollowed
<1>6. CASE \E m \in f.todo, passed \in SUBSET f.todo :
              /\ Calls(t, [f EXCEPT !.todo = f.todo \ (passed \cup {m})], StopOf(m))
              /\ Marks(m, "stopping")
  <2>1. PICK m, passed : /\ m \in f.todo /\ passed \subseteq f.todo
                         /\ Calls(t, [f EXCEPT !.todo = f.todo \ (passed \cup {m})], StopOf(m))
                         /\ Marks(m, "stopping")
    BY <1>6
  <2>2. PICK h \in Waiting : /\ h = [f EXCEPT !.todo = f.todo \ (passed \cup {m})]
                             /\ h.op = "sync" /\ h.stage = "stops" /\ h.mods = enabled
                             /\ h.todo = f.todo \ (passed \cup {m})
    <3>1. PICK todo \in SUBSET Modules : todo = f.todo \ (passed \cup {m})
      BY <1>2
    <3>2. \E h \in Waiting : /\ h = [f EXCEPT !.todo = todo]
                             /\ h.op = "sync" /\ h.stage = f.stage /\ h.mods = f.mods
                             /\ h.todo = todo
      BY <1>1, <1>2, TodoTyped
    <3> QED
      BY <1>1, <1>2, <3>1, <3>2
  <2>3. PICK g \in Frames : g = StopOf(m)
    BY <1>2, <2>1, NewFramesTyped
  <2>4. Calls(t, h, g) /\ g.stage = "stopping" /\ Current(g) /\ Current(h)
    BY <1>2, <2>1, <2>2, <2>3, StopSheds DEF Current
  <2>5. m \in Modules /\ m \notin enabled
    BY <1>2, <2>1
  <2>6. ASSUME NEW d \in enabled \ {m}
        PROVE  Passes(t, {h, g}, d)
    <3>1. status'[d] = status[d]
      BY <1>2, <2>1 DEF Marks
    <3>2. Promises(h, d)
      BY <2>2 DEF Promises
    <3> QED
      BY <3>1, <3>2 DEF Passes
  <2>7. "stopping" \in States
    BY DEF States
  <2> QED
    BY <1>1, <1>3, <2>1, <2>3, <2>4, <2>5, <2>6, <2>7, ReactsFollowed
<1> QED
  BY <1>4, <1>5, <1>6

\* A stop at another of its awaits, whether or not its module is stopped by now.
LEMMA StopsFollowed ==
    ASSUME NEW t \in Tasks, Working(t), NEW m, m = Top(t).module, Top(t).stage \in {"stopping", "halt"},
           NEW stage \in {"halt", "stopped"}, Goes(t, stage),
           status' = status \/ Marks(m, "stopped")
    PROVE  Followed'
<1>1. PICK f \in FrameType : f = Top(t) /\ Shaped(f) /\ Knows(f)
  BY WorkingFacts
<1>2. /\ f.op = "stop" /\ m \in Modules /\ f.stage \in {"stopping", "halt"}
      /\ status[m] = "stopping" /\ stage \in StopStages /\ stage \notin StartStages
  BY <1>1 DEF Shaped, StartStages, StopStages, Knows
<1>3. PICK g \in Frames : /\ Becomes(t, g) /\ Current(g)
                          /\ g.op = "stop" /\ g.module = m /\ g.stage = stage
  BY <1>1, <1>2, GoesFrame
<1>4. Swaps(t, {g}) /\ Top(t)' = g
  BY <1>3, Becoming
<1>5. \A n \in Modules : status'[n] = status[n] \/ (n = m /\ status'[n] = "stopped")
  BY <1>2, WorkingFacts, MarksStatus DEF States
<1>6. \A n \in Modules : status'[n] = "running" <=> status[n] = "running"
  BY <1>2, <1>5
<1>7. \A d : /\ ~Promises(f, d) /\ ~Tries(f, d) /\ ~Moves(f, d)
             /\ Sheds(f, d) => Sheds(g, d)
  <2>1. \A d : ~Promises(f, d) /\ ~Tries(f, d) /\ ~Moves(f, d)
    BY <1>1, <1>2, Spent
  <2>2. \A d : Sheds(f, d) => Sheds(g, d)
    BY <1>1, <1>2, <1>3 DEF Sheds, Reviews
  <2> QED
    BY <2>1, <2>2
<1>8. \A d \in enabled : Passes(t, {g}, d)
  <2>1. \A d \in enabled : status'[d] = status[d] \/ status[d] \notin {"running", "blocked"}
    BY <1>2, <1>5, WorkingFacts
  <2> QED
    BY <1>1, <1>7, <2>1 DEF Passes
<1>9. Furnishes(t)'
  BY <1>3, <1>4 DEF Furnishes
<1> QED
  BY <1>1, <1>3, <1>4, <1>6, <1>7, <1>8, <1>9, StepFollowed

LEMMA StoppingFollowed ==
    ASSUME NEW t \in Tasks, Working(t), Stopping(t)
    PROVE  Followed'
BY StopsFollowed, AtStage DEF Stopping, Stops

LEMMA HaltFollowed ==
    ASSUME NEW t \in Tasks, Working(t), Halt(t)
    PROVE  Followed'
BY StopsFollowed, AtStage DEF Halt, Stops

\* What is to stay supplies what is to start, if no check has emptied the registry.
LEMMA EagerStarts ==
    ASSUME NEW t \in Tasks, Working(t), Top(t).stage # "check", NEW d, Eager(d)
    PROVE  CanStart(d, enabled)
<1>1. \A n : ~Checking(n)
  BY CalmTop DEF Working
<1>2. ASSUME NEW n \in FineModules, NEW c \in Provides[n]
      PROVE  n \in providers
  <2>1. n \in Modules /\ status[n] = "running" /\ ~Leaving(n) /\ n \in Suppliers
    BY <1>2 DEF FineModules, Fine, Suppliers
  <2>2. Agrees(n)
    BY <2>1 DEF Working, OrchestratorInv, Good
  <2> QED
    BY <1>1, <2>1, <2>2 DEF Agrees
<1> QED
  BY <1>2 DEF Eager, WellSupplied, CanStart

\* Without a check, the registry holds the capabilities of modules that run.
LEMMA StartsSupplied ==
    ASSUME NEW t \in Tasks, Working(t), Top(t).stage \in Quiet, checks = 0,
           NEW d, NEW mods, CanStart(d, mods)
    PROVE  Supplied(d)
<1>1. \A n : ~Doing(n, {"blocked", "failed", "stopping", "halt"})
  BY CalmTop DEF Working, Quiet
<1>2. ASSUME NEW n \in providers
      PROVE  n \in Running
  <2>1. n \in Modules
    BY DEF Working, OrchestratorInv, Typed, Suppliers
  <2>2. Agrees(n)
    BY <2>1 DEF Working, OrchestratorInv, Good
  <2> QED
    BY <1>1, <2>1, <2>2 DEF Agrees, Running
<1> QED
  BY <1>2 DEF CanStart, Supplied

\* What a step decides of the one module that it is about.
LEMMA OwnSought ==
    ASSUME NEW t \in Tasks, Working(t), NEW d \in enabled, NEW g \in Coroutines', Promises(g, d)
    PROVE  Sought(d)'
<1>1. Leaving(d)' => Coming(d)'
  BY WorkingFacts, WorkingModules
<1>2. Own(d)' /\ Cause(d)'
  BY DEF Own, Cause
<1> QED
  BY <1>1, <1>2 DEF Sought

LEMMA HopelessSought ==
    ASSUME NEW t \in Tasks, Working(t), NEW d \in enabled,
           \A n \in Modules : status'[n] = "running" => status[n] = "running",
           ~Eager(d), status[d] = "running" \/ status'[d] = "blocked"
    PROVE  Sought(d)'
<1>1. /\ d \in Modules /\ enabled' = enabled
      /\ \A n : Leaving(n)' <=> Leaving(n)
      /\ \A n : Coming(n)' <=> Coming(n)
  BY WorkingFacts
<1>2. Leaving(d) => Coming(d)
  BY <1>1, WorkingModules
<1>3. ~Eager(d)'
  BY <1>1, SuppliesKept DEF Fine
<1>4. ~(Deps[d] \subseteq enabled) => status'[d] = "blocked" \/ Own(d)'
  <2>1. Coming(d) => Own(d)'
    BY <1>1 DEF Own
  <2>2. Fine(d) => Deps[d] \subseteq enabled
    BY <1>1, WorkingModules
  <2> QED
    BY <1>2, <2>1, <2>2 DEF Fine
<1> QED
  BY <1>1, <1>2, <1>3, <1>4 DEF Sought

LEMMA DecideStartFollowed ==
    ASSUME NEW t \in Tasks, Working(t), DecideStart(t)
    PROVE  Followed'
<1>1. PICK f \in FrameType : /\ f = Top(t) /\ Shaped(f) /\ Knows(f)
                             /\ f.stage = "decide" /\ f.op = "start"
  BY WorkingFacts, AtStage DEF DecideStart
<1>2. PICK m \in Modules : m = f.module
  BY <1>1 DEF Shaped
<1>3. /\ f.mods = enabled /\ status[m] \notin {"running", "starting"}
      /\ enabled \subseteq Modules /\ status \in [Modules -> States] /\ enabled' = enabled
  BY <1>1, <1>2, WorkingFacts DEF Knows, Startable
<1>4. \/ m \notin enabled /\ Marks(m, "stopped") /\ Goes(t, "refused")
      \/ m \in enabled /\ CanStart(m, enabled) /\ Marks(m, "starting") /\ Goes(t, "starting")
      \/ m \in enabled /\ ~CanStart(m, enabled) /\ Marks(m, "blocked") /\ Goes(t, "blocked")
  BY <1>1, <1>2, <1>3 DEF DecideStart
<1>5. PICK state, stage :
         /\ \/ m \notin enabled /\ state = "stopped" /\ stage = "refused"
            \/ m \in enabled /\ CanStart(m, enabled) /\ state = "starting" /\ stage = "starting"
            \/ m \in enabled /\ ~CanStart(m, enabled) /\ state = "blocked" /\ stage = "blocked"
         /\ Marks(m, state) /\ Goes(t, stage)
  BY <1>4
<1>6. state \in States \ {"running"} /\ stage \in StartStages /\ stage \notin StopStages
  BY <1>5 DEF States, StartStages, StopStages
<1>7. status'[m] = state /\ \A n \in Modules \ {m} : status'[n] = status[n]
  BY <1>3, <1>5, <1>6, MarksStatus
<1>8. PICK g \in Frames : /\ Becomes(t, g) /\ Current(g)
                          /\ g.op = "start" /\ g.module = m /\ g.stage = stage
  BY <1>1, <1>2, <1>5, <1>6, GoesFrame
<1>9. Swaps(t, {g}) /\ Top(t)' = g /\ g \in Coroutines'
  BY <1>8, Becoming DEF Swaps
<1>10. \A n \in Modules : status'[n] = "running" <=> status[n] = "running"
  BY <1>3, <1>6, <1>7
<1>11. \A d : /\ ~Tries(f, d) /\ ~Sheds(f, d)
              /\ Promises(f, d) => d = m
              /\ Moves(f, d) => m \in Deps[d] \ {d}
  BY <1>1, <1>2 DEF Promises, Tries, Moves, Sheds, Reviews
<1>12. ASSUME NEW d \in enabled
       PROVE  Sought(d)' \/ Passes(t, {g}, d)
  <2>1. CASE d # m
    <3>1. Eager(d) /\ m \in Deps[d] \ {d} => Moves(g, d)
      BY <1>5, <1>8 DEF Eager, Moves
    <3> QED
      BY <1>1, <1>3, <1>7, <1>11, <2>1, <3>1 DEF Passes
  <2>2. CASE d = m /\ state = "starting"
    <3>1. Promises(g, d)
      BY <1>5, <1>8, <2>2 DEF Promises
    <3> QED
      BY <1>9, <3>1, OwnSought
  <2>3. CASE d = m /\ state = "blocked"
    <3>1. ~Eager(d)
      BY <1>1, <1>5, <2>3, EagerStarts
    <3> QED
      BY <1>7, <1>10, <2>3, <3>1, HopelessSought
  <2> QED
    BY <1>5, <2>1, <2>2, <2>3
<1>13. checks = 0 => Furnishes(t)'
  <2> SUFFICES ASSUME checks = 0, stage \in {"starting", "launch", "register"}
               PROVE  Supplied(m)'
    BY <1>8, <1>9 DEF Furnishes, Supplied
  <2>1. Supplied(m)
    BY <1>1, <1>5, StartsSupplied DEF Quiet
  <2>2. Running' = Running
    BY <1>10 DEF Running
  <2> QED
    BY <2>1, <2>2 DEF Supplied
<1> QED
  BY <1>1, <1>8, <1>9, <1>10, <1>11, <1>12, <1>13, StepFollowed

\* The step after which a module runs: who may wait for it is reviewed next.
LEMMA RunsFollowed ==
    ASSUME NEW t \in Tasks, Working(t), NEW m, m = Top(t).module, Top(t).stage \in {"launch", "register"},
           Marks(m, "running"), Goes(t, "running")
    PROVE  Followed'
<1>1. PICK f \in FrameType : f = Top(t) /\ Shaped(f) /\ Knows(f)
  BY WorkingFacts
<1>2. f.op = "start" /\ m \in Modules /\ f.stage \in {"launch", "register"} /\ status[m] = "starting"
  BY <1>1 DEF Shaped, StartStages, Knows
<1>3. PICK g \in Frames : /\ Becomes(t, g) /\ Current(g)
                          /\ g.op = "start" /\ g.module = m /\ g.stage = "running"
  BY <1>1, <1>2, GoesFrame DEF StartStages, StopStages
<1>4. Swaps(t, {g}) /\ Top(t)' = g /\ g \in Coroutines'
  BY <1>3, Becoming DEF Swaps
<1>5. /\ enabled' = enabled /\ enabled \subseteq Modules /\ checks' = checks
      /\ \A n : Leaving(n)' <=> Leaving(n)
      /\ \A n : Coming(n)' <=> Coming(n)
      /\ status \in [Modules -> States]
  BY WorkingFacts
<1>6. status'[m] = "running" /\ \A n \in Modules \ {m} : status'[n] = status[n]
  BY <1>2, <1>5, MarksStatus DEF States
<1>7. \A d : /\ ~Tries(f, d) /\ ~Sheds(f, d)
             /\ Promises(f, d) => d = m
             /\ Moves(f, d) => m \in Deps[d] \ {d}
  BY <1>1, <1>2 DEF Promises, Tries, Moves, Sheds, Reviews
<1>8. \A n \in Modules \ {m} : Fine(n)' <=> Fine(n)
  BY <1>5, <1>6 DEF Fine
<1>9. ASSUME NEW d \in enabled
      PROVE  Sought(d)'
  <2>1. Leaving(d)' => Coming(d)'
    BY <1>5, WorkingModules
  <2>2. CASE status'[d] = "running"
    BY <1>5, <2>1, <2>2, RunningSought DEF Working
  <2>3. CASE status'[d] # "running" /\ m \notin Isolated /\ Concerns(m, d)
    <3>1. Cause(d)'
      <4>1. Tries(g, d)
        BY <1>3, <2>3 DEF Tries
      <4> QED
        BY <1>4, <4>1 DEF Cause
    <3>2. ~(Deps[d] \subseteq enabled') => status'[d] = "blocked" \/ Own(d)'
      <4>1. Sought(d) /\ ~Withdrawn(d) /\ d # m
        BY <1>5, <1>6, <2>3, WorkingFacts DEF Working, Followed, Withdrawn
      <4>2. Own(d) => Own(d)'
        BY <1>1, <1>4, <1>5, <1>7, <4>1 DEF Own, Swaps
      <4> QED
        BY <1>5, <1>6, <4>1, <4>2 DEF Sought
    <3> QED
      BY <2>1, <3>1, <3>2 DEF Sought
  <2>4. CASE status'[d] # "running" /\ (m \in Isolated \/ ~Concerns(m, d))
    <3>1. d # m
      BY <1>6, <2>4
    <3>2. ASSUME SuppliedWithin(d)
          PROVE  m \notin Deps[d] /\ Requires[d] \cap Provides[m] = {}
      BY <2>4, <3>1, <3>2 DEF SuppliedWithin, Concerns
    <3>3. Eager(d)' => Eager(d)
      <4> SUFFICES ASSUME Eager(d)'
                   PROVE  WellSupplied(d)
        BY <1>5 DEF Eager, SuppliedWithin
      <4>1. SuppliedWithin(d) /\ WellSupplied(d)'
        BY DEF Eager, SuppliedWithin
      <4>2. \A n \in FineModules' : n = m \/ n \in FineModules
        BY <1>8 DEF FineModules
      <4> QED
        BY <3>2, <4>1, <4>2 DEF WellSupplied
    <3>4. \A n \in Deps[d] : Eager(d) /\ Fine(n)' => Fine(n)
      BY <1>5, <1>8, <3>2, OrchestratorAssumption DEF Eager
    <3>5. Passes(t, {g}, d)
      BY <1>1, <1>5, <1>6, <1>7, <3>1, <3>2 DEF Passes, Eager
    <3> QED
      BY <1>4, <3>3, <3>4, <3>5, SoughtCarried
  <2> QED
    BY <2>2, <2>3, <2>4
<1>10. ASSUME NEW d \in Modules
       PROVE  Shed(d)'
  <2>1. CASE d = m
    <3>1. checks = 0 => Supplied(m)
      BY <1>1, <1>2 DEF Working, Followed, Furnished, Furnishes
    <3>2. \A n \in Running : n \in Running'
      BY <1>6 DEF Running
    <3>3. Supplied(m) => Supplied(m)'
      BY <3>2 DEF Supplied
    <3> QED
      BY <1>5, <2>1, <3>1, <3>3 DEF Shed
  <2>2. CASE d # m
    <3>1. \A n \in Modules : status[n] = "running" => status'[n] = "running"
      BY <1>6
    <3> QED
      BY <1>1, <1>4, <1>7, <1>8, <2>2, <3>1, ShedCarried
  <2> QED
    BY <2>1, <2>2
<1>11. Furnishes(t)'
  BY <1>3, <1>4 DEF Furnishes
<1> QED
  BY <1>3, <1>4, <1>9, <1>10, <1>11, PartsFollowed

LEMMA LaunchFollowed ==
    ASSUME NEW t \in Tasks, Working(t), Launch(t)
    PROVE  Followed'
BY RunsFollowed, AtStage DEF Launch

LEMMA RegisterFollowed ==
    ASSUME NEW t \in Tasks, Working(t), Register(t)
    PROVE  Followed'
BY RunsFollowed, AtStage DEF Register

\* A module on which a review does not act runs, or cannot start.
LEMMA PassedOver ==
    ASSUME NEW t \in Tasks, Working(t), NEW f, f = Top(t), f.op = "review",
           f.stage \in {"decide", "loop"}, f.mods = enabled,
           NEW d \in Modules, d \notin f.todo \/ Verdict(d, f) = "pass"
    PROVE  /\ ~Promises(f, d)
           /\ Eager(d) /\ status[d] # "running" => ~Tries(f, d)
           /\ Eager(d) /\ status[d] = "blocked" => ~Moves(f, d)
           /\ checks = 0 /\ Fine(d) /\ ~Supplied(d) => ~Sheds(f, d)
<1>1. ~Promises(f, d)
  BY DEF Promises
<1>2. /\ Tries(f, d) => d \in f.todo /\ f.try
      /\ Moves(f, d) => d \in f.todo
      /\ Sheds(f, d) => d \in f.todo
  BY DEF Tries, Moves, Sheds, Reviews
<1>3. f.stage \in Quiet /\ f.stage # "check"
  BY DEF Quiet
<1>4. ASSUME Eager(d), d \in f.todo, status[d] # "running"
      PROVE  ~f.try /\ status[d] # "blocked"
  <2>1. CanStart(d, f.mods)
    BY <1>3, <1>4, EagerStarts
  <2>2. Startable(d)
    BY <1>3, <1>4, WorkingModules DEF Startable
  <2>3. Verdict(d, f) # "start"
    BY <1>4
  <2> QED
    BY <2>1, <2>2, <2>3 DEF Verdict
<1>5. ASSUME checks = 0, Fine(d), ~Supplied(d)
      PROVE  d \notin f.todo
  <2>1. ~CanStart(d, f.mods) /\ status[d] = "running"
    BY <1>3, <1>5, StartsSupplied DEF Fine
  <2>2. Verdict(d, f) = "stop"
    BY <2>1 DEF Verdict
  <2> QED
    BY <2>2
<1> QED
  BY <1>1, <1>2, <1>4, <1>5

\* What a review does next.
LEMMA ReviewActs ==
    ASSUME NEW t \in Tasks, Working(t), Review(t), NEW f \in FrameType, f = Top(t)
    PROVE  \/ Returns(t) /\ status' = status /\ \A n \in f.todo : Verdict(n, f) = "pass"
           \/ \E m \in f.todo, h \in Waiting, g \in Frames :
                 /\ h.op = "review" /\ h.stage = "loop" /\ h.mods = f.mods /\ h.try = f.try
                 /\ \A n \in f.todo \ {m} : Verdict(n, f) # "pass" => n \in h.todo
                 /\ Calls(t, h, g)
                 /\ \/ Verdict(m, f) = "start" /\ g = StartOf(m) /\ status' = status
                    \/ Verdict(m, f) = "stop" /\ g = StopOf(m) /\ Marks(m, "stopping")
                    \/ Verdict(m, f) = "block" /\ g = MarkOf(m) /\ Marks(m, "blocked")
<1> DEFINE acting == {n \in f.todo : Verdict(n, f) # "pass"}
           first  == CHOOSE n \in acting : \A o \in acting : Rank[n] <= Rank[o]
           rest   == [f EXCEPT !.stage = "loop", !.todo = {n \in f.todo : Rank[n] > Rank[first]}]
<1>1. f.op = "review" /\ f.todo \subseteq Modules /\ f.module \in Modules
  BY WorkingFacts DEF Review, FrameType, Shaped
<1>2. CASE acting = {}
  <2>1. Returns(t) /\ UNCHANGED status
    BY <1>2 DEF Review
  <2> QED
    BY <1>2, <2>1
<1>3. CASE acting # {}
  <2>1. \E n \in acting : \A o \in acting : Rank[n] <= Rank[o]
    <3>1. acting \in SUBSET Modules
      BY <1>1
    <3> HIDE DEF acting
    <3> QED
      BY <1>3, <3>1, FirstExists
  <2>2. first \in acting /\ \A o \in acting : Rank[first] <= Rank[o]
    BY <2>1
  <2>3. (CASE Verdict(first, f) = "start" -> Calls(t, rest, StartOf(first)) /\ UNCHANGED status
           [] Verdict(first, f) = "stop"  -> Calls(t, rest, StopOf(first)) /\ Marks(first, "stopping")
           [] Verdict(first, f) = "block" -> Calls(t, rest, MarkOf(first)) /\ Marks(first, "blocked"))
    BY <1>3 DEF Review
  <2>4. PICK m \in f.todo : m = first /\ m \in Modules
    BY <1>1, <2>2
  <2>5. {n \in f.todo : Rank[n] > Rank[first]} \in SUBSET Modules
    BY <1>1
  <2>6. PICK h \in Waiting : h = rest
    BY <1>1, <2>5, LoopTyped
  <2>7. /\ h.op = "review" /\ h.stage = "loop" /\ h.mods = f.mods /\ h.try = f.try
        /\ h.todo = {n \in f.todo : Rank[n] > Rank[m]}
    BY <1>1, <2>4, <2>6 DEF FrameType
  <2>8. ASSUME NEW n \in f.todo \ {m}, Verdict(n, f) # "pass"
        PROVE  n \in h.todo
    <3>1. Rank[m] <= Rank[n] /\ Rank[m] # Rank[n] /\ Rank[m] \in Nat /\ Rank[n] \in Nat
      BY <1>1, <2>2, <2>4, <2>8, OrchestratorAssumption
    <3> QED
      BY <2>7, <3>1
  <2>9. Verdict(m, f) \in {"start", "stop", "block"}
    <3>1. Verdict(m, f) # "pass"
      BY <2>2, <2>4
    <3> HIDE DEF first
    <3> QED
      BY <3>1 DEF Verdict
  <2>10. StartOf(m) \in Frames /\ StopOf(m) \in Frames /\ MarkOf(m) \in Frames
    BY <2>4, NewFramesTyped
  <2> HIDE DEF rest, first, acting
  <2>11. \/ Verdict(m, f) = "start" /\ Calls(t, h, StartOf(m)) /\ status' = status
         \/ Verdict(m, f) = "stop"  /\ Calls(t, h, StopOf(m)) /\ Marks(m, "stopping")
         \/ Verdict(m, f) = "block" /\ Calls(t, h, MarkOf(m)) /\ Marks(m, "blocked")
    BY <2>3, <2>4, <2>6, <2>9
  <2>12. PICK g \in Frames :
            /\ Calls(t, h, g)
            /\ \/ Verdict(m, f) = "start" /\ g = StartOf(m) /\ status' = status
               \/ Verdict(m, f) = "stop" /\ g = StopOf(m) /\ Marks(m, "stopping")
               \/ Verdict(m, f) = "block" /\ g = MarkOf(m) /\ Marks(m, "blocked")
    BY <2>10, <2>11
  <2> QED
    BY <2>7, <2>8, <2>12
<1> QED
  BY <1>2, <1>3

LEMMA ReviewFollowed ==
    ASSUME NEW t \in Tasks, Working(t), Review(t)
    PROVE  Followed'
<1>1. PICK f \in FrameType : /\ f = Top(t) /\ f.op = "review" /\ f.stage \in {"decide", "loop"}
                             /\ Shaped(f) /\ Knows(f) /\ Current(f)
  BY WorkingFacts, AtStage DEF Review
<1>2. f.mods = enabled /\ enabled \subseteq Modules /\ f.todo \subseteq Modules
  BY <1>1, WorkingFacts DEF Knows, Current, FrameType
<1>3. CASE Returns(t) /\ status' = status /\ \A n \in f.todo : Verdict(n, f) = "pass"
  <2>1. \A d \in enabled : status[d] # "running" => Passes(t, {}, d)
    BY <1>1, <1>2, <1>3, PassedOver DEF Passes
  <2>2. \A d \in Modules : checks = 0 /\ Fine(d) /\ ~Supplied(d) => ~Sheds(Top(t), d)
    BY <1>1, <1>2, <1>3, PassedOver
  <2> QED
    BY <1>3, <2>1, <2>2, ReturnsFollowed
<1>4. ASSUME NEW m \in f.todo, NEW h \in Waiting, NEW g \in Frames,
             h.op = "review", h.stage = "loop", h.mods = f.mods, h.try = f.try,
             \A n \in f.todo \ {m} : Verdict(n, f) # "pass" => n \in h.todo,
             Calls(t, h, g),
             \/ Verdict(m, f) = "start" /\ g = StartOf(m) /\ status' = status
             \/ Verdict(m, f) = "stop" /\ g = StopOf(m) /\ Marks(m, "stopping")
             \/ Verdict(m, f) = "block" /\ g = MarkOf(m) /\ Marks(m, "blocked")
      PROVE  Followed'
  <2>1. Current(h)
    BY <1>2, <1>4 DEF Current
  <2>2. \A d \in h.todo : /\ ~Promises(f, d)
                          /\ Tries(f, d) => Tries(h, d)
                          /\ Moves(h, d) /\ Sheds(h, d)
    BY <1>1, <1>4 DEF Promises, Tries, Moves, Sheds, Reviews
  <2>3. ASSUME NEW d \in Modules \ {m}
        PROVE  /\ ~Promises(f, d)
               /\ Eager(d) /\ status[d] # "running" /\ Tries(f, d) => Tries(h, d)
               /\ Eager(d) /\ status[d] = "blocked" /\ Moves(f, d) => Moves(h, d)
               /\ checks = 0 /\ Fine(d) /\ ~Supplied(d) /\ Sheds(f, d) => Sheds(h, d)
    <3>1. CASE d \in h.todo
      BY <2>2, <3>1
    <3>2. CASE d \notin h.todo
      <4>1. d \notin f.todo \/ Verdict(d, f) = "pass"
        BY <1>4, <3>2
      <4> QED
        BY <1>1, <1>2, <4>1, PassedOver
    <3> QED
      BY <3>1, <3>2
  <2>4. ASSUME NEW d \in enabled \ {m}, status[d] # "running", status'[d] = status[d]
        PROVE  Passes(t, {h, g}, d)
    BY <1>1, <1>2, <2>3, <2>4 DEF Passes
  <2>5. m \in Modules /\ status \in [Modules -> States] /\ {"stopping", "blocked"} \subseteq States
    BY <1>2, WorkingFacts DEF States
  <2>6. CASE Verdict(m, f) = "start" /\ g = StartOf(m) /\ status' = status
    <3>1. status[m] # "running"
      BY <2>6 DEF Verdict, Startable
    <3>2. g.stage = "read" /\ Promises(g, m) /\ Current(g)
      BY <2>6, StartPromises
    <3>3. \A d \in enabled : status[d] # "running" => Passes(t, {h, g}, d)
      BY <2>4, <2>6, <3>2 DEF Passes
    <3>4. \A d \in Modules : checks = 0 /\ Fine(d) /\ ~Supplied(d) /\ Sheds(f, d) => Sheds(h, d)
      BY <2>3, <3>1 DEF Fine
    <3> QED
      BY <1>1, <1>4, <2>1, <2>6, <3>2, <3>3, <3>4, CallsFollowed
  <2>7. ASSUME NEW state \in {"stopping", "blocked"}, Marks(m, state),
               ~CanStart(m, f.mods), status[m] = "running" \/ state = "blocked",
               g = StopOf(m) \/ status[m] # "running",
               g.stage \notin {"starting", "launch", "register"}, Current(g)
        PROVE  Followed'
    <3>1. status'[m] = state /\ \A n \in Modules \ {m} : status'[n] = status[n]
      BY <2>5, <2>7, MarksStatus
    <3>2. m \in enabled => Sought(m)'
      <4>1. ~Eager(m)
        BY <1>1, <1>2, <2>7, EagerStarts
      <4>2. \A n \in Modules : status'[n] = "running" => status[n] = "running"
        BY <2>7, <3>1
      <4> QED
        BY <2>7, <3>1, <4>1, <4>2, HopelessSought
    <3>3. \A d \in enabled \ {m} : status[d] # "running" => Passes(t, {h, g}, d)
      BY <1>2, <2>4, <3>1
    <3>4. \A d \in Modules : checks = 0 /\ Fine(d) /\ d # m /\ ~Supplied(d) /\ Sheds(Top(t), d)
              => Sheds(h, d)
      BY <1>1, <2>3
    <3> QED
      BY <1>4, <2>1, <2>5, <2>7, <3>2, <3>3, <3>4, ReactsFollowed
  <2>8. CASE Verdict(m, f) = "stop" /\ g = StopOf(m) /\ Marks(m, "stopping")
    <3>1. ~CanStart(m, f.mods) /\ status[m] = "running"
      BY <2>8 DEF Verdict
    <3> QED
      BY <2>7, <2>8, <3>1, StopSheds
  <2>9. CASE Verdict(m, f) = "block" /\ g = MarkOf(m) /\ Marks(m, "blocked")
    <3>1. ~CanStart(m, f.mods) /\ status[m] # "running"
      BY <2>9 DEF Verdict
    <3>2. g.stage = "mark"
      BY <2>9 DEF MarkOf, Frame
    <3> QED
      BY <2>7, <2>9, <3>1, <3>2 DEF Current
  <2> QED
    BY <1>4, <2>6, <2>8, <2>9
<1> QED
  BY <1>1, <1>3, <1>4, ReviewActs

LEMMA ContinueFollowed ==
    ASSUME NEW t \in Tasks, Working(t), Continue(t)
    PROVE  Followed'
BY ReadEnabledFollowed, DecideStartFollowed, RefusedFollowed, BlockedFollowed, StartingFollowed,
   LaunchFollowed, LaunchBlockedFollowed, RegisterFollowed, StartedFollowed, ReviewedFollowed,
   FailedFollowed, StoppingFollowed, HaltFollowed, StoppedFollowed, ReviewFollowed,
   MarkedFollowed, DecideSyncFollowed, SyncStopsFollowed, SyncStartsFollowed, RestartFollowed,
   EndCheckFollowed
DEF Continue

-----------------------------------------------------------------------------
(* The other steps of a calm site.                                         *)

Calmly ==
    /\ OrchestratorInv /\ OrchestratorInv' /\ Followed
    /\ calm /\ calm' /\ Watched

LEMMA CalmlyTyped ==
    ASSUME Calmly
    PROVE  /\ enabled \subseteq Modules /\ events \in Seq(Events)
           /\ status \in [Modules -> States] /\ stack \in [Tasks -> Stacks]
           /\ checks \in Nat /\ changes \in Nat /\ faults = 0 /\ faults' = 0
           /\ pending # None => pending.module \in Modules /\ pending.on \in BOOLEAN
BY OrchestratorAssumption DEF Calmly, OrchestratorInv, Typed, Watched

\* A task in no coroutine is given some.
LEMMA Given ==
    ASSUME NEW t \in Tasks, stack[t] = <<>>, \A u \in Tasks \ {t} : stack'[u] = stack[u]
    PROVE  /\ Coroutines \subseteq Coroutines'
           /\ Coroutines' = Coroutines \cup Held(t)'
<1>1. Held(t) = {}
  BY DEF Held
<1>2. \A u \in Tasks \ {t} : Held(u)' = Held(u)
  BY DEF Held
<1>3. /\ Coroutines = UNION {Held(u) : u \in Tasks} /\ Coroutines' = UNION {Held(u)' : u \in Tasks}
  BY DEF Coroutines
<1> QED
  BY <1>1, <1>2, <1>3

LEMMA HeldSingle ==
    ASSUME NEW t \in Tasks, NEW f, stack'[t] = <<f>>
    PROVE  Held(t)' = {f}
BY DEF Held

\* A step that moves no module, takes no event and takes no coroutine away.
LEMMA MoreFollowed ==
    ASSUME Calmly, UNCHANGED <<enabled, pending, events, status>>, checks' = checks \/ checks' # 0,
           Coroutines \subseteq Coroutines',
           \A f \in Coroutines' : f \in Coroutines \/ Current(f),
           checks' = 0 => \A t \in Tasks : Furnishes(t)'
    PROVE  Followed'
<1>1. /\ \A n : Leaving(n)' <=> Leaving(n)
      /\ \A n : Coming(n)' <=> Coming(n)
      /\ \A n : Fine(n)' <=> Fine(n)
      /\ \A n : Withdrawn(n)' <=> Withdrawn(n)
  BY DEF Leaving, Coming, Fine, Withdrawn, Enabling, Disabling
<1>2. ASSUME NEW d \in Modules
      PROVE  Sought(d)' /\ Shed(d)'
  <2>1. Sought(d) /\ Shed(d)
    BY DEF Calmly, Followed
  <2>2. Eager(d)' => Eager(d)
    BY <1>1, SuppliesKept
  <2>3. Own(d) => Own(d)'
    BY <1>1 DEF Own
  <2>4. ComesFor(d) => ComesFor(d)'
    BY <1>1 DEF ComesFor
  <2>5. Cause(d) => Cause(d)'
    BY <2>3, <2>4 DEF Cause
  <2>6. Sought(d)'
    BY <1>1, <2>1, <2>2, <2>3, <2>5 DEF Sought
  <2>7. Shed(d)'
    <3>1. Supplied(d)' <=> Supplied(d)
      BY DEF Supplied, Running
    <3> QED
      BY <1>1, <2>1, <3>1 DEF Shed, SuppliedWithin
  <2> QED
    BY <2>6, <2>7
<1>3. Furnished'
  BY DEF Furnished
<1>4. Heralded'
  BY <1>1 DEF Calmly, Followed, Heralded
<1>5. \A f \in Coroutines' : Current(f)'
  BY DEF Calmly, Followed, Current
<1> QED
  BY <1>2, <1>3, <1>4, <1>5 DEF Followed

LEMMA SameFollowed ==
    ASSUME Calmly, UNCHANGED <<enabled, pending, events, status, stack, checks>>
    PROVE  Followed'
<1>1. Coroutines' = Coroutines
  BY DEF Coroutines, Held
<1>2. checks' = 0 => \A t \in Tasks : Furnishes(t)'
  BY DEF Calmly, Followed, Furnished, Furnishes, Top, Supplied, Running
<1> QED
  BY <1>1, <1>2, MoreFollowed

LEMMA EndSetupFollowed ==
    ASSUME Calmly, EndSetup
    PROVE  Followed'
BY SameFollowed DEF EndSetup, world, site, counts

LEMMA ExpireFollowed ==
    ASSUME Calmly, NEW m, Expire(m)
    PROVE  Followed'
BY SameFollowed DEF Expire, world, tasks, counts

\* The lane takes up its work again.
LEMMA LaneFollowed ==
    ASSUME Calmly, NEW f, f.stage \in {"read", "check"}, stack["lane"] = <<>>,
           stack'["lane"] = <<f>>, \A u \in Tasks \ {"lane"} : stack'[u] = stack[u],
           UNCHANGED <<enabled, pending, events, status>>, checks' = checks \/ checks' # 0
    PROVE  Followed'
<1>1. "lane" \in Tasks
  BY DEF Tasks
<1>2. Coroutines \subseteq Coroutines' /\ Coroutines' = Coroutines \cup {f}
  BY <1>1, Given, HeldSingle
<1>3. checks' = 0 => \A t \in Tasks : Furnishes(t)'
  <2>1. Furnishes("lane")'
    BY DEF Furnishes, Top
  <2>2. ASSUME NEW u \in Tasks \ {"lane"}, checks' = 0
        PROVE  Furnishes(u)'
    <3>1. Furnishes(u)
      BY <2>2 DEF Calmly, Followed, Furnished
    <3> QED
      BY <3>1 DEF Furnishes, Top, Supplied, Running
  <2> QED
    BY <2>1, <2>2
<1> QED
  BY <1>2, <1>3, MoreFollowed DEF Current

LEMMA ReconcileFollowed ==
    ASSUME Calmly, Reconcile
    PROVE  Followed'
<1>1. SyncOf.stage = "read"
  BY DEF SyncOf, Frame
<1>2. PICK f : f = SyncOf
  OBVIOUS
<1>3. stack["lane"] = <<>> /\ stack' = [stack EXCEPT !["lane"] = <<f>>]
  BY <1>2 DEF Reconcile
<1>4. stack'["lane"] = <<f>> /\ \A u \in Tasks \ {"lane"} : stack'[u] = stack[u]
  BY <1>3, CalmlyTyped DEF Tasks
<1>5. UNCHANGED <<enabled, pending, events, status>> /\ checks' = checks
  BY DEF Reconcile, Steps, world, site, counts
<1> QED
  BY <1>1, <1>2, <1>3, <1>4, <1>5, LaneFollowed

LEMMA BeginCheckFollowed ==
    ASSUME Calmly, BeginCheck
    PROVE  Followed'
<1>1. CheckOf(enabled).stage = "check"
  BY DEF CheckOf, Frame
<1>2. PICK f : f = CheckOf(enabled)
  OBVIOUS
<1>3. stack["lane"] = <<>> /\ stack' = [stack EXCEPT !["lane"] = <<f>>]
  BY <1>2 DEF BeginCheck
<1>4. stack'["lane"] = <<f>> /\ \A u \in Tasks \ {"lane"} : stack'[u] = stack[u]
  BY <1>3, CalmlyTyped DEF Tasks
<1>5. UNCHANGED <<enabled, pending, events, status>> /\ checks' # 0
  BY CalmlyTyped DEF BeginCheck, world
<1> QED
  BY <1>1, <1>2, <1>3, <1>4, <1>5, LaneFollowed

-----------------------------------------------------------------------------
(* The events.                                                             *)

LEMMA ComingAppend ==
    ASSUME events \in Seq(Events), NEW e \in Events, events' = Append(events, e), NEW n
    PROVE  /\ Coming(n) /\ e # Disabling(n) => Coming(n)'
           /\ e = Enabling(n) => Coming(n)'
           /\ Leaving(n) => Leaving(n)'
           /\ Leaving(n)' /\ e # Disabling(n) => Leaving(n)
<1>1. /\ Len(events') = Len(events) + 1 /\ Len(events) \in Nat
      /\ events'[Len(events) + 1] = e
      /\ \A i \in 1 .. Len(events) : events'[i] = events[i]
  BY AppendProperties, LenProperties
<1>2. Coming(n) /\ e # Disabling(n) => Coming(n)'
  BY <1>1 DEF Coming
<1>3. e = Enabling(n) => Coming(n)'
  BY <1>1 DEF Coming
<1>4. Leaving(n)' /\ e # Disabling(n) => Leaving(n)
  BY <1>1 DEF Leaving, Disabling
<1> QED
  BY <1>2, <1>3, <1>4, LeavingAppend

LEMMA ComingTail ==
    ASSUME events \in Seq(Events), events # <<>>, events' = Tail(events), NEW n
    PROVE  /\ Coming(n) => Coming(n)' \/ (Head(events) = Enabling(n) /\ ~Leaving(n))
           /\ Leaving(n)' => Leaving(n)
           /\ Leaving(n) => Leaving(n)' \/ Head(events) = Disabling(n)
<1>1. /\ Head(events) = events[1] /\ Len(events') = Len(events) - 1 /\ Len(events) \in Nat
      /\ \A i \in 1 .. Len(events') : events'[i] = events[i + 1]
  BY HeadTailProperties, LenProperties
<1>2. ASSUME Coming(n)
      PROVE  Coming(n)' \/ (Head(events) = Enabling(n) /\ ~Leaving(n))
  <2>1. PICK i \in 1 .. Len(events) :
           events[i] = Enabling(n) /\ \A j \in i + 1 .. Len(events) : events[j] # Disabling(n)
    BY <1>2 DEF Coming
  <2>2. CASE i = 1
    <3>1. \A j \in 1 .. Len(events) : events[j] # Disabling(n)
      <4>1. Enabling(n) # Disabling(n)
        BY DEF Enabling, Disabling
      <4>2. \A j \in 1 .. Len(events) : j = 1 \/ j \in 1 + 1 .. Len(events)
        BY <1>1
      <4> QED
        BY <2>1, <2>2, <4>1, <4>2
    <3> QED
      BY <1>1, <2>1, <2>2, <3>1 DEF Leaving, Disabling
  <2>3. CASE i # 1
    <3>1. PICK k \in 1 .. Len(events') : i = k + 1
      <4>1. i - 1 \in 1 .. Len(events') /\ i = (i - 1) + 1
        BY <1>1, <2>3
      <4> QED
        BY <4>1
    <3>2. events'[k] = Enabling(n)
      BY <1>1, <2>1, <3>1
    <3>3. ASSUME NEW j \in k + 1 .. Len(events')
          PROVE  events'[j] # Disabling(n)
      <4>1. j + 1 \in i + 1 .. Len(events) /\ j \in 1 .. Len(events')
        BY <1>1, <3>1, <3>3
      <4> QED
        BY <1>1, <2>1, <4>1
    <3> QED
      BY <3>2, <3>3 DEF Coming
  <2> QED
    BY <2>2, <2>3
<1>3. Leaving(n)' => Leaving(n)
  <2>1. \A i \in 1 .. Len(events') : i + 1 \in 1 .. Len(events)
    BY <1>1
  <2> QED
    BY <1>1, <2>1 DEF Leaving
<1>4. Leaving(n) => Leaving(n)' \/ Head(events) = Disabling(n)
  BY LeavingTail DEF Disabling
<1> QED
  BY <1>2, <1>3, <1>4

-----------------------------------------------------------------------------
(* The requests to the API.                                                *)

\* A message is published.
LEMMA PublishedFollowed ==
    ASSUME Calmly, UNCHANGED <<enabled, status, stack, checks>>,
           NEW e \in Events, events' = Append(events, e),
           \A d \in Modules : Withdrawn(d) => Withdrawn(d)',
           \A d \in Modules : e = Disabling(d) =>
               /\ Withdrawn(d)'
               /\ \A n \in enabled \ {d} : Deps[n] \subseteq enabled => d \notin Deps[n],
           Heralded'
    PROVE  Followed'
<1>1. /\ events \in Seq(Events) /\ enabled \subseteq Modules
  BY CalmlyTyped
<1>2. \A n : /\ Coming(n) /\ e # Disabling(n) => Coming(n)'
             /\ Leaving(n) => Leaving(n)'
             /\ Leaving(n)' /\ e # Disabling(n) => Leaving(n)
  BY <1>1, ComingAppend
<1>3. \A n : Fine(n)' => Fine(n)
  BY <1>2 DEF Fine
<1>4. Coroutines' = Coroutines /\ Running' = Running
  BY DEF Coroutines, Held, Running
<1>5. ASSUME NEW d \in Modules
      PROVE  Sought(d)'
  <2> SUFFICES ASSUME d \in enabled, ~Withdrawn(d)'
               PROVE  /\ Leaving(d)' => Coming(d)'
                      /\ ~(Deps[d] \subseteq enabled) => status[d] = "blocked" \/ Own(d)'
                      /\ Eager(d)' => Fine(d)' \/ Cause(d)'
    BY DEF Sought
  <2>1. Sought(d) /\ ~Withdrawn(d) /\ e # Disabling(d)
    BY DEF Calmly, Followed
  <2>2. Coming(d) => Coming(d)'
    BY <1>2, <2>1
  <2>3. Own(d) => Own(d)'
    BY <1>4, <2>2 DEF Own
  <2>4. Fine(d) => Fine(d)'
    BY <1>2, <2>1 DEF Fine
  <2>5. Eager(d)' => Eager(d)
    BY <1>3, SuppliesKept
  <2>6. Eager(d) /\ ComesFor(d) => ComesFor(d)'
    <3> SUFFICES ASSUME Eager(d), ComesFor(d)
                 PROVE  ComesFor(d)'
      OBVIOUS
    <3>1. PICK n \in Deps[d] \ {d} : ~Fine(n) /\ Coming(n)
      BY DEF ComesFor
    <3>2. e # Disabling(n)
      BY <1>1, <3>1 DEF Eager
    <3> QED
      BY <1>2, <1>3, <3>1, <3>2 DEF ComesFor
  <2>7. Eager(d) /\ Cause(d) => Cause(d)'
    BY <1>4, <2>3, <2>6 DEF Cause
  <2> QED
    BY <1>2, <2>1, <2>2, <2>3, <2>4, <2>5, <2>7 DEF Sought
<1>6. ASSUME NEW d \in Modules
      PROVE  Shed(d)'
  BY <1>3, <1>4 DEF Calmly, Followed, Shed, Supplied, SuppliedWithin
<1>7. Furnished'
  BY <1>4 DEF Calmly, Followed, Furnished, Furnishes, Top, Supplied
<1>8. \A f \in Coroutines' : Current(f)'
  BY <1>4 DEF Calmly, Followed, Current
<1> QED
  BY <1>5, <1>6, <1>7, <1>8 DEF Followed

LEMMA SetEnabledFollowed ==
    ASSUME Calmly, NEW m \in Modules, NEW on \in BOOLEAN, SetEnabled(m, on)
    PROVE  Followed'
<1>1. PICK e \in Events : e = [module |-> m, what |-> IF on THEN "enable" ELSE "disable"]
  BY DEF Events
<1>2. /\ UNCHANGED <<enabled, status, stack, checks>>
      /\ pending = None /\ pending' = [module |-> m, on |-> on]
      /\ (~on => CanDisable(m)) /\ Publishes(e) /\ changes' = changes + 1
  BY <1>1 DEF SetEnabled, Change, site, tasks
<1>3. events' # events
  <2>1. changes' # changes
    BY <1>2, CalmlyTyped
  <2> QED
    BY <2>1 DEF Calmly, Watched
<1>4. events' = Append(events, e)
  BY <1>2, <1>3 DEF Publishes
<1>5. \A d \in Modules : ~Withdrawn(d)
  BY <1>2 DEF Withdrawn
<1>6. pending' # None /\ pending'.module = m /\ pending'.on = on
  BY <1>2, OrchestratorAssumption
<1>7. ASSUME NEW d \in Modules, e = Disabling(d)
      PROVE  /\ Withdrawn(d)'
             /\ \A n \in enabled \ {d} : Deps[n] \subseteq enabled => d \notin Deps[n]
  <2>1. d = m /\ ~on
    BY <1>1, <1>7 DEF Disabling
  <2>2. Withdrawn(d)'
    BY <1>6, <2>1 DEF Withdrawn
  <2>3. \A n \in enabled \ {d} : Deps[n] \subseteq enabled => d \notin Deps[n]
    BY <1>2, <2>1 DEF CanDisable
  <2> QED
    BY <2>2, <2>3
<1>8. Heralded'
  <2>1. on => e = Enabling(m)
    BY <1>1 DEF Enabling
  <2>2. on => Coming(m)'
    BY <1>4, <2>1, CalmlyTyped, ComingAppend
  <2>3. Coming(m)' <=> Coming(pending.module)'
    BY <1>6 DEF Coming, Enabling, Disabling
  <2> QED
    BY <1>6, <2>2, <2>3 DEF Heralded
<1> QED
  BY <1>2, <1>4, <1>5, <1>7, <1>8, PublishedFollowed

LEMMA ApplyFollowed ==
    ASSUME Calmly, NEW m \in Modules, Apply(m)
    PROVE  Followed'
<1>1. PICK e \in Events : e = [module |-> m, what |-> "restart"]
  BY DEF Events
<1>2. /\ UNCHANGED <<enabled, status, stack, checks, pending>>
      /\ Publishes(e) /\ changes' = changes + 1
  BY <1>1 DEF Apply, Change, site, tasks
<1>3. events' # events
  <2>1. changes' # changes
    BY <1>2, CalmlyTyped
  <2> QED
    BY <2>1 DEF Calmly, Watched
<1>4. events' = Append(events, e)
  BY <1>2, <1>3 DEF Publishes
<1>5. \A d : e # Disabling(d)
  BY <1>1 DEF Disabling
<1>6. \A d \in Modules : Withdrawn(d) => Withdrawn(d)'
  BY <1>2 DEF Withdrawn
<1>7. Heralded'
  <2>1. \A n : (Coming(n) => Coming(n)') /\ (Leaving(n)' => Leaving(n))
    BY <1>4, <1>5, CalmlyTyped, ComingAppend
  <2>2. Fine(pending.module) => Fine(pending.module)'
    BY <1>2, <2>1 DEF Fine, Leaving
  <2>3. Coming(pending.module) => Coming(pending.module)'
    BY <1>2, <2>1 DEF Coming, Enabling, Disabling
  <2> QED
    BY <1>2, <2>2, <2>3 DEF Calmly, Followed, Heralded
<1> QED
  BY <1>2, <1>4, <1>5, <1>6, <1>7, PublishedFollowed

\* What changes elsewhere, unannounced, ends the calm.
LEMMA ReconfigureFollowed ==
    ASSUME Calmly, NEW m, Reconfigure(m)
    PROVE  FALSE
<1>1. changes' = changes + 1 /\ events' = events
  BY DEF Reconfigure, Change
<1>2. changes' # changes
  BY <1>1, CalmlyTyped
<1> QED
  BY <1>1, <1>2 DEF Calmly, Watched

LEMMA FaultFollowed ==
    ASSUME Calmly, Fault
    PROVE  FALSE
BY CalmlyTyped DEF Fault

LEMMA CommitFollowed ==
    ASSUME Calmly, Commit
    PROVE  Followed'
<1>1. PICK p \in Modules : p = pending.module
  BY CalmlyTyped DEF Commit
<1>2. PICK on \in BOOLEAN : on = pending.on
  BY CalmlyTyped DEF Commit
<1>3. /\ pending # None /\ pending' = None
      /\ enabled' = IF on THEN enabled \cup {p} ELSE enabled \ {p}
      /\ UNCHANGED <<events, status, stack, checks>>
  BY <1>1, <1>2 DEF Commit, site, tasks, counts
<1>4. /\ \A n : Leaving(n)' <=> Leaving(n)
      /\ \A n : Coming(n)' <=> Coming(n)
      /\ \A n : Fine(n)' <=> Fine(n)
  BY <1>3 DEF Leaving, Coming, Fine, Enabling, Disabling
<1>5. ~Busy /\ (~on /\ p \in enabled => \A n \in enabled \ {p} : p \notin Deps[n])
  BY <1>1, <1>2, <1>3 DEF Calmly, OrchestratorInv, Announced
<1>6. Coroutines = {} /\ Coroutines' = {}
  BY <1>3, <1>5 DEF Busy, Coroutines, Held
<1>7. on => Coming(p) \/ (Fine(p) /\ p \in enabled)
  <2>1. on => Coming(p) \/ Fine(p)
    BY <1>1, <1>2, <1>3 DEF Calmly, Followed, Heralded
  <2>2. Fine(p) => p \in enabled
    BY DEF Calmly, OrchestratorInv, Good, Agrees, Fine
  <2> QED
    BY <2>1, <2>2
<1>8. ASSUME NEW d \in Modules
      PROVE  Sought(d)'
  <2> SUFFICES ASSUME d \in enabled'
               PROVE  /\ Leaving(d) => Coming(d)
                      /\ ~(Deps[d] \subseteq enabled') => status[d] = "blocked" \/ Own(d)'
                      /\ Eager(d)' => Fine(d) \/ Cause(d)'
    BY <1>3, <1>4 DEF Sought
  <2>1. /\ Coming(d) => Own(d)' /\ Cause(d)'
        /\ Own(d) => Own(d)'
        /\ Cause(d) => Cause(d)'
    BY <1>3, <1>4, <1>6 DEF Own, Cause, ComesFor
  <2>2. CASE d \notin enabled
    <3>1. d = p /\ on
      BY <1>3, <2>2
    <3>2. Coming(d)
      BY <1>7, <2>2, <3>1
    <3> QED
      BY <2>1, <3>2
  <2>3. CASE d \in enabled
    <3>1. ~Withdrawn(d) /\ Sought(d)
      BY <1>1, <1>2, <1>3 DEF Withdrawn, Calmly, Followed
    <3>2. WellSupplied(d)' => WellSupplied(d)
      BY <1>4 DEF WellSupplied, FineModules
    <3>3. CASE Deps[d] \subseteq enabled
      <4>1. Deps[d] \subseteq enabled'
        BY <1>3, <1>5, <2>3, <3>3
      <4>2. Eager(d)' => Eager(d)
        BY <2>3, <3>2, <3>3 DEF Eager, SuppliedWithin
      <4> QED
        BY <2>1, <2>3, <3>1, <4>1, <4>2 DEF Sought
    <3>4. CASE ~(Deps[d] \subseteq enabled)
      <4>1. status[d] = "blocked" \/ Own(d)
        BY <2>3, <3>1, <3>4 DEF Sought
      <4>2. ASSUME Eager(d)', status[d] = "blocked"
            PROVE  Cause(d)'
        <5>1. Deps[d] \subseteq enabled'
          BY <4>2 DEF Eager
        <5>2. on /\ p \in Deps[d] \ {d} /\ p \notin enabled
          BY <1>3, <2>3, <3>4, <5>1
        <5>3. Coming(p) /\ ~Fine(p)
          <6>1. Fine(p) => p \in enabled
            BY DEF Calmly, OrchestratorInv, Good, Agrees, Fine
          <6> QED
            BY <1>7, <5>2, <6>1
        <5>4. ComesFor(d)'
          BY <1>4, <5>2, <5>3 DEF ComesFor
        <5> QED
          BY <1>3, <4>2, <5>4 DEF Cause
      <4>3. Own(d) => Cause(d)'
        BY <2>1 DEF Cause
      <4> QED
        BY <2>1, <2>3, <3>1, <4>1, <4>2, <4>3 DEF Sought
    <3> QED
      BY <3>3, <3>4
  <2> QED
    BY <2>2, <2>3
<1>9. ASSUME NEW d \in Modules
      PROVE  Shed(d)'
  <2>1. Shed(d) /\ (Supplied(d)' <=> Supplied(d))
    BY <1>3 DEF Calmly, Followed, Supplied, Running
  <2> QED
    BY <1>3, <1>4, <1>6, <2>1 DEF Shed, SuppliedWithin
<1>10. Furnished'
  BY <1>3 DEF Calmly, Followed, Furnished, Furnishes, Top, Supplied, Running
<1>11. Heralded'
  BY <1>3 DEF Heralded
<1>12. \A f \in Coroutines' : Current(f)'
  BY <1>6
<1> QED
  BY <1>8, <1>9, <1>10, <1>11, <1>12 DEF Followed

-----------------------------------------------------------------------------
(* The listener.                                                           *)

\* A start that is under way will end.
LEMMA StartingAttended ==
    ASSUME Calmly, NEW m \in Modules, status[m] = "starting"
    PROVE  \E f \in Coroutines : Promises(f, m) /\ \A d : m \in Deps[d] \ {d} => Moves(f, d)
<1>1. Doing(m, {"starting", "launch", "register"})
  BY CalmlyTyped DEF Calmly, OrchestratorInv, Good, Attended
<1>2. PICK t \in Tasks : /\ stack[t] # <<>> /\ Top(t).module = m
                         /\ Top(t).stage \in {"starting", "launch", "register"}
  BY <1>1 DEF Doing
<1>3. Top(t) \in Frames /\ Top(t) \in Coroutines
  <2>1. stack[t] \in Stacks /\ stack[t] \in Seq(Frames)
    BY CalmlyTyped DEF Stacks
  <2>2. Top(t) = stack[t][1] /\ 1 \in 1 .. Len(stack[t])
    BY <1>2, <2>1, HeadTailProperties, LenProperties, EmptySeq DEF Top
  <2> QED
    BY <1>2, <2>1, <2>2, TopTyped DEF Top, Coroutines, Held
<1>4. Top(t).op = "start"
  BY <1>2, <1>3 DEF Frames, Shaped, StartStages
<1>5. Promises(Top(t), m) /\ \A d : m \in Deps[d] \ {d} => Moves(Top(t), d)
  BY <1>2, <1>4 DEF Promises, Moves
<1> QED
  BY <1>3, <1>5

LEMMA Occupied ==
    ASSUME NEW f \in Coroutines'
    PROVE  Busy'
BY DEF Coroutines, Held, Busy

\* What the listener does with an event about m.
Handles(e, m) ==
    /\ Coroutines \subseteq Coroutines'
    /\ \A f \in Coroutines' : f \in Coroutines \/ Current(f)
    /\ \A n \in Modules \ {m} : status'[n] = status[n]
    /\ \/ status'[m] = status[m]
       \/ status'[m] = "stopping" /\ StopOf(m) \in Coroutines' /\ e # Enabling(m)
    /\ e = [module |-> m, what |-> "restart"] => \E f \in Coroutines' : Promises(f, m)
    /\ e = Enabling(m) =>
          \/ status[m] = "running"
          \/ \E f \in Coroutines' : Promises(f, m) /\ \A d : m \in Deps[d] \ {d} => Moves(f, d)
    /\ e = Disabling(m) => status'[m] # "running"
    /\ checks = 0 => \A t \in Tasks : Furnishes(t)'

LEMMA HandlesFollowed ==
    ASSUME Calmly, NEW m \in Modules, events # <<>>, events' = Tail(events), Head(events) \in Events,
           Head(events).module = m, UNCHANGED <<enabled, pending, checks>>, Handles(Head(events), m)
    PROVE  Followed'
<1>1. PICK e \in Events : e = Head(events) /\ e.module = m /\ Handles(e, m)
  OBVIOUS
<1>2. e \in {Enabling(m), Disabling(m), [module |-> m, what |-> "restart"]}
  BY <1>1 DEF Events, Enabling, Disabling
<1>3. \A n : /\ Coming(n) => Coming(n)' \/ (e = Enabling(n) /\ ~Leaving(n))
             /\ Leaving(n)' => Leaving(n)
             /\ Leaving(n) => Leaving(n)' \/ e = Disabling(n)
  BY <1>1, CalmlyTyped, ComingTail
<1>4. \A n : /\ e = Enabling(n) => n = m
             /\ e = Disabling(n) => n = m
  BY <1>1 DEF Enabling, Disabling
<1>5. \A n \in Modules : Fine(n)' => Fine(n)
  BY <1>1, <1>3, <1>4 DEF Fine, Handles
<1>6. \A n \in Modules : (Withdrawn(n)' <=> Withdrawn(n)) /\ (Eager(n)' => Eager(n))
  BY <1>5, SuppliesKept DEF Withdrawn
<1>7. Coroutines \subseteq Coroutines'
  BY <1>1 DEF Handles
<1>8. enabled \subseteq Modules /\ \A n \in Modules : Deps[n] \subseteq Modules
  BY CalmlyTyped, OrchestratorAssumption
<1>9. ASSUME NEW d \in Modules
      PROVE  Sought(d)'
  <2> SUFFICES ASSUME d \in enabled, ~Withdrawn(d)
               PROVE  Sought(d)'
    BY <1>6 DEF Sought
  <2>1. Sought(d)
    BY DEF Calmly, Followed
  <2>2. Leaving(d)' => Coming(d)'
    BY <1>3, <2>1 DEF Sought
  <2>3. CASE Own(d)'
    BY <2>2, <2>3 DEF Sought, Cause
  <2>4. CASE status'[d] = "running"
    BY <2>2, <2>4, RunningSought DEF Calmly
  <2>5. CASE ~Own(d)' /\ status'[d] # "running"
    <3>1. ~Coming(d)' /\ \A f \in Coroutines' : ~Promises(f, d)
      BY <2>5 DEF Own
    <3>2. ~Coming(d)
      <4>1. SUFFICES ASSUME Coming(d), e = Enabling(d)
                     PROVE  FALSE
        BY <1>3, <3>1
      <4>2. d = m /\ status[d] = "running"
        BY <1>1, <1>4, <3>1, <4>1 DEF Handles
      <4> QED
        BY <1>1, <2>5, <4>1, <4>2 DEF Handles
    <3>3. ~Own(d)
      BY <1>7, <3>1, <3>2 DEF Own
    <3>4. e # Disabling(d)
      <4>1. SUFFICES ASSUME e = Disabling(d)
                     PROVE  Leaving(d)
        BY <2>1, <3>2 DEF Sought
      <4>2. events[1] = e /\ 1 \in 1 .. Len(events)
        BY <1>1, CalmlyTyped, HeadTailProperties, LenProperties, EmptySeq
      <4> QED
        BY <4>1, <4>2 DEF Leaving, Disabling
    <3>5. d # m
      <4>1. SUFFICES ASSUME d = m, e = Enabling(m)
                     PROVE  FALSE
        BY <1>1, <1>2, <3>1, <3>4 DEF Handles
      <4> QED
        BY <1>1, <2>5, <3>1, <4>1 DEF Handles
    <3>6. status'[d] = status[d]
      BY <1>1, <3>5 DEF Handles
    <3>7. ASSUME Eager(d)
          PROVE  Cause(d)'
      <4>1. Cause(d)
        BY <2>1, <2>5, <3>6, <3>7 DEF Sought, Fine
      <4>2. CASE \E f \in Coroutines : Tries(f, d)
        BY <1>7, <4>2 DEF Cause
      <4>3. CASE status[d] = "blocked" /\ \E f \in Coroutines : Moves(f, d)
        BY <1>7, <3>6, <4>3 DEF Cause
      <4>4. CASE status[d] = "blocked" /\ ComesFor(d)
        <5>1. PICK n \in Deps[d] \ {d} : n \in Modules /\ ~Fine(n) /\ Coming(n)
          BY <1>8, <4>4 DEF ComesFor
        <5>2. CASE Coming(n)'
          BY <1>5, <3>6, <4>4, <5>1, <5>2 DEF Cause, ComesFor
        <5>3. CASE e = Enabling(n) /\ ~Leaving(n)
          <6>1. n = m /\ status[n] # "running"
            BY <1>4, <5>1, <5>3 DEF Fine
          <6>2. \E f \in Coroutines' : Moves(f, d)
            BY <1>1, <5>1, <5>3, <6>1 DEF Handles
          <6> QED
            BY <3>6, <4>4, <6>2 DEF Cause
        <5> QED
          BY <1>3, <5>1, <5>2, <5>3
      <4> QED
        BY <3>3, <4>1, <4>2, <4>3, <4>4 DEF Cause
    <3> QED
      BY <1>6, <2>1, <2>2, <3>3, <3>6, <3>7 DEF Sought
  <2> QED
    BY <2>3, <2>4, <2>5
<1>10. ASSUME NEW d \in Modules
       PROVE  Shed(d)'
  <2> SUFFICES ASSUME checks = 0, Fine(d)', SuppliedWithin(d), ~Supplied(d)'
               PROVE  \E f \in Coroutines' : Sheds(f, d)
    BY DEF Shed, SuppliedWithin
  <2>1. CASE ~Supplied(d)
    BY <1>5, <1>7, <2>1 DEF Calmly, Followed, Shed
  <2>2. CASE Supplied(d)
    <3>1. PICK c \in Requires[d] : c \notin UNION {Provides[n] : n \in Running'}
      BY DEF Supplied
    <3>2. PICK n \in Running : c \in Provides[n]
      BY <2>2, <3>1 DEF Supplied
    <3>3. n \in Modules /\ status[n] = "running" /\ status'[n] # "running"
      BY <3>1, <3>2 DEF Running
    <3>4. n = m /\ StopOf(m) \in Coroutines'
      BY <1>1, <3>3 DEF Handles
    <3>5. n \notin Isolated /\ n # d
      BY <3>1, <3>2, <3>3 DEF SuppliedWithin, Fine
    <3>6. Sheds(StopOf(m), d)
      BY <3>1, <3>4, <3>5, StopSheds DEF Sheds, Concerns
    <3> QED
      BY <3>4, <3>6
  <2> QED
    BY <2>1, <2>2
<1>11. Furnished'
  BY <1>1 DEF Handles, Furnished
<1>12. Heralded'
  <2> SUFFICES ASSUME pending # None, pending.on
               PROVE  Coming(pending.module)' \/ Fine(pending.module)'
    BY DEF Heralded
  <2>1. PICK p \in Modules : p = pending.module
    BY CalmlyTyped
  <2>2. Coming(p) \/ Fine(p)
    BY <2>1 DEF Calmly, Followed, Heralded
  <2>3. Coroutines' = {}
    BY Occupied DEF Calmly, Watched
  <2>4. status'[p] = status[p]
    BY <1>1, <2>3 DEF Handles
  <2>5. Fine(p) => Fine(p)'
    BY <1>3, <2>4 DEF Fine
  <2>6. Coming(p) => Coming(p)' \/ Fine(p)'
    <3>1. ASSUME e = Enabling(p), ~Leaving(p)
          PROVE  Fine(p)'
      <4>1. p = m /\ status[p] = "running"
        BY <1>1, <1>4, <2>3, <3>1 DEF Handles
      <4> QED
        BY <1>3, <2>4, <3>1, <4>1 DEF Fine
    <3> QED
      BY <1>3, <3>1
  <2>7. Coming(p)' \/ Fine(p)'
    BY <2>2, <2>5, <2>6
  <2>8. (Coming(p)' <=> Coming(pending.module)') /\ (Fine(p)' <=> Fine(pending.module)')
    BY <2>1 DEF Coming, Fine, Leaving, Enabling, Disabling
  <2> QED
    BY <2>7, <2>8
<1>13. \A f \in Coroutines' : Current(f)'
  BY <1>1 DEF Handles, Current, Calmly, Followed
<1> QED
  BY <1>9, <1>10, <1>11, <1>12, <1>13 DEF Followed

LEMMA TwoInARow ==
    ASSUME NEW S, NEW f \in S, NEW g \in S
    PROVE  <<f, g>> = <<f>> \o <<g>>
<1>1. <<f>> \in Seq(S) /\ <<g>> \in Seq(S) /\ <<f, g>> \in Seq(S)
  OBVIOUS
<1>2. /\ <<f>> \o <<g>> \in Seq(S)
      /\ Len(<<f>> \o <<g>>) = Len(<<f>>) + Len(<<g>>)
      /\ \A i \in 1 .. Len(<<f>>) + Len(<<g>>) :
            (<<f>> \o <<g>>)[i] = IF i <= Len(<<f>>) THEN <<f>>[i] ELSE <<g>>[i - Len(<<f>>)]
  BY <1>1, ConcatProperties
<1>3. PICK s \in Seq(S) : s = <<f>> \o <<g>>
  BY <1>2
<1>4. Len(s) = 2 /\ s[1] = f /\ s[2] = g
  BY <1>2, <1>3
<1>5. s = <<f, g>>
  BY <1>1, <1>4, SeqEqual
<1> QED
  BY <1>3, <1>5

LEMMA HeldPair ==
    ASSUME NEW t \in Tasks, NEW f, NEW g, stack'[t] = <<f, g>>
    PROVE  Held(t)' = {f, g}
BY DEF Held

LEMMA RestartPromises ==
    ASSUME NEW m
    PROVE  /\ RestartOf(m).stage = "start"
           /\ Promises(RestartOf(m), m)
           /\ Current(RestartOf(m))
<1>1. RestartOf(m).op = "restart" /\ RestartOf(m).stage = "start" /\ RestartOf(m).module = m
  BY DEF RestartOf, Frame
<1> QED
  BY <1>1 DEF Promises, Current

LEMMA TakeEventFollowed ==
    ASSUME Calmly, TakeEvent
    PROVE  Followed'
<1>1. /\ stack \in [Tasks -> Stacks] /\ status \in [Modules -> States] /\ events \in Seq(Events)
      /\ "listener" \in Tasks /\ "lane" \in Tasks
  BY CalmlyTyped DEF Tasks
<1>2. events # <<>> /\ events' = Tail(events) /\ stack["listener"] = <<>>
  BY DEF TakeEvent
<1>3. PICK e \in Events : e = Head(events)
  BY <1>1, <1>2, HeadTailProperties
<1>4. PICK m \in Modules : m = e.module
  BY DEF Events
<1>5. PICK g, h, r : g = StopOf(m) /\ h = StartOf(m) /\ r = RestartOf(m)
  OBVIOUS
<1> DEFINE stops  == e.what \in {"disable", "restart"} /\ Stoppable(m)
           starts == e.what = "enable" /\ Startable(m)
<1>6. /\ stack' = [stack EXCEPT !["listener"] =
                      CASE stops  -> <<g>> \o (IF e.what = "restart" THEN <<r>> ELSE <<>>)
                        [] starts -> <<h>>
                        [] OTHER  -> IF e.what = "restart" THEN <<r>> ELSE <<>>]
      /\ IF stops THEN Marks(m, "stopping") ELSE UNCHANGED status
      /\ UNCHANGED <<enabled, pending, checks>>
  BY <1>3, <1>4, <1>5 DEF TakeEvent, counts
<1>7. /\ \A u \in Tasks \ {"listener"} : stack'[u] = stack[u]
      /\ stops /\ e.what = "disable" => stack'["listener"] = <<g>>
      /\ stops /\ e.what = "restart" => stack'["listener"] = <<g, r>>
      /\ starts => stack'["listener"] = <<h>>
      /\ ~stops /\ ~starts /\ e.what = "restart" => stack'["listener"] = <<r>>
      /\ ~stops /\ ~starts /\ e.what # "restart" => stack'["listener"] = <<>>
  <2>1. e.what = "disable" => ~starts /\ e.what # "restart"
    OBVIOUS
  <2>2. e.what = "restart" => ~starts
    OBVIOUS
  <2>3. starts => ~stops
    OBVIOUS
  <2>4. <<g>> \o <<r>> = <<g, r>>
    BY <1>5, TwoInARow, NewFramesTyped, WaitingAreFrames
  <2>5. <<g>> \o << >> = <<g>>
    BY ConcatEmptySeq
  <2> HIDE DEF stops, starts
  <2> QED
    BY <1>1, <1>6, <2>1, <2>2, <2>3, <2>4, <2>5
<1>8. e.what \in {"enable", "disable", "restart"}
  BY DEF Events
<1>9. /\ \A n \in Modules \ {m} : status'[n] = status[n]
      /\ stops => status'[m] = "stopping"
      /\ ~stops => status' = status
  <2>1. CASE stops
    BY <1>1, <1>6, <2>1, MarksStatus DEF States
  <2>2. CASE ~stops
    BY <1>6, <2>2
  <2> QED
    BY <2>1, <2>2
<1>10. Coroutines \subseteq Coroutines' /\ Coroutines' = Coroutines \cup Held("listener")'
  BY <1>1, <1>2, <1>7, Given
<1>11. /\ g.stage = "stopping" /\ Current(g)
       /\ h.stage = "read" /\ Current(h)
       /\ r.stage = "start" /\ Current(r) /\ Promises(r, m)
  BY <1>5, StopSheds, StartPromises, RestartPromises
<1>12. Promises(h, m) /\ \A d : m \in Deps[d] \ {d} => Moves(h, d)
  BY <1>5, StartPromises DEF Moves
<1>13. /\ stops => g \in Held("listener")'
       /\ e.what = "restart" => r \in Held("listener")'
       /\ starts => h \in Held("listener")'
       /\ Held("listener")' \subseteq {g, h, r}
  <2>1. /\ stack'["listener"] = <<g>> => Held("listener")' = {g}
        /\ stack'["listener"] = <<h>> => Held("listener")' = {h}
        /\ stack'["listener"] = <<r>> => Held("listener")' = {r}
        /\ stack'["listener"] = <<g, r>> => Held("listener")' = {g, r}
        /\ stack'["listener"] = <<>> => Held("listener")' = {}
    <3>1. stack'["listener"] = <<>> => Held("listener")' = {}
      BY DEF Held
    <3> QED
      BY <1>1, <3>1, HeldSingle, HeldPair
  <2>2. /\ e.what = "disable" => ~starts /\ e.what # "restart"
        /\ e.what = "restart" => ~starts
        /\ starts => ~stops /\ e.what # "restart"
        /\ stops => e.what \in {"disable", "restart"}
    OBVIOUS
  <2> HIDE DEF stops, starts
  <2>3. /\ stops /\ e.what = "disable" => Held("listener")' = {g}
        /\ stops /\ e.what = "restart" => Held("listener")' = {g, r}
        /\ starts => Held("listener")' = {h}
        /\ ~stops /\ ~starts /\ e.what = "restart" => Held("listener")' = {r}
        /\ ~stops /\ ~starts /\ e.what # "restart" => Held("listener")' = {}
    BY <1>7, <2>1, Zenon
  <2> QED
    BY <2>2, <2>3
<1>14. stack'["listener"] # <<>> => Head(stack'["listener"]) \in {g, h, r}
  BY <1>7, <1>8
<1> HIDE DEF stops, starts
<1>15. e = Disabling(m) => status'[m] # "running"
  <2>1. e = Disabling(m) /\ ~stops => status[m] \in {"stopped", "stopping"}
    BY DEF stops, Stoppable, Disabling
  <2> QED
    BY <1>9, <2>1
<1>16. ASSUME e = Enabling(m), status[m] # "running"
       PROVE  \E f \in Coroutines' : Promises(f, m) /\ \A d : m \in Deps[d] \ {d} => Moves(f, d)
  <2>1. CASE starts
    BY <1>10, <1>12, <1>13, <2>1
  <2>2. CASE ~starts
    <3>1. status[m] = "starting"
      BY <1>16, <2>2 DEF starts, Startable, Enabling
    <3> QED
      BY <1>10, <3>1, StartingAttended
  <2> QED
    BY <2>1, <2>2
<1>17. ASSUME checks = 0, NEW t \in Tasks
       PROVE  Furnishes(t)'
  <2>1. CASE t = "listener"
    <3>1. stack'[t] # <<>> => Top(t)'.stage \in {"stopping", "read", "start"}
      BY <1>11, <1>14, <2>1 DEF Top
    <3> QED
      BY <3>1 DEF Furnishes
  <2>2. CASE t = "lane" /\ stack'[t] # <<>>
    <3>1. stack'["listener"] = <<>>
      BY <2>2 DEF Calmly, Watched, Tasks
    <3>2. ~stops
      BY <1>7, <1>8, <3>1 DEF stops
    <3>3. status' = status /\ stack'[t] = stack[t]
      BY <1>7, <1>9, <2>2, <3>2
    <3>4. Furnishes(t)
      BY <1>17 DEF Calmly, Followed, Furnished
    <3> QED
      BY <3>3, <3>4 DEF Furnishes, Top, Supplied, Running
  <2>3. CASE stack'[t] = <<>>
    BY <2>3 DEF Furnishes
  <2> QED
    BY <2>1, <2>2, <2>3 DEF Tasks
<1>18. stops => e # Enabling(m)
  BY DEF stops, Enabling
<1>19. Handles(e, m)
  <2>1. \A f \in Coroutines' : f \in Coroutines \/ Current(f)
    BY <1>10, <1>11, <1>13
  <2>2. \/ status'[m] = status[m]
        \/ status'[m] = "stopping" /\ StopOf(m) \in Coroutines' /\ e # Enabling(m)
    BY <1>5, <1>9, <1>10, <1>13, <1>18
  <2>3. e = [module |-> m, what |-> "restart"] => \E f \in Coroutines' : Promises(f, m)
    <3>1. e = [module |-> m, what |-> "restart"] => e.what = "restart"
      OBVIOUS
    <3> QED
      BY <1>10, <1>11, <1>13, <3>1
  <2> QED
    BY <1>9, <1>10, <1>15, <1>16, <1>17, <2>1, <2>2, <2>3 DEF Handles
<1> QED
  BY <1>2, <1>3, <1>4, <1>6, <1>19, HandlesFollowed

-----------------------------------------------------------------------------
(* The theorems.                                                           *)

LEMMA InitFollowing == OrchestratorInit => Following
<1> SUFFICES ASSUME OrchestratorInit
             PROVE  Followed
  BY DEF Following
<1>1. /\ pending = None /\ events = <<>> /\ status = [m \in Modules |-> "stopped"]
      /\ stack = Booted
  BY DEF OrchestratorInit
<1>2. /\ SyncOf.op = "sync" /\ SyncOf.stage = "read"
      /\ Current(SyncOf) /\ \A d : Promises(SyncOf, d)
  <2>1. SyncOf.op = "sync" /\ SyncOf.stage = "read"
    BY DEF SyncOf, Frame
  <2> QED
    BY <2>1 DEF Current, Promises
<1>3. stack["lane"] = <<SyncOf>> /\ stack["listener"] = <<>>
  BY <1>1 DEF Booted, Tasks
<1>4. Coroutines = {SyncOf}
  <2>1. PICK f : f = SyncOf
    OBVIOUS
  <2>2. Held("lane") = {f} /\ Held("listener") = {}
    BY <1>3, <2>1 DEF Held
  <2> QED
    BY <2>1, <2>2 DEF Coroutines, Tasks
<1>5. \A d : ~Leaving(d) /\ Own(d)
  BY <1>1, <1>2, <1>4 DEF Leaving, Own
<1>6. \A d \in Modules : Sought(d) /\ Shed(d)
  BY <1>1, <1>5 DEF Sought, Cause, Shed, Fine
<1>7. Furnished
  <2>1. \A t \in Tasks : stack[t] # <<>> => Top(t) = SyncOf
    BY <1>3 DEF Top, Tasks
  <2> QED
    BY <1>2, <2>1 DEF Furnished, Furnishes
<1>8. Heralded
  BY <1>1 DEF Heralded
<1> QED
  BY <1>2, <1>4, <1>6, <1>7, <1>8 DEF Followed

\* A step of a task from one of its awaits to the next.
LEMMA ContinueSteps ==
    ASSUME NEW t, Continue(t)
    PROVE  stack[t] # <<>> /\ Steps
BY DEF Continue, At, ReadEnabled, DecideStart, Refused, Blocked, Starting, Launch, LaunchBlocked,
       Register, Started, Reviewed, Failed, Stopping, Halt, Stopped, Review, Marked, DecideSync,
       SyncStops, SyncStarts, Restart, EndCheck

LEMMA NextFollowing ==
    OrchestratorInv /\ OrchestratorInv' /\ Following /\ [OrchestratorNext]_vars => Following'
<1> SUFFICES ASSUME OrchestratorInv, OrchestratorInv', Following, [OrchestratorNext]_vars, calm'
             PROVE  Followed'
  BY DEF Following
<1>1. CASE UNCHANGED vars
  <2>1. UNCHANGED <<enabled, pending, events, status, stack, checks, calm>>
    BY <1>1 DEF vars, world, site, tasks, counts
  <2>2. Followed
    BY <2>1 DEF Following
  <2>3. Coroutines' = Coroutines
    BY <2>1 DEF Coroutines, Held
  <2>4. /\ \A n : (Leaving(n)' <=> Leaving(n)) /\ (Coming(n)' <=> Coming(n))
        /\ \A n : (Fine(n)' <=> Fine(n)) /\ (Withdrawn(n)' <=> Withdrawn(n))
    BY <2>1 DEF Leaving, Coming, Fine, Withdrawn, Enabling, Disabling
  <2>5. \A d \in Modules : Sought(d)'
    <3>1. \A d : (Own(d)' <=> Own(d)) /\ (ComesFor(d)' <=> ComesFor(d))
      BY <2>3, <2>4 DEF Own, ComesFor
    <3>2. \A d : Eager(d)' <=> Eager(d)
      BY <2>1, <2>4 DEF Eager, WellSupplied, FineModules, SuppliedWithin
    <3>3. \A d : Cause(d)' <=> Cause(d)
      BY <2>1, <2>3, <3>1 DEF Cause
    <3> QED
      BY <2>1, <2>2, <2>4, <3>1, <3>2, <3>3 DEF Followed, Sought
  <2>6. \A d \in Modules : Shed(d)'
    BY <2>1, <2>2, <2>3, <2>4 DEF Followed, Shed, Supplied, SuppliedWithin, Running
  <2>7. Furnished'
    BY <2>1, <2>2 DEF Followed, Furnished, Furnishes, Top, Supplied, Running
  <2>8. Heralded'
    BY <2>1, <2>2, <2>4 DEF Followed, Heralded
  <2>9. \A f \in Coroutines' : Current(f)'
    BY <2>1, <2>2, <2>3 DEF Followed, Current
  <2> QED
    BY <2>5, <2>6, <2>7, <2>8, <2>9 DEF Followed
<1>2. CASE OrchestratorNext
  <2>1. Watched
    BY <1>2 DEF OrchestratorNext, LaneTurn, ListenerTurn
  <2>2. Calmly
    BY <2>1 DEF Calmly, Watched, Following
  <2>3. CASE LaneTurn \/ ListenerTurn
    <3>1. EndSetup \/ Reconcile \/ BeginCheck \/ TakeEvent \/ \E t \in Tasks : Continue(t)
      BY <2>3 DEF LaneTurn, ListenerTurn, Lane, Listener, Tasks
    <3>2. ASSUME NEW t \in Tasks, Continue(t)
          PROVE  Followed'
      <4>1. Working(t)
        BY <2>2, <3>2, ContinueSteps DEF Calmly, Working
      <4> QED
        BY <3>2, <4>1, ContinueFollowed
    <3> QED
      BY <2>2, <3>1, <3>2, EndSetupFollowed, ReconcileFollowed, BeginCheckFollowed,
         TakeEventFollowed
  <2>4. ASSUME NEW m \in Modules,
               \/ \E on \in BOOLEAN : SetEnabled(m, on)
               \/ Apply(m) \/ Reconfigure(m) \/ Expire(m)
        PROVE  Followed'
    BY <2>2, <2>4, SetEnabledFollowed, ApplyFollowed, ReconfigureFollowed, ExpireFollowed
  <2>5. CASE Commit
    BY <2>2, <2>5, CommitFollowed
  <2>6. CASE Crash \/ Flush \/ \E t \in Tasks : Raises(t) \/ LaunchFails(t)
    <3>1. Fault
      BY <2>6 DEF Crash, Flush, Raises, LaunchFails
    <3> QED
      BY <2>2, <3>1, FaultFollowed
  <2> QED
    BY <1>2, <2>3, <2>4, <2>5, <2>6 DEF OrchestratorNext
<1> QED
  BY <1>1, <1>2

\* In a calm site, whatever interleaving of requests, events, starts, stops, reviews
\* and checks led there, each enabled module that is supplied runs or has something on
\* its way that starts it, and each running one that is not has something that stops
\* it (start_module, stop_module, _reevaluate_dependents, sync_site).
THEOREM FollowingHolds == OrchestratorSpec => [](OrchestratorInv /\ Following)
<1>1. OrchestratorInit => OrchestratorInv /\ Following
  BY InitInv, InitFollowing
<1>2. OrchestratorInv /\ Following /\ [OrchestratorNext]_vars => (OrchestratorInv /\ Following)'
  BY NextInv, NextFollowing
<1> QED
  BY <1>1, <1>2, PTL DEF OrchestratorSpec

\* Once an event is dealt with in a calm site, every module that is enabled and has
\* what it requires runs, the dependents that _reevaluate_dependents has to start or
\* to stop included, and no other one does.
THEOREM EventsAreFollowed == OrchestratorSpec => []FollowsEvents
<1>1. ASSUME OrchestratorInv, Following, calm, AtRest
      PROVE  /\ Running \subseteq {m \in enabled : Deps[m] \subseteq enabled}
             /\ \A m \in enabled :
                 SuppliedWithin(m) /\ Deps[m] \subseteq enabled /\ Supplied(m) => m \in Running
             /\ checks = 0 => \A m \in Running : SuppliedWithin(m) => Supplied(m)
  <2>1. /\ pending = None /\ events = <<>> /\ Coroutines = {}
        /\ enabled \subseteq Modules
    BY <1>1 DEF AtRest, Busy, Coroutines, Held, OrchestratorInv, Typed
  <2>2. \A n : ~Leaving(n) /\ ~Coming(n) /\ ~Withdrawn(n)
    BY <2>1 DEF Leaving, Coming, Withdrawn
  <2>3. FineModules = Running /\ \A n \in Modules : Fine(n) <=> n \in Running
    BY <2>2 DEF FineModules, Fine, Running
  <2>4. \A d : ~Cause(d)
    BY <2>1, <2>2 DEF Cause, Own, ComesFor
  <2>5. Running \subseteq {m \in enabled : Deps[m] \subseteq enabled}
    BY <1>1, <2>2 DEF OrchestratorInv, Good, Agrees, Running
  <2>6. ASSUME NEW m \in enabled, SuppliedWithin(m), Deps[m] \subseteq enabled, Supplied(m)
        PROVE  m \in Running
    <3>1. Sought(m)
      BY <1>1, <2>1, <2>6 DEF Following, Followed
    <3>2. Eager(m)
      BY <2>3, <2>6 DEF Eager, WellSupplied, Supplied
    <3> QED
      BY <2>1, <2>2, <2>3, <2>4, <3>1, <3>2 DEF Sought
  <2>7. ASSUME checks = 0, NEW m \in Running, SuppliedWithin(m)
        PROVE  Supplied(m)
    <3>1. m \in Modules /\ Shed(m)
      BY <1>1, <2>7 DEF Running, Following, Followed
    <3> QED
      BY <2>1, <2>3, <2>7, <3>1 DEF Shed
  <2> QED
    BY <2>5, <2>6, <2>7
<1>2. OrchestratorInv /\ Following => FollowsEvents
  BY <1>1 DEF FollowsEvents
<1> QED
  BY <1>2, FollowingHolds, PTL
=============================================================================
