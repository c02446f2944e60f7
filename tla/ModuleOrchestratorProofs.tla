---------------------- MODULE ModuleOrchestratorProofs ----------------------
(***************************************************************************)
(* The safety properties of ModuleOrchestrator, for all modules, whatever  *)
(* they depend on, require and provide, and for behaviours of any length.  *)
(***************************************************************************)
EXTENDS ModuleOrchestrator, SequenceTheorems, WellFoundedInduction, TLAPS

-----------------------------------------------------------------------------
(* The types.                                                              *)

StartStages == {"refused", "blocked", "starting", "launch", "launchBlocked",
                "register", "running", "reviewed", "failed"}
StopStages  == {"stopping", "halt", "stopped"}
Stages      == {"read", "decide", "mark", "loop", "stops", "starts", "start", "check"}
                   \cup StartStages \cup StopStages

\* Where a coroutine waits for the one that it has called.
Resumes == {"reviewed", "loop", "stops", "starts", "start"}

FrameType ==
    [op: {"start", "stop", "mark", "review", "sync", "check", "restart"},
     module: Modules \cup {None}, stage: Stages, try: BOOLEAN,
     mods: SUBSET Modules, todo: SUBSET Modules]

\* What the stage of a coroutine says of its name, and its name of its module.
Shaped(f) ==
    /\ f.stage \in {"read", "decide"} => f.op \in {"start", "review", "sync"}
    /\ f.stage \in StartStages => f.op = "start"
    /\ f.stage \in StopStages => f.op = "stop"
    /\ f.stage = "mark" => f.op = "mark"
    /\ f.stage = "loop" => f.op = "review"
    /\ f.stage \in {"stops", "starts"} => f.op = "sync"
    /\ f.stage = "start" => f.op = "restart"
    /\ f.stage = "check" => f.op = "check"
    /\ f.op \in {"start", "stop", "mark", "review", "restart"} => f.module \in Modules

Frames  == {f \in FrameType : Shaped(f)}
Waiting == {f \in Frames : f.stage \in Resumes}
Stacks  == {s \in Seq(Frames) : s = <<>> \/ Tail(s) \in Seq(Waiting)}

\* The modules whose last published state is that they run.
Published == shown \cup lapsed

Events == [module: Modules, what: {"enable", "disable", "restart"}]

Typed ==
    /\ enabled \subseteq Modules
    /\ pending = None \/ (pending.module \in Modules /\ pending.on \in BOOLEAN)
    /\ events \in Seq(Events)
    /\ status \in [Modules -> States]
    /\ providers \subseteq Suppliers
    /\ Published \subseteq Modules
    /\ stack \in [Tasks -> Stacks]
    /\ listening \in BOOLEAN /\ booting \in BOOLEAN
    /\ ~listening => events = <<>> /\ stack["listener"] = <<>>
    /\ booting => ~listening
    /\ changes \in 0 .. MaxChanges /\ checks \in 0 .. MaxChecks
    /\ faults \in 0 .. MaxFaults /\ calm \in BOOLEAN

-----------------------------------------------------------------------------
(* The stacks.                                                             *)

LEMMA WaitingAreFrames == Waiting \subseteq Frames /\ Seq(Waiting) \subseteq Seq(Frames)
<1>1. Waiting \subseteq Frames
  BY DEF Waiting
<1>2. ASSUME NEW s \in Seq(Waiting)
      PROVE  s \in Seq(Frames)
  BY <1>1, SeqMonotonic
<1> QED
  BY <1>1, <1>2

LEMMA PushTyped ==
    ASSUME NEW f \in Frames, NEW s \in Seq(Waiting)
    PROVE  /\ <<f>> \o s \in Stacks
           /\ <<f>> \o s # <<>>
           /\ Head(<<f>> \o s) = f
           /\ Tail(<<f>> \o s) = s
<1> DEFINE p == <<f>> \o s
<1>1. s \in Seq(Frames) /\ <<f>> \in Seq(Frames)
  BY WaitingAreFrames
<1>2. /\ p \in Seq(Frames) /\ Len(p) = 1 + Len(s)
      /\ \A i \in 1 .. 1 + Len(s) : p[i] = IF i <= 1 THEN f ELSE s[i - 1]
  BY <1>1, ConcatProperties
<1>3. Len(s) \in Nat
  BY <1>1, LenProperties
<1>4. p # <<>> /\ p[1] = f
  BY <1>2, <1>3, EmptySeq
<1>5. /\ Head(p) = p[1] /\ Tail(p) \in Seq(Frames) /\ Len(Tail(p)) = Len(s)
      /\ \A i \in 1 .. Len(Tail(p)) : Tail(p)[i] = p[i + 1]
  BY <1>2, <1>3, <1>4, HeadTailProperties
<1>6. \A i \in 1 .. Len(s) : Tail(p)[i] = s[i]
  BY <1>2, <1>3, <1>5
<1>7. Tail(p) = s
  BY <1>1, <1>5, <1>6, SeqEqual
<1> QED
  BY <1>2, <1>4, <1>5, <1>7 DEF Stacks

LEMMA PushTwoTyped ==
    ASSUME NEW f \in Waiting, NEW g \in Frames, NEW s \in Seq(Waiting)
    PROVE  /\ <<g, f>> \o s = <<g>> \o (<<f>> \o s)
           /\ <<f>> \o s \in Seq(Waiting)
<1>1. <<f>> \o s \in Seq(Waiting)
  BY ConcatProperties
<1>2. f \in Frames /\ s \in Seq(Frames) /\ <<f>> \in Seq(Frames) /\ <<g>> \in Seq(Frames)
  BY WaitingAreFrames
<1>3. <<g, f>> = <<g>> \o <<f>>
  OBVIOUS
<1>4. (<<g>> \o <<f>>) \o s = <<g>> \o (<<f>> \o s)
  BY <1>2, ConcatAssociative
<1> QED
  BY <1>1, <1>3, <1>4

LEMMA TopTyped ==
    ASSUME NEW s \in Stacks, s # <<>>
    PROVE  /\ Head(s) \in Frames
           /\ Tail(s) \in Seq(Waiting) /\ Tail(s) \in Stacks
           /\ Tail(s) # <<>> => Head(Tail(s)) \in Waiting
<1>1. Head(s) \in Frames /\ Tail(s) \in Seq(Waiting)
  BY HeadTailProperties DEF Stacks
<1>2. Tail(s) \in Stacks
  <2>1. Tail(s) \in Seq(Frames)
    BY <1>1, WaitingAreFrames
  <2>2. Tail(s) # <<>> => Tail(Tail(s)) \in Seq(Waiting)
    BY <1>1, HeadTailProperties
  <2> QED
    BY <2>1, <2>2 DEF Stacks
<1>3. Tail(s) # <<>> => Head(Tail(s)) \in Waiting
  BY <1>1, HeadTailProperties
<1> QED
  BY <1>1, <1>2, <1>3

\* The task t is in the coroutine f, called by those of s.
Enters(t, f, s) ==
    /\ stack' \in [Tasks -> Stacks]
    /\ \A u \in Tasks \ {t} : stack'[u] = stack[u]
    /\ stack'[t] # <<>>
    /\ Head(stack'[t]) = f
    /\ Tail(stack'[t]) = s

\* The task t is back where its innermost coroutine was called.
Leaves(t) ==
    /\ stack' \in [Tasks -> Stacks]
    /\ \A u \in Tasks \ {t} : stack'[u] = stack[u]
    /\ stack'[t] = Tail(stack[t])
    /\ stack'[t] # <<>> => Head(stack'[t]) \in Waiting

LEMMA EntersStack ==
    ASSUME stack \in [Tasks -> Stacks], NEW t \in Tasks, NEW f \in Frames,
           NEW s \in Seq(Waiting), stack' = [stack EXCEPT ![t] = <<f>> \o s]
    PROVE  Enters(t, f, s)
BY PushTyped DEF Enters

LEMMA BecomesEnters ==
    ASSUME stack \in [Tasks -> Stacks], NEW t \in Tasks, stack[t] # <<>>,
           NEW f \in Frames, Becomes(t, f)
    PROVE  Enters(t, f, Tail(stack[t]))
<1>1. Tail(stack[t]) \in Seq(Waiting)
  BY TopTyped
<1>2. stack' = [stack EXCEPT ![t] = <<f>> \o Tail(stack[t])]
  BY DEF Becomes
<1> QED
  BY <1>1, <1>2, EntersStack

LEMMA CallsEnters ==
    ASSUME stack \in [Tasks -> Stacks], NEW t \in Tasks, stack[t] # <<>>,
           NEW f \in Waiting, NEW g \in Frames, Calls(t, f, g)
    PROVE  Enters(t, g, <<f>> \o Tail(stack[t]))
<1>1. Tail(stack[t]) \in Seq(Waiting)
  BY TopTyped
<1>2. /\ <<g, f>> \o Tail(stack[t]) = <<g>> \o (<<f>> \o Tail(stack[t]))
      /\ <<f>> \o Tail(stack[t]) \in Seq(Waiting)
  BY <1>1, PushTwoTyped
<1>3. stack' = [stack EXCEPT ![t] = <<g>> \o (<<f>> \o Tail(stack[t]))]
  BY <1>2 DEF Calls
<1> QED
  BY <1>2, <1>3, EntersStack

LEMMA ReturnsLeaves ==
    ASSUME stack \in [Tasks -> Stacks], NEW t \in Tasks, stack[t] # <<>>, Returns(t)
    PROVE  Leaves(t)
BY TopTyped DEF Returns, Leaves

\* The frames that a coroutine is called with.
LEMMA NewFramesTyped ==
    /\ \A m \in Modules : /\ StartOf(m) \in Frames
                          /\ StopOf(m) \in Frames
                          /\ MarkOf(m) \in Frames
                          /\ RestartOf(m) \in Waiting
    /\ \A m \in Modules, try \in BOOLEAN : ReviewOf(m, try) \in Frames
    /\ SyncOf \in Frames
    /\ \A mods \in SUBSET Modules : CheckOf(mods) \in Frames
<1>1. ASSUME NEW m \in Modules
      PROVE  StartOf(m) \in FrameType /\ Shaped(StartOf(m))
  BY DEF Frame, FrameType, Shaped, Stages, StartStages, StopStages, StartOf
<1>2. ASSUME NEW m \in Modules
      PROVE  StopOf(m) \in FrameType /\ Shaped(StopOf(m))
  BY DEF Frame, FrameType, Shaped, Stages, StartStages, StopStages, StopOf
<1>3. ASSUME NEW m \in Modules
      PROVE  MarkOf(m) \in FrameType /\ Shaped(MarkOf(m))
  BY DEF Frame, FrameType, Shaped, Stages, StartStages, StopStages, MarkOf
<1>4. ASSUME NEW m \in Modules
      PROVE  RestartOf(m) \in FrameType /\ Shaped(RestartOf(m)) /\ RestartOf(m).stage = "start"
  BY DEF Frame, FrameType, Shaped, Stages, StartStages, StopStages, RestartOf
<1>5. ASSUME NEW m \in Modules, NEW try \in BOOLEAN
      PROVE  ReviewOf(m, try) \in FrameType /\ Shaped(ReviewOf(m, try))
  BY DEF Frame, FrameType, Shaped, Stages, StartStages, StopStages, ReviewOf
<1>6. SyncOf \in FrameType /\ Shaped(SyncOf)
  BY DEF SyncOf, Frame, FrameType, Shaped, Stages, StartStages, StopStages
<1>7. \A mods \in SUBSET Modules : CheckOf(mods) \in FrameType /\ Shaped(CheckOf(mods))
  BY DEF CheckOf, Frame, FrameType, Shaped, Stages, StartStages, StopStages
<1> QED
  BY <1>1, <1>2, <1>3, <1>4, <1>5, <1>6, <1>7 DEF Frames, Waiting, Resumes

\* What is in a frame that a task is in.
LEMMA AtTyped ==
    ASSUME stack \in [Tasks -> Stacks], NEW t \in Tasks, NEW stage, At(t, stage)
    PROVE  /\ stack[t] # <<>>
           /\ Top(t) \in Frames /\ Top(t) \in FrameType /\ Shaped(Top(t))
           /\ Top(t).stage = stage
BY TopTyped DEF At, Top, Frames

\* A coroutine at another of its awaits.
LEMMA GoesEnters ==
    ASSUME stack \in [Tasks -> Stacks], NEW t \in Tasks, stack[t] # <<>>,
           NEW stage \in StartStages \cup StopStages, Goes(t, stage),
           stage \in StartStages => Top(t).op = "start",
           stage \in StopStages => Top(t).op = "stop"
    PROVE  /\ Enters(t, [Top(t) EXCEPT !.stage = stage, !.mods = {}], Tail(stack[t]))
           /\ Head(stack'[t]).stage = stage
           /\ Head(stack'[t]).op = Top(t).op
           /\ Head(stack'[t]).module = Top(t).module
<1> DEFINE f == [Top(t) EXCEPT !.stage = stage, !.mods = {}]
<1>1. Top(t) \in FrameType /\ Shaped(Top(t))
  BY TopTyped DEF Top, Frames
<1>2. /\ f \in FrameType
      /\ f.stage = stage /\ f.op = Top(t).op /\ f.module = Top(t).module
  BY <1>1 DEF FrameType, Stages
<1>3. Shaped(f)
  BY <1>1, <1>2 DEF Shaped, StartStages, StopStages
<1>4. f \in Frames
  BY <1>2, <1>3 DEF Frames
<1> HIDE DEF f
<1>5. Enters(t, f, Tail(stack[t]))
  BY <1>4, BecomesEnters DEF Goes, f
<1> QED
  BY <1>2, <1>5 DEF Enters, f

-----------------------------------------------------------------------------
(* The invariant.                                                          *)

\* Some task is in a coroutine about m, at one of the stages.
Doing(m, stages) ==
    \E t \in Tasks : stack[t] # <<>> /\ Top(t).module = m /\ Top(t).stage \in stages

\* Some task is in a check that will register the capabilities of m.
Checking(m) ==
    \E t \in Tasks : stack[t] # <<>> /\ Top(t).stage = "check" /\ m \in Top(t).mods

\* An event is on its way that stops m.
Leaving(m) == \E i \in 1 .. Len(events) : events[i] = [module |-> m, what |-> "disable"]

\* The awaits at which a coroutine publishes the state of its module.
Emitting == {"refused", "blocked", "starting", "launchBlocked", "running", "failed",
             "stopping", "stopped", "mark"}

\* A start or a stop that is under way has a coroutine that ends it.
Attended(m) ==
    faults = 0 =>
        /\ status[m] = "starting" => Doing(m, {"starting", "launch", "register"})
        /\ status[m] = "stopping" => Doing(m, {"stopping", "halt"})

\* In a calm site what was published last, the capabilities and the database are as
\* the state of m says, or a coroutine, a check or an event is there that corrects it.
Agrees(m) ==
    /\ (m \in Published <=> status[m] = "running") \/ Doing(m, Emitting)
    /\ m \in Suppliers /\ status[m] = "running" /\ ~Leaving(m) =>
        m \in providers \/ Checking(m)
    /\ checks = 0 /\ m \in providers =>
        status[m] = "running" \/ Doing(m, {"blocked", "failed", "stopping", "halt"})
    /\ status[m] = "running" /\ ~Leaving(m) => m \in enabled /\ Deps[m] \subseteq enabled

Good(m) == Attended(m) /\ (calm => Agrees(m))

\* What a coroutine of a calm site knows at its await.
Knows(f) ==
    /\ f.op = "start" /\ f.stage \in {"read", "decide"} => Startable(f.module)
    /\ f.stage \in {"decide", "check"} => f.mods = enabled
    /\ f.stage = "check" => checks # 0
    /\ f.stage \in {"starting", "launch", "register"} =>
        /\ status[f.module] = "starting"
        /\ f.module \in enabled /\ Deps[f.module] \subseteq enabled
    /\ f.stage = "running" => status[f.module] = "running"
    /\ f.stage \in {"refused", "stopped"} => status[f.module] = "stopped"
    /\ f.stage \in {"blocked", "launchBlocked", "mark"} => status[f.module] = "blocked"
    /\ f.stage = "failed" => status[f.module] = "failed"
    /\ f.stage \in {"stopping", "halt"} => status[f.module] = "stopping"

Knowing == calm => \A t \in Tasks : stack[t] # <<>> => Knows(Top(t))

Alone == calm => \E t \in Tasks : stack[t] = <<>>

\* A change that is not committed is announced, and nobody needs what it disables.
Announced ==
    calm /\ pending # None =>
        /\ ~Busy
        /\ ~pending.on =>
            /\ status[pending.module] = "running" => Leaving(pending.module)
            /\ pending.module \in enabled =>
                \A n \in enabled \ {pending.module} : pending.module \notin Deps[n]

OrchestratorInv ==
    /\ Typed
    /\ \A m \in Modules : Good(m)
    /\ Knowing
    /\ Alone
    /\ Announced
    /\ calm => faults = 0

-----------------------------------------------------------------------------
(* One step of a task.                                                     *)

\* The stages at which a coroutine accounts for no module.
Quiet == {"read", "decide", "loop", "stops", "starts", "start", "reviewed"}

\* The task t makes a step that changes nothing but what concerns m.
Kept(t, m) ==
    /\ Steps
    /\ stack[t] # <<>>
    /\ Top(t).stage \in Quiet \/ (Top(t).module = m /\ Top(t).stage # "check")
    /\ stack' \in [Tasks -> Stacks]
    /\ \A u \in Tasks \ {t} : stack'[u] = stack[u]
    /\ status' \in [Modules -> States] /\ providers' \subseteq Suppliers /\ Published' \subseteq Modules
    /\ \A n \in Modules \ {m} : /\ status'[n] = status[n]
                                /\ n \in Published' <=> n \in Published
                                /\ n \in providers' <=> n \in providers

\* What the task t knows after its step.
KnowsNext(t) == calm' => stack'[t] = <<>> \/ Knows(Top(t))'

LEMMA DoingKept ==
    ASSUME NEW t \in Tasks, \A u \in Tasks \ {t} : stack'[u] = stack[u],
           NEW n, NEW stages, Doing(n, stages),
           stack[t] # <<>> => Top(t).module # n \/ Top(t).stage \notin stages
    PROVE  Doing(n, stages)'
BY DEF Doing, Top

LEMMA CheckingKept ==
    ASSUME NEW t \in Tasks, \A u \in Tasks \ {t} : stack'[u] = stack[u],
           NEW n, Checking(n), stack[t] # <<>> => Top(t).stage # "check"
    PROVE  Checking(n)'
BY DEF Checking, Top

LEMMA DoingNext ==
    ASSUME NEW t \in Tasks, NEW n, NEW stages, stack'[t] # <<>>,
           Head(stack'[t]).module = n, Head(stack'[t]).stage \in stages
    PROVE  Doing(n, stages)'
BY DEF Doing, Top

LEMMA KeptGood ==
    ASSUME NEW t \in Tasks, NEW m, Kept(t, m), calm' => calm,
           NEW n \in Modules \ {m}, Good(n)
    PROVE  Good(n)'
<1>1. /\ status'[n] = status[n]
      /\ n \in Published' <=> n \in Published
      /\ n \in providers' <=> n \in providers
      /\ enabled' = enabled /\ events' = events /\ faults' = faults /\ checks' = checks
      /\ Leaving(n)' <=> Leaving(n)
  BY DEF Kept, Steps, world, counts, Leaving
<1>2. \A u \in Tasks \ {t} : stack'[u] = stack[u]
  BY DEF Kept
<1>3. /\ Doing(n, {"starting", "launch", "register"}) => Doing(n, {"starting", "launch", "register"})'
      /\ Doing(n, {"stopping", "halt"}) => Doing(n, {"stopping", "halt"})'
      /\ Doing(n, Emitting) => Doing(n, Emitting)'
      /\ Doing(n, {"blocked", "failed", "stopping", "halt"})
            => Doing(n, {"blocked", "failed", "stopping", "halt"})'
  BY <1>2, DoingKept DEF Kept, Quiet, Emitting
<1>4. Checking(n) => Checking(n)'
  BY <1>2, CheckingKept DEF Kept, Quiet
<1>5. Attended(n)'
  BY <1>1, <1>3 DEF Good, Attended
<1>6. calm' => Agrees(n)'
  BY <1>1, <1>3, <1>4 DEF Good, Agrees
<1> QED
  BY <1>5, <1>6 DEF Good

\* In a calm site, the task t is the only one.
LEMMA CalmTop ==
    ASSUME OrchestratorInv, calm, NEW t \in Tasks, stack[t] # <<>>
    PROVE  /\ Knows(Top(t))
           /\ \A u \in Tasks \ {t} : stack[u] = <<>>
           /\ pending = None
           /\ faults = 0
           /\ \A n, stages : Doing(n, stages) => Top(t).module = n /\ Top(t).stage \in stages
           /\ \A n : Checking(n) => Top(t).stage = "check" /\ n \in Top(t).mods
<1>1. Knows(Top(t)) /\ pending = None /\ faults = 0
  BY DEF OrchestratorInv, Knowing, Announced, Busy
<1>2. \A u \in Tasks \ {t} : stack[u] = <<>>
  BY DEF OrchestratorInv, Alone, Tasks
<1> QED
  BY <1>1, <1>2 DEF Doing, Checking

\* A step that keeps all but m keeps the invariant, if it does so for m.
LEMMA KeptInv ==
    ASSUME OrchestratorInv, Watched, NEW t \in Tasks, NEW m, Kept(t, m),
           m \in Modules => Good(m)', KnowsNext(t)
    PROVE  OrchestratorInv'
<1>1. /\ calm' \in BOOLEAN /\ (calm' => calm) /\ (calm' => faults' = 0)
      /\ calm' => \E u \in Tasks : stack'[u] = <<>>
  BY DEF Watched, OrchestratorInv, Typed
<1>2. Typed'
  <2>1. /\ UNCHANGED <<enabled, pending, events, listening, booting, changes, checks, faults>>
        /\ stack' \in [Tasks -> Stacks]
        /\ status' \in [Modules -> States] /\ providers' \subseteq Suppliers /\ Published' \subseteq Modules
    BY DEF Kept, Steps, world, counts
  <2>2. Typed
    BY DEF OrchestratorInv
  <2>3. ~listening => stack'["listener"] = <<>>
    BY <2>2 DEF Kept, Typed, Tasks
  <2> QED
    BY <1>1, <2>1, <2>2, <2>3 DEF Typed
<1>3. \A n \in Modules : Good(n)'
  BY <1>1, KeptGood DEF OrchestratorInv
<1>4. ASSUME calm'
      PROVE  pending' = None /\ \A u \in Tasks : stack'[u] # <<>> => Knows(Top(u))'
  <2>1. calm /\ stack[t] # <<>> /\ pending' = pending /\ \A u \in Tasks \ {t} : stack'[u] = stack[u]
    BY <1>1, <1>4 DEF Kept, Steps, world
  <2>2. pending = None /\ \A u \in Tasks \ {t} : stack[u] = <<>>
    BY <2>1, CalmTop
  <2> QED
    BY <1>4, <2>1, <2>2 DEF KnowsNext
<1>5. Knowing' /\ Alone' /\ Announced'
  BY <1>1, <1>4 DEF Knowing, Alone, Announced
<1> QED
  BY <1>1, <1>2, <1>3, <1>5 DEF OrchestratorInv

-----------------------------------------------------------------------------
(* The steps of a task, one lemma each.                                    *)

LEMMA MarksStatus ==
    ASSUME status \in [Modules -> States], NEW m \in Modules, NEW state \in States, Marks(m, state)
    PROVE  /\ status' \in [Modules -> States]
           /\ status'[m] = state
           /\ \A n \in Modules \ {m} : status'[n] = status[n]
BY DEF Marks

LEMMA EmitsShown ==
    ASSUME Published \subseteq Modules, NEW m \in Modules, NEW state, Emits(m, state)
    PROVE  /\ Published' \subseteq Modules
           /\ m \in Published' <=> state = "running"
           /\ \A n \in Modules \ {m} : n \in Published' <=> n \in Published
BY DEF Emits, Published

\* What a task at one of its awaits finds.
LEMMA Finds ==
    ASSUME OrchestratorInv, Watched, NEW t \in Tasks, NEW stage, At(t, stage)
    PROVE  /\ stack[t] # <<>> /\ Tail(stack[t]) \in Seq(Waiting)
           /\ Top(t) \in FrameType /\ Shaped(Top(t)) /\ Top(t).stage = stage
           /\ stack \in [Tasks -> Stacks]
           /\ status \in [Modules -> States] /\ providers \subseteq Suppliers
           /\ Published \subseteq Modules /\ enabled \subseteq Modules
           /\ calm' \in BOOLEAN /\ (calm' => calm)
<1>1. Typed
  BY DEF OrchestratorInv
<1>2. stack \in [Tasks -> Stacks]
  BY <1>1 DEF Typed
<1> QED
  BY <1>1, <1>2, AtTyped, TopTyped DEF Typed, Watched

\* A coroutine that returns leaves its task where nothing need be known.
LEMMA LeavesKnows ==
    ASSUME NEW t \in Tasks, Leaves(t)
    PROVE  KnowsNext(t)
<1> SUFFICES ASSUME stack'[t] # <<>>
             PROVE  Knows(Top(t))'
  BY DEF KnowsNext
<1>1. Top(t)' = Head(stack'[t])
  BY DEF Top
<1>2. Top(t)'.stage \in Resumes /\ Shaped(Top(t)')
  BY <1>1 DEF Leaves, Waiting, Frames
<1> QED
  BY <1>2 DEF Knows, Resumes, Shaped

LEMMA ReadEnabledKeeps ==
    ASSUME OrchestratorInv, Watched, NEW t \in Tasks, ReadEnabled(t)
    PROVE  OrchestratorInv'
<1> DEFINE f == Top(t)
           g == [f EXCEPT !.stage = "decide", !.mods = enabled,
                          !.todo = IF f.op = "review" THEN Affected(f.module, enabled) ELSE {}]
<1>1. At(t, "read") /\ Becomes(t, g) /\ Steps /\ UNCHANGED site
  BY DEF ReadEnabled
<1>2. /\ stack[t] # <<>> /\ f \in FrameType /\ Shaped(f) /\ f.stage = "read"
      /\ stack \in [Tasks -> Stacks] /\ enabled \subseteq Modules /\ (calm' => calm)
  BY <1>1, Finds
<1>3. Affected(f.module, enabled) \subseteq Modules
  BY <1>2 DEF Affected
<1>4. /\ g \in FrameType /\ g.stage = "decide" /\ g.op = f.op /\ g.module = f.module
      /\ g.mods = enabled
  BY <1>2, <1>3 DEF FrameType, Stages
<1>5. g \in Frames
  BY <1>2, <1>4 DEF Shaped, Frames, StartStages, StopStages
<1> HIDE DEF g
<1>6. Enters(t, g, Tail(stack[t]))
  BY <1>1, <1>2, <1>5, BecomesEnters
<1>7. Kept(t, None)
  BY <1>1, <1>2, <1>6 DEF Kept, Enters, Quiet, site, OrchestratorInv, Typed, display, Published
<1>8. KnowsNext(t)
  <2> SUFFICES ASSUME calm'
               PROVE  Knows(Top(t))'
    BY DEF KnowsNext
  <2>1. Top(t)' = g
    BY <1>6 DEF Enters, Top
  <2>2. Knows(f)
    BY <1>2, CalmTop
  <2>3. enabled' = enabled /\ status' = status
    BY <1>1 DEF Steps, world, site
  <2> QED
    BY <1>2, <1>4, <2>1, <2>2, <2>3 DEF Knows, Startable
<1> QED
  BY <1>7, <1>8, KeptInv, OrchestratorAssumption

\* What a step that goes on to another await of a start or a stop does.
LEMMA GoesKept ==
    ASSUME OrchestratorInv, Watched, NEW t \in Tasks, NEW old, At(t, old), old # "check",
           NEW new \in StartStages \cup StopStages, Goes(t, new), Steps,
           Top(t).op = IF new \in StartStages THEN "start" ELSE "stop",
           status' \in [Modules -> States], providers' \subseteq Suppliers, Published' \subseteq Modules,
           \A n \in Modules \ {Top(t).module} : /\ status'[n] = status[n]
                                                /\ n \in Published' <=> n \in Published
                                                /\ n \in providers' <=> n \in providers
    PROVE  /\ Kept(t, Top(t).module)
           /\ Top(t).module \in Modules
           /\ stack'[t] # <<>> /\ Top(t)' = Head(stack'[t])
           /\ Head(stack'[t]).module = Top(t).module
           /\ Head(stack'[t]).stage = new
           /\ Head(stack'[t]).op = Top(t).op
<1>1. /\ stack \in [Tasks -> Stacks] /\ stack[t] # <<>>
      /\ Top(t).stage = old /\ Shaped(Top(t))
  BY Finds
<1>2. Top(t).module \in Modules
  BY <1>1 DEF Shaped
<1>3. (new \in StartStages => Top(t).op = "start") /\ (new \in StopStages => Top(t).op = "stop")
  BY DEF StartStages, StopStages
<1>4. /\ Enters(t, [Top(t) EXCEPT !.stage = new, !.mods = {}], Tail(stack[t]))
      /\ Head(stack'[t]).stage = new
      /\ Head(stack'[t]).op = Top(t).op
      /\ Head(stack'[t]).module = Top(t).module
  BY <1>1, <1>3, GoesEnters
<1>5. Kept(t, Top(t).module)
  BY <1>1, <1>4 DEF Kept, Enters
<1> QED
  BY <1>2, <1>4, <1>5 DEF Enters, Top

LEMMA DecideStartKeeps ==
    ASSUME OrchestratorInv, Watched, NEW t \in Tasks, DecideStart(t)
    PROVE  OrchestratorInv'
<1>1. At(t, "decide") /\ Top(t).op = "start" /\ Steps /\ UNCHANGED <<providers, Published>>
  BY DEF DecideStart, display, Published
<1>2. /\ stack[t] # <<>> /\ Shaped(Top(t)) /\ Top(t).stage = "decide"
      /\ stack \in [Tasks -> Stacks] /\ status \in [Modules -> States] /\ (calm' => calm)
      /\ providers \subseteq Suppliers /\ Published \subseteq Modules
  BY <1>1, Finds
<1>3. PICK m \in Modules : m = Top(t).module
  BY <1>1, <1>2 DEF Shaped
<1> DEFINE mods == Top(t).mods
<1>4. \/ m \notin mods /\ Marks(m, "stopped") /\ Goes(t, "refused")
      \/ m \in mods /\ Deps[m] \subseteq mods /\ Marks(m, "starting") /\ Goes(t, "starting")
      \/ Marks(m, "blocked") /\ Goes(t, "blocked")
  BY <1>3 DEF DecideStart, CanStart
<1>5. PICK state, stage :
         /\ \/ state = "stopped" /\ stage = "refused"
            \/ state = "starting" /\ stage = "starting" /\ m \in mods /\ Deps[m] \subseteq mods
            \/ state = "blocked" /\ stage = "blocked"
         /\ Marks(m, state) /\ Goes(t, stage)
  BY <1>4
<1>6. state \in States /\ stage \in StartStages
  BY <1>5 DEF States, StartStages
<1>7. /\ status' \in [Modules -> States] /\ status'[m] = state
      /\ \A n \in Modules \ {m} : status'[n] = status[n]
  BY <1>2, <1>3, <1>5, <1>6, MarksStatus
<1>8. /\ Kept(t, m)
      /\ stack'[t] # <<>> /\ Top(t)' = Head(stack'[t])
      /\ Head(stack'[t]).module = m /\ Head(stack'[t]).stage = stage
      /\ Head(stack'[t]).op = "start"
  BY <1>1, <1>2, <1>3, <1>5, <1>6, <1>7, GoesKept
<1>9. Attended(m)'
  <2>1. state = "starting" => Doing(m, {"starting", "launch", "register"})'
    BY <1>5, <1>8, DoingNext
  <2>2. state # "stopping"
    BY <1>5
  <2> QED
    BY <1>7, <2>1, <2>2 DEF Attended
<1>10. ASSUME calm'
       PROVE  Agrees(m)'
  <2>1. Doing(m, Emitting)'
    <3>1. stage \in Emitting
      BY <1>5 DEF Emitting
    <3>2. QED BY <1>8, <3>1, DoingNext
  <2>2. Knows(Top(t)) /\ \A n, stages : Doing(n, stages) => Top(t).stage \in stages
    BY <1>2, <1>10, CalmTop
  <2>3. status[m] # "running" /\ ~Doing(m, {"blocked", "failed", "stopping", "halt"})
    BY <1>1, <1>2, <1>3, <2>2 DEF Knows, Startable
  <2>4. checks' = checks /\ Agrees(m)
    BY <1>1, <1>2, <1>3, <1>10 DEF OrchestratorInv, Good, Steps, counts
  <2>5. ~(checks' = 0 /\ m \in providers')
    BY <1>1, <2>3, <2>4 DEF Agrees
  <2>6. status'[m] # "running"
    BY <1>5, <1>7
  <2> QED
    BY <2>1, <2>5, <2>6 DEF Agrees
<1>11. KnowsNext(t)
  <2> SUFFICES ASSUME calm'
               PROVE  Knows(Top(t))'
    BY DEF KnowsNext
  <2>1. mods = enabled /\ enabled' = enabled
    BY <1>1, <1>2, CalmTop DEF Knows, Steps, world
  <2>2. CASE stage = "starting"
    BY <1>5, <1>7, <1>8, <2>1, <2>2 DEF Knows
  <2>3. CASE stage # "starting"
    BY <1>5, <1>7, <1>8, <2>3 DEF Knows
  <2> QED
    BY <2>2, <2>3
<1> QED
  BY <1>3, <1>8, <1>9, <1>10, <1>11, KeptInv DEF Good

\* What a coroutine that returns does.
LEMMA ReturnsKept ==
    ASSUME OrchestratorInv, Watched, NEW t \in Tasks, NEW old, At(t, old), old # "check",
           Returns(t), Steps,
           status' \in [Modules -> States], providers' \subseteq Suppliers, Published' \subseteq Modules,
           \A n \in Modules \ {Top(t).module} : /\ status'[n] = status[n]
                                                /\ n \in Published' <=> n \in Published
                                                /\ n \in providers' <=> n \in providers
    PROVE  Kept(t, Top(t).module) /\ KnowsNext(t)
<1>1. stack \in [Tasks -> Stacks] /\ stack[t] # <<>> /\ Top(t).stage = old
  BY Finds
<1>2. Leaves(t)
  BY <1>1, ReturnsLeaves
<1> QED
  BY <1>1, <1>2, LeavesKnows DEF Kept, Leaves

\* A step that does not account for a start or a stop of m, nor changes its state.
LEMMA AttendedKept ==
    ASSUME NEW t \in Tasks, NEW m \in Modules, NEW k, Kept(t, k), Attended(m), status'[m] = status[m],
           Top(t).stage \notin {"starting", "launch", "register", "stopping", "halt"}
    PROVE  Attended(m)'
<1>1. /\ Doing(m, {"starting", "launch", "register"}) => Doing(m, {"starting", "launch", "register"})'
      /\ Doing(m, {"stopping", "halt"}) => Doing(m, {"stopping", "halt"})'
  BY DoingKept DEF Kept
<1>2. faults' = faults
  BY DEF Kept, Steps, counts
<1> QED
  BY <1>1, <1>2 DEF Attended

\* In a calm site a step that shows m as what it is, other than running.
LEMMA EmitsAgrees ==
    ASSUME OrchestratorInv, calm, NEW t \in Tasks, NEW old, At(t, old), Steps,
           NEW m \in Modules, m \notin Published', status'[m] # "running",
           status[m] # "running",
           \/ m \notin providers'
           \/ providers' = providers /\ old \notin {"blocked", "failed", "stopping", "halt"}
    PROVE  Agrees(m)'
<1>1. stack[t] # <<>> /\ Top(t).stage = old
  BY DEF At
<1>2. \A n, stages : Doing(n, stages) => Top(t).stage \in stages
  BY <1>1, CalmTop
<1>3. Agrees(m) /\ checks' = checks
  BY DEF OrchestratorInv, Good, Steps, counts
<1>4. ~(checks' = 0 /\ m \in providers')
  BY <1>1, <1>2, <1>3 DEF Agrees
<1> QED
  BY <1>4 DEF Agrees

\* A coroutine that shows its module as it is, other than running, and returns.
LEMMA EmitsReturns ==
    ASSUME OrchestratorInv, Watched, NEW t \in Tasks,
           NEW old \in {"refused", "launchBlocked", "mark", "failed", "stopped"}, At(t, old),
           Emits(Top(t).module, "stopped"), Returns(t), Steps, UNCHANGED status,
           \/ old # "failed" /\ UNCHANGED providers
           \/ providers' = providers \ {Top(t).module}
    PROVE  OrchestratorInv'
<1>1. /\ stack[t] # <<>> /\ Shaped(Top(t)) /\ Top(t).stage = old
      /\ status \in [Modules -> States] /\ (calm' => calm)
      /\ providers \subseteq Suppliers /\ Published \subseteq Modules
  BY Finds
<1>2. PICK m \in Modules : m = Top(t).module
  BY <1>1 DEF Shaped, StartStages, StopStages
<1>3. /\ Published' \subseteq Modules /\ m \notin Published'
      /\ \A n \in Modules \ {m} : n \in Published' <=> n \in Published
  <2>1. Emits(m, "stopped")
    BY <1>2
  <2> QED
    BY <1>1, <2>1, EmitsShown
<1>4. Kept(t, m) /\ KnowsNext(t)
  BY <1>1, <1>2, <1>3, ReturnsKept
<1>5. Attended(m)'
  BY <1>1, <1>4, AttendedKept DEF OrchestratorInv, Good
<1>6. ASSUME calm'
      PROVE  Agrees(m)'
  <2>1. status[m] # "running"
    BY <1>1, <1>2, <1>6, CalmTop DEF Knows
  <2>2. \/ m \notin providers'
        \/ providers' = providers /\ old \notin {"blocked", "failed", "stopping", "halt"}
    BY <1>2
  <2> QED
    BY <1>1, <1>3, <1>6, <2>1, <2>2, EmitsAgrees
<1> QED
  BY <1>4, <1>5, <1>6, KeptInv DEF Good

LEMMA EmitsStopped ==
    ASSUME NEW m, NEW state, state # "running", Emits(m, state)
    PROVE  Emits(m, "stopped")
BY DEF Emits

LEMMA RefusedKeeps ==
    ASSUME OrchestratorInv, Watched, NEW t \in Tasks, Refused(t)
    PROVE  OrchestratorInv'
BY EmitsReturns, EmitsStopped DEF Refused

LEMMA LaunchBlockedKeeps ==
    ASSUME OrchestratorInv, Watched, NEW t \in Tasks, LaunchBlocked(t)
    PROVE  OrchestratorInv'
BY EmitsReturns, EmitsStopped DEF LaunchBlocked

LEMMA MarkedKeeps ==
    ASSUME OrchestratorInv, Watched, NEW t \in Tasks, Marked(t)
    PROVE  OrchestratorInv'
BY EmitsReturns, EmitsStopped DEF Marked

LEMMA FailedKeeps ==
    ASSUME OrchestratorInv, Watched, NEW t \in Tasks, Failed(t)
    PROVE  OrchestratorInv'
BY EmitsReturns, EmitsStopped DEF Failed

\* What a step that puts a task into another coroutine does.
LEMMA EntersKept ==
    ASSUME OrchestratorInv, Watched, NEW t \in Tasks, NEW old, At(t, old), old # "check",
           NEW f, NEW s, Enters(t, f, s), Steps,
           NEW m, old \in Quiet \/ m = Top(t).module,
           status' \in [Modules -> States], providers' \subseteq Suppliers, Published' \subseteq Modules,
           \A n \in Modules \ {m} : /\ status'[n] = status[n]
                                    /\ n \in Published' <=> n \in Published
                                    /\ n \in providers' <=> n \in providers
    PROVE  Kept(t, m) /\ Top(t)' = f /\ stack'[t] # <<>>
<1>1. stack[t] # <<>> /\ Top(t).stage = old
  BY Finds
<1>2. Top(t)' = f /\ stack'[t] # <<>>
  BY DEF Enters, Top
<1> QED
  BY <1>1, <1>2 DEF Kept, Enters

\* What a coroutine that is called knows at first.
LEMMA NewKnows ==
    /\ \A m \in Modules, try \in BOOLEAN : Knows(ReviewOf(m, try))'
    /\ Knows(SyncOf)'
    /\ \A m \in Modules : Knows(RestartOf(m))'
    /\ \A m \in Modules : status'[m] = "stopping" => Knows(StopOf(m))'
    /\ \A m \in Modules : status'[m] = "blocked" => Knows(MarkOf(m))'
    /\ \A m \in Modules : Startable(m)' => Knows(StartOf(m))'
BY DEF Knows, ReviewOf, SyncOf, RestartOf, StopOf, MarkOf, StartOf, Frame

\* A coroutine that shows its module as it is, other than running, and reviews.
LEMMA EmitsReviews ==
    ASSUME OrchestratorInv, Watched, NEW t \in Tasks,
           NEW old \in {"blocked", "stopped"}, At(t, old),
           Emits(Top(t).module, "stopped"),
           Becomes(t, ReviewOf(Top(t).module, FALSE)), Steps, UNCHANGED status,
           \/ old # "blocked" /\ UNCHANGED providers
           \/ providers' = providers \ {Top(t).module}
    PROVE  OrchestratorInv'
<1>1. /\ stack[t] # <<>> /\ Shaped(Top(t)) /\ Top(t).stage = old
      /\ stack \in [Tasks -> Stacks]
      /\ status \in [Modules -> States] /\ (calm' => calm)
      /\ providers \subseteq Suppliers /\ Published \subseteq Modules
  BY Finds
<1>2. PICK m \in Modules : m = Top(t).module
  BY <1>1 DEF Shaped, StartStages, StopStages
<1>3. /\ Published' \subseteq Modules /\ m \notin Published'
      /\ \A n \in Modules \ {m} : n \in Published' <=> n \in Published
  <2>1. Emits(m, "stopped")
    BY <1>2
  <2> QED
    BY <1>1, <2>1, EmitsShown
<1>4. Enters(t, ReviewOf(m, FALSE), Tail(stack[t]))
  BY <1>1, <1>2, NewFramesTyped, BecomesEnters
<1>5. Kept(t, m) /\ Top(t)' = ReviewOf(m, FALSE) /\ stack'[t] # <<>>
  BY <1>1, <1>2, <1>3, <1>4, EntersKept
<1>6. KnowsNext(t)
  <2>1. Knows(ReviewOf(m, FALSE))'
    BY NewKnows
  <2> QED
    BY <1>5, <2>1 DEF KnowsNext, Knows
<1>7. Attended(m)'
  BY <1>1, <1>5, AttendedKept DEF OrchestratorInv, Good
<1>8. ASSUME calm'
      PROVE  Agrees(m)'
  <2>1. status[m] # "running"
    BY <1>1, <1>2, <1>8, CalmTop DEF Knows
  <2>2. \/ m \notin providers'
        \/ providers' = providers /\ old \notin {"blocked", "failed", "stopping", "halt"}
    BY <1>2
  <2> QED
    BY <1>1, <1>3, <1>8, <2>1, <2>2, EmitsAgrees
<1> QED
  BY <1>5, <1>6, <1>7, <1>8, KeptInv DEF Good

LEMMA BlockedKeeps ==
    ASSUME OrchestratorInv, Watched, NEW t \in Tasks, Blocked(t)
    PROVE  OrchestratorInv'
BY EmitsReviews, EmitsStopped DEF Blocked

LEMMA StoppedKeeps ==
    ASSUME OrchestratorInv, Watched, NEW t \in Tasks, Stopped(t)
    PROVE  OrchestratorInv'
<1>1. /\ At(t, "stopped") /\ Emits(Top(t).module, "stopped") /\ Steps /\ UNCHANGED <<status, providers>>
      /\ Returns(t) \/ Becomes(t, ReviewOf(Top(t).module, FALSE))
  BY DEF Stopped
<1>2. CASE Returns(t)
  BY <1>1, <1>2, EmitsReturns
<1>3. CASE Becomes(t, ReviewOf(Top(t).module, FALSE))
  BY <1>1, <1>3, EmitsReviews
<1> QED
  BY <1>1, <1>2, <1>3

LEMMA StartingKeeps ==
    ASSUME OrchestratorInv, Watched, NEW t \in Tasks, Starting(t)
    PROVE  OrchestratorInv'
<1>1. /\ At(t, "starting") /\ Steps /\ UNCHANGED <<status, providers>>
      /\ Emits(Top(t).module, "starting")
      /\ \E stage \in {"launch", "register"} : Goes(t, stage)
  BY DEF Starting
<1>2. PICK stage \in {"launch", "register"} : Goes(t, stage)
  BY <1>1
<1>3. /\ stack[t] # <<>> /\ Shaped(Top(t)) /\ Top(t).stage = "starting"
      /\ status \in [Modules -> States] /\ (calm' => calm)
      /\ providers \subseteq Suppliers /\ Published \subseteq Modules
  BY <1>1, Finds
<1>4. PICK m \in Modules : m = Top(t).module
  BY <1>3 DEF Shaped, StartStages
<1>5. /\ Published' \subseteq Modules /\ m \notin Published'
      /\ \A n \in Modules \ {m} : n \in Published' <=> n \in Published
  <2>1. Emits(m, "starting")
    BY <1>1, <1>4
  <2> QED
    BY <1>3, <2>1, EmitsShown
<1>6. Top(t).op = "start" /\ stage \in StartStages
  BY <1>3 DEF Shaped, StartStages
<1>7. /\ Kept(t, m)
      /\ stack'[t] # <<>> /\ Top(t)' = Head(stack'[t])
      /\ Head(stack'[t]).module = m /\ Head(stack'[t]).stage = stage
      /\ Head(stack'[t]).op = "start"
  BY <1>1, <1>2, <1>3, <1>4, <1>5, <1>6, GoesKept
<1>8. Attended(m)'
  <2>1. Doing(m, {"starting", "launch", "register"})'
    BY <1>7, DoingNext
  <2>2. Doing(m, {"stopping", "halt"}) => Doing(m, {"stopping", "halt"})'
    BY <1>3, <1>7, DoingKept DEF Kept
  <2>3. Attended(m) /\ faults' = faults
    BY <1>1, <1>4 DEF OrchestratorInv, Good, Steps, counts
  <2> QED
    BY <1>1, <2>1, <2>2, <2>3 DEF Attended
<1>9. ASSUME calm'
      PROVE  Knows(Top(t)) /\ status[m] = "starting"
  BY <1>3, <1>4, <1>9, CalmTop DEF Knows
<1>10. ASSUME calm'
       PROVE  Agrees(m)'
  BY <1>1, <1>3, <1>5, <1>9, <1>10, EmitsAgrees
<1>11. KnowsNext(t)
  <2> SUFFICES ASSUME calm'
               PROVE  Knows(Top(t))'
    BY DEF KnowsNext
  <2>1. status' = status /\ enabled' = enabled
    BY <1>1 DEF Steps, world
  <2> QED
    BY <1>3, <1>4, <1>7, <1>9, <2>1 DEF Knows
<1> QED
  BY <1>7, <1>8, <1>10, <1>11, KeptInv DEF Good

\* A start ends: the module runs and its capabilities are registered.
LEMMA RunsKeeps ==
    ASSUME OrchestratorInv, Watched, NEW t \in Tasks, Launch(t) \/ Register(t)
    PROVE  OrchestratorInv'
<1>1. PICK old \in {"launch", "register"} : At(t, old)
  BY DEF Launch, Register
<1>2. /\ Steps /\ UNCHANGED Published
      /\ Marks(Top(t).module, "running") /\ Goes(t, "running")
      /\ providers' = providers \cup ({Top(t).module} \cap Suppliers)
  BY DEF Launch, Register, display, Published
<1>3. /\ stack[t] # <<>> /\ Shaped(Top(t)) /\ Top(t).stage = old
      /\ status \in [Modules -> States] /\ (calm' => calm)
      /\ providers \subseteq Suppliers /\ Published \subseteq Modules
  BY <1>1, Finds
<1>4. PICK m \in Modules : m = Top(t).module
  BY <1>3 DEF Shaped, StartStages
<1>5. /\ status' \in [Modules -> States] /\ status'[m] = "running"
      /\ \A n \in Modules \ {m} : status'[n] = status[n]
  BY <1>2, <1>3, <1>4, MarksStatus DEF States
<1>6. Top(t).op = "start" /\ "running" \in StartStages
  BY <1>3 DEF Shaped, StartStages
<1>7. /\ Kept(t, m)
      /\ stack'[t] # <<>> /\ Top(t)' = Head(stack'[t])
      /\ Head(stack'[t]).module = m /\ Head(stack'[t]).stage = "running"
      /\ Head(stack'[t]).op = "start"
  BY <1>1, <1>2, <1>3, <1>4, <1>5, <1>6, GoesKept
<1>8. Attended(m)'
  BY <1>5 DEF Attended
<1>9. ASSUME calm'
      PROVE  Agrees(m)'
  <2>1. m \in enabled' /\ Deps[m] \subseteq enabled'
    BY <1>2, <1>3, <1>4, <1>9, CalmTop DEF Knows, Steps, world
  <2>2. Doing(m, Emitting)'
    BY <1>7, DoingNext DEF Emitting
  <2>3. m \in Suppliers => m \in providers'
    BY <1>2, <1>4
  <2> QED
    BY <1>5, <2>1, <2>2, <2>3 DEF Agrees, Suppliers
<1>10. KnowsNext(t)
  BY <1>5, <1>7 DEF KnowsNext, Knows
<1> QED
  BY <1>7, <1>8, <1>9, <1>10, KeptInv DEF Good

\* A frame whose stage alone changes.
LEMMA StageTyped ==
    ASSUME NEW f \in FrameType, Shaped(f), f.op = "start"
    PROVE  [f EXCEPT !.stage = "reviewed"] \in Waiting
<1> DEFINE g == [f EXCEPT !.stage = "reviewed"]
<1>1. g \in FrameType /\ g.stage = "reviewed" /\ g.op = f.op /\ g.module = f.module
  BY DEF FrameType, Stages, StartStages
<1>2. Shaped(g)
  BY <1>1 DEF Shaped, StartStages, StopStages
<1> QED
  BY <1>1, <1>2 DEF Frames, Waiting, Resumes

LEMMA StartedKeeps ==
    ASSUME OrchestratorInv, Watched, NEW t \in Tasks, Started(t)
    PROVE  OrchestratorInv'
<1>1. /\ At(t, "running") /\ Steps /\ UNCHANGED <<status, providers>>
      /\ Emits(Top(t).module, "running")
      /\ \/ Returns(t)
         \/ Calls(t, [Top(t) EXCEPT !.stage = "reviewed"], ReviewOf(Top(t).module, TRUE))
  BY DEF Started
<1>2. /\ stack[t] # <<>> /\ Shaped(Top(t)) /\ Top(t).stage = "running" /\ Top(t) \in FrameType
      /\ stack \in [Tasks -> Stacks]
      /\ status \in [Modules -> States] /\ (calm' => calm)
      /\ providers \subseteq Suppliers /\ Published \subseteq Modules
  BY <1>1, Finds
<1>3. PICK m \in Modules : m = Top(t).module
  BY <1>2 DEF Shaped, StartStages
<1>4. /\ Published' \subseteq Modules /\ m \in Published'
      /\ \A n \in Modules \ {m} : n \in Published' <=> n \in Published
  <2>1. Emits(m, "running")
    BY <1>1, <1>3
  <2> QED
    BY <1>2, <2>1, EmitsShown
<1>5. Kept(t, m) /\ KnowsNext(t)
  <2>1. CASE Returns(t)
    BY <1>1, <1>2, <1>3, <1>4, <2>1, ReturnsKept
  <2>2. CASE Calls(t, [Top(t) EXCEPT !.stage = "reviewed"], ReviewOf(Top(t).module, TRUE))
    <3>1. Top(t).op = "start"
      BY <1>2 DEF Shaped, StartStages
    <3>2. [Top(t) EXCEPT !.stage = "reviewed"] \in Waiting /\ ReviewOf(m, TRUE) \in Frames
      BY <1>2, <3>1, StageTyped, NewFramesTyped
    <3>3. Enters(t, ReviewOf(m, TRUE), <<[Top(t) EXCEPT !.stage = "reviewed"]>> \o Tail(stack[t]))
      BY <1>2, <1>3, <2>2, <3>2, CallsEnters
    <3>4. Kept(t, m) /\ Top(t)' = ReviewOf(m, TRUE)
      BY <1>1, <1>2, <1>3, <1>4, <3>3, EntersKept
    <3>5. Knows(ReviewOf(m, TRUE))'
      BY NewKnows
    <3> QED
      BY <3>4, <3>5 DEF KnowsNext, Knows
  <2> QED
    BY <1>1, <2>1, <2>2
<1>6. Attended(m)'
  BY <1>1, <1>2, <1>5, AttendedKept DEF OrchestratorInv, Good
<1>7. ASSUME calm'
      PROVE  Agrees(m)'
  <2>1. status[m] = "running" /\ ~Checking(m)
    BY <1>2, <1>3, <1>7, CalmTop DEF Knows
  <2>2. /\ status' = status /\ providers' = providers /\ checks' = checks /\ enabled' = enabled
        /\ Leaving(m)' <=> Leaving(m)
    BY <1>1 DEF Steps, world, counts, Leaving
  <2>3. Agrees(m)
    BY <1>2, <1>7 DEF OrchestratorInv, Good
  <2> QED
    BY <1>4, <2>1, <2>2, <2>3 DEF Agrees
<1> QED
  BY <1>5, <1>6, <1>7, KeptInv DEF Good

\* A step that changes no more than what its task is in.
LEMMA QuietKeeps ==
    ASSUME OrchestratorInv, Watched, NEW t \in Tasks, NEW old \in Quiet, At(t, old),
           Steps, UNCHANGED site,
           \/ Returns(t)
           \/ \E f \in Frames : \E s : Enters(t, f, s) /\ (calm' => Knows(f)')
    PROVE  OrchestratorInv'
<1>1. /\ stack[t] # <<>> /\ Top(t).stage = old /\ old # "check"
      /\ status \in [Modules -> States] /\ providers \subseteq Suppliers /\ Published \subseteq Modules
  BY Finds DEF Quiet
<1>2. CASE Returns(t)
  <2>1. stack \in [Tasks -> Stacks]
    BY Finds
  <2>2. Leaves(t)
    BY <1>1, <1>2, <2>1, ReturnsLeaves
  <2>3. Kept(t, None)
    BY <1>1, <2>2 DEF Kept, Leaves, site, display, Published
  <2> QED
    BY <2>2, <2>3, LeavesKnows, KeptInv, OrchestratorAssumption
<1>3. CASE \E f \in Frames : \E s : Enters(t, f, s) /\ (calm' => Knows(f)')
  <2>1. PICK f, s : f \in Frames /\ Enters(t, f, s) /\ (calm' => Knows(f)')
    BY <1>3
  <2>2. Kept(t, None) /\ Top(t)' = f
    BY <1>1, <2>1, EntersKept DEF site, display, Published
  <2>3. KnowsNext(t)
    BY <2>1, <2>2 DEF KnowsNext, Knows
  <2> QED
    BY <2>2, <2>3, KeptInv, OrchestratorAssumption
<1> QED
  BY <1>2, <1>3

LEMMA ReviewedKeeps ==
    ASSUME OrchestratorInv, Watched, NEW t \in Tasks, Reviewed(t)
    PROVE  OrchestratorInv'
BY QuietKeeps DEF Reviewed, Quiet

LEMMA RestartKeeps ==
    ASSUME OrchestratorInv, Watched, NEW t \in Tasks, Restart(t)
    PROVE  OrchestratorInv'
<1>1. /\ At(t, "start") /\ Steps /\ UNCHANGED site
      /\ \/ Startable(Top(t).module) /\ Becomes(t, StartOf(Top(t).module))
         \/ Returns(t)
  BY DEF Restart
<1>2. CASE Returns(t)
  BY <1>1, <1>2, QuietKeeps DEF Quiet
<1>3. CASE Startable(Top(t).module) /\ Becomes(t, StartOf(Top(t).module))
  <2>1. stack \in [Tasks -> Stacks] /\ stack[t] # <<>> /\ Shaped(Top(t)) /\ Top(t).stage = "start"
    BY <1>1, Finds
  <2>2. PICK m \in Modules : m = Top(t).module
    BY <2>1 DEF Shaped
  <2>3. StartOf(m) \in Frames
    BY NewFramesTyped
  <2>4. Enters(t, StartOf(m), Tail(stack[t]))
    BY <1>3, <2>1, <2>2, <2>3, BecomesEnters
  <2>5. Knows(StartOf(m))'
    BY <1>1, <1>3, <2>2, NewKnows DEF Startable, site
  <2> QED
    BY <1>1, <2>3, <2>4, <2>5, QuietKeeps DEF Quiet
<1> QED
  BY <1>1, <1>2, <1>3

\* The last lines of a stop.
LEMMA StopsKeeps ==
    ASSUME OrchestratorInv, Watched, NEW t \in Tasks, NEW old \in {"stopping", "halt"}, At(t, old),
           NEW m \in Modules, m = Top(t).module, Stops(t, m), Steps,
           Published' \subseteq Modules, \A n \in Modules \ {m} : n \in Published' <=> n \in Published
    PROVE  OrchestratorInv'
<1>1. /\ stack[t] # <<>> /\ Shaped(Top(t)) /\ Top(t).stage = old
      /\ status \in [Modules -> States] /\ (calm' => calm)
      /\ providers \subseteq Suppliers
  BY Finds
<1>2. Marks(m, "stopped") /\ Goes(t, "stopped") /\ providers' = providers \ {m}
  BY DEF Stops
<1>3. /\ status' \in [Modules -> States] /\ status'[m] = "stopped"
      /\ \A n \in Modules \ {m} : status'[n] = status[n]
  BY <1>1, <1>2, MarksStatus DEF States
<1>4. Top(t).op = "stop" /\ "stopped" \in StopStages /\ "stopped" \notin StartStages
  BY <1>1 DEF Shaped, StopStages, StartStages
<1>5. /\ Kept(t, m)
      /\ stack'[t] # <<>> /\ Top(t)' = Head(stack'[t])
      /\ Head(stack'[t]).module = m /\ Head(stack'[t]).stage = "stopped"
      /\ Head(stack'[t]).op = "stop"
  BY <1>1, <1>2, <1>3, <1>4, GoesKept
<1>6. Attended(m)'
  BY <1>3 DEF Attended
<1>7. Agrees(m)'
  <2>1. Doing(m, Emitting)'
    BY <1>5, DoingNext DEF Emitting
  <2>2. m \notin providers' /\ status'[m] # "running"
    BY <1>2, <1>3
  <2> QED
    BY <2>1, <2>2 DEF Agrees
<1>8. KnowsNext(t)
  BY <1>3, <1>5 DEF KnowsNext, Knows
<1> QED
  BY <1>5, <1>6, <1>7, <1>8, KeptInv DEF Good

LEMMA HaltKeeps ==
    ASSUME OrchestratorInv, Watched, NEW t \in Tasks, Halt(t)
    PROVE  OrchestratorInv'
<1>1. At(t, "halt") /\ Stops(t, Top(t).module) /\ Steps /\ UNCHANGED Published
  BY DEF Halt, display, Published
<1>2. Shaped(Top(t)) /\ Top(t).stage = "halt" /\ Published \subseteq Modules
  BY <1>1, Finds
<1>3. Top(t).module \in Modules
  BY <1>2 DEF Shaped, StopStages
<1> QED
  BY <1>1, <1>2, <1>3, StopsKeeps

LEMMA StoppingKeeps ==
    ASSUME OrchestratorInv, Watched, NEW t \in Tasks, Stopping(t)
    PROVE  OrchestratorInv'
<1>1. /\ At(t, "stopping") /\ Steps
      /\ Emits(Top(t).module, "stopping")
      /\ \/ Goes(t, "halt") /\ UNCHANGED <<status, providers>>
         \/ Stops(t, Top(t).module)
  BY DEF Stopping
<1>2. /\ stack[t] # <<>> /\ Shaped(Top(t)) /\ Top(t).stage = "stopping"
      /\ status \in [Modules -> States] /\ (calm' => calm)
      /\ providers \subseteq Suppliers /\ Published \subseteq Modules
  BY <1>1, Finds
<1>3. PICK m \in Modules : m = Top(t).module
  BY <1>2 DEF Shaped, StopStages
<1>4. /\ Published' \subseteq Modules /\ m \notin Published'
      /\ \A n \in Modules \ {m} : n \in Published' <=> n \in Published
  <2>1. Emits(m, "stopping")
    BY <1>1, <1>3
  <2> QED
    BY <1>2, <2>1, EmitsShown
<1>5. CASE Stops(t, m)
  BY <1>1, <1>3, <1>4, <1>5, StopsKeeps
<1>6. CASE Goes(t, "halt") /\ UNCHANGED <<status, providers>>
  <2>1. Top(t).op = "stop" /\ "halt" \in StopStages /\ "halt" \notin StartStages
    BY <1>2 DEF Shaped, StopStages, StartStages
  <2>2. /\ Kept(t, m)
        /\ stack'[t] # <<>> /\ Top(t)' = Head(stack'[t])
        /\ Head(stack'[t]).module = m /\ Head(stack'[t]).stage = "halt"
        /\ Head(stack'[t]).op = "stop"
    BY <1>1, <1>2, <1>3, <1>4, <1>6, <2>1, GoesKept
  <2>3. Attended(m)'
    <3>1. Doing(m, {"stopping", "halt"})'
      BY <2>2, DoingNext
    <3>2. Doing(m, {"starting", "launch", "register"}) => Doing(m, {"starting", "launch", "register"})'
      BY <1>2, <2>2, DoingKept DEF Kept
    <3>3. Attended(m) /\ faults' = faults
      BY <1>1, <1>3 DEF OrchestratorInv, Good, Steps, counts
    <3> QED
      BY <1>6, <3>1, <3>2, <3>3 DEF Attended
  <2>4. ASSUME calm'
        PROVE  status[m] = "stopping"
    BY <1>2, <1>3, <2>4, CalmTop DEF Knows
  <2>5. ASSUME calm'
        PROVE  Agrees(m)'
    <3>1. Doing(m, {"blocked", "failed", "stopping", "halt"})'
      BY <2>2, DoingNext
    <3> QED
      BY <1>4, <1>6, <2>4, <2>5, <3>1 DEF Agrees
  <2>6. KnowsNext(t)
    BY <1>6, <2>2, <2>4 DEF KnowsNext, Knows
  <2> QED
    BY <2>2, <2>3, <2>5, <2>6, KeptInv DEF Good
<1> QED
  BY <1>1, <1>3, <1>5, <1>6

\* A coroutine that marks a module and calls what follows from it.
LEMMA ReactsKeeps ==
    ASSUME OrchestratorInv, Watched, NEW t \in Tasks, NEW old \in Quiet, At(t, old),
           NEW m \in Modules, NEW f \in Waiting, Steps, UNCHANGED <<providers, Published>>,
           \/ Calls(t, f, StopOf(m)) /\ Marks(m, "stopping")
           \/ Calls(t, f, MarkOf(m)) /\ Marks(m, "blocked") /\ status[m] # "running"
    PROVE  OrchestratorInv'
<1>1. /\ stack[t] # <<>> /\ Shaped(Top(t)) /\ Top(t).stage = old /\ old # "check"
      /\ stack \in [Tasks -> Stacks]
      /\ status \in [Modules -> States] /\ (calm' => calm)
      /\ providers \subseteq Suppliers /\ Published \subseteq Modules
  BY Finds DEF Quiet
<1>2. CASE Calls(t, f, StopOf(m)) /\ Marks(m, "stopping")
  <2>1. /\ status' \in [Modules -> States] /\ status'[m] = "stopping"
        /\ \A n \in Modules \ {m} : status'[n] = status[n]
    BY <1>1, <1>2, MarksStatus DEF States
  <2>2. Enters(t, StopOf(m), <<f>> \o Tail(stack[t]))
    BY <1>1, <1>2, NewFramesTyped, CallsEnters
  <2>3. Kept(t, m) /\ Top(t)' = StopOf(m) /\ stack'[t] # <<>>
    BY <1>1, <2>1, <2>2, EntersKept
  <2>4. Head(stack'[t]).module = m /\ Head(stack'[t]).stage = "stopping"
    BY <2>3 DEF Top, StopOf, Frame
  <2>5. Attended(m)'
    BY <2>1, <2>4, <2>3, DoingNext DEF Attended
  <2>6. Agrees(m)'
    <3>1. Doing(m, Emitting)' /\ Doing(m, {"blocked", "failed", "stopping", "halt"})'
      BY <2>3, <2>4, DoingNext DEF Emitting
    <3> QED
      BY <2>1, <3>1 DEF Agrees
  <2>7. KnowsNext(t)
    <3>1. Knows(StopOf(m))'
      BY <2>1, NewKnows
    <3> QED
      BY <2>3, <3>1 DEF KnowsNext, Knows
  <2> QED
    BY <2>3, <2>5, <2>6, <2>7, KeptInv DEF Good
<1>3. CASE Calls(t, f, MarkOf(m)) /\ Marks(m, "blocked") /\ status[m] # "running"
  <2>1. /\ status' \in [Modules -> States] /\ status'[m] = "blocked"
        /\ \A n \in Modules \ {m} : status'[n] = status[n]
    BY <1>1, <1>3, MarksStatus DEF States
  <2>2. Enters(t, MarkOf(m), <<f>> \o Tail(stack[t]))
    BY <1>1, <1>3, NewFramesTyped, CallsEnters
  <2>3. Kept(t, m) /\ Top(t)' = MarkOf(m) /\ stack'[t] # <<>>
    BY <1>1, <2>1, <2>2, EntersKept
  <2>4. Head(stack'[t]).module = m /\ Head(stack'[t]).stage = "mark"
    BY <2>3 DEF Top, MarkOf, Frame
  <2>5. Attended(m)'
    BY <2>1 DEF Attended
  <2>6. ASSUME calm'
        PROVE  Agrees(m)'
    <3>1. Doing(m, Emitting)'
      BY <2>3, <2>4, DoingNext DEF Emitting
    <3>2. ~Doing(m, {"blocked", "failed", "stopping", "halt"})
      BY <1>1, <2>6, CalmTop DEF Quiet
    <3>3. Agrees(m) /\ checks' = checks
      BY <1>1, <2>6 DEF OrchestratorInv, Good, Steps, counts
    <3>4. ~(checks' = 0 /\ m \in providers')
      BY <1>3, <3>2, <3>3 DEF Agrees
    <3> QED
      BY <2>1, <3>1, <3>4 DEF Agrees
  <2>7. KnowsNext(t)
    <3>1. Knows(MarkOf(m))'
      BY <2>1, NewKnows
    <3> QED
      BY <2>3, <3>1 DEF KnowsNext, Knows
  <2> QED
    BY <2>3, <2>5, <2>6, <2>7, KeptInv DEF Good
<1> QED
  BY <1>2, <1>3

LEMMA DecideSyncKeeps ==
    ASSUME OrchestratorInv, Watched, NEW t \in Tasks, DecideSync(t)
    PROVE  OrchestratorInv'
<1> DEFINE f == Top(t)
           g == [f EXCEPT !.stage = "stops", !.todo = Running \ f.mods]
<1>1. At(t, "decide") /\ f.op = "sync" /\ Becomes(t, g) /\ Steps /\ UNCHANGED site
  BY DEF DecideSync
<1>2. /\ stack[t] # <<>> /\ f \in FrameType /\ Shaped(f)
      /\ stack \in [Tasks -> Stacks]
  BY <1>1, Finds
<1>3. Running \subseteq Modules
  BY DEF Running
<1>4. /\ g \in FrameType /\ g.stage = "stops" /\ g.op = "sync"
  BY <1>1, <1>2, <1>3 DEF FrameType, Stages
<1>5. g \in Frames
  BY <1>4 DEF Shaped, Frames, StartStages, StopStages
<1> HIDE DEF g
<1>6. Enters(t, g, Tail(stack[t]))
  BY <1>1, <1>2, <1>5, BecomesEnters
<1>7. PICK h \in Frames : h = g /\ h.stage = "stops"
  BY <1>4, <1>5
<1>8. Knows(h)'
  BY <1>7 DEF Knows
<1> QED
  BY <1>1, <1>6, <1>7, <1>8, QuietKeeps DEF Quiet

\* A coroutine that goes on in a loop, with less to look at.
LEMMA LoopTyped ==
    ASSUME NEW f \in FrameType, f.op \in {"review", "sync"}, f.module \in Modules \/ f.op = "sync",
           NEW stage \in {"loop", "stops", "starts"},
           stage = "loop" <=> f.op = "review", NEW todo \in SUBSET Modules
    PROVE  [f EXCEPT !.stage = stage, !.todo = todo] \in Waiting
<1> DEFINE g == [f EXCEPT !.stage = stage, !.todo = todo]
<1>1. g \in FrameType /\ g.stage = stage /\ g.op = f.op /\ g.module = f.module
  BY DEF FrameType, Stages
<1>2. Shaped(g)
  BY <1>1 DEF Shaped, StartStages, StopStages
<1> QED
  BY <1>1, <1>2 DEF Frames, Waiting, Resumes

LEMMA SyncStopsKeeps ==
    ASSUME OrchestratorInv, Watched, NEW t \in Tasks, SyncStops(t)
    PROVE  OrchestratorInv'
<1> DEFINE f      == Top(t)
           acting == {m \in f.todo : Stoppable(m)}
<1>1. /\ At(t, "stops") /\ Steps /\ UNCHANGED <<providers, display, Published>>
      /\ \/ /\ Becomes(t, [f EXCEPT !.stage = "starts", !.todo = f.mods, !.mods = {}])
            /\ UNCHANGED status
         \/ \E m \in acting, passed \in SUBSET (f.todo \ acting) :
              /\ Calls(t, [f EXCEPT !.todo = f.todo \ (passed \cup {m})], StopOf(m))
              /\ Marks(m, "stopping")
  BY DEF SyncStops, display, Published
<1>2. /\ stack[t] # <<>> /\ f \in FrameType /\ Shaped(f) /\ f.stage = "stops"
      /\ stack \in [Tasks -> Stacks]
  BY <1>1, Finds
<1>3. f.op = "sync" /\ f.todo \subseteq Modules /\ f.mods \subseteq Modules
  BY <1>2 DEF Shaped, FrameType
<1>4. CASE /\ Becomes(t, [f EXCEPT !.stage = "starts", !.todo = f.mods, !.mods = {}])
           /\ UNCHANGED status
  <2> DEFINE g == [f EXCEPT !.stage = "starts", !.todo = f.mods, !.mods = {}]
  <2>1. g \in FrameType /\ g.stage = "starts" /\ g.op = "sync"
    BY <1>2, <1>3 DEF FrameType, Stages
  <2>2. g \in Frames
    BY <2>1 DEF Shaped, Frames, StartStages, StopStages
  <2> HIDE DEF g
  <2>3. Enters(t, g, Tail(stack[t]))
    BY <1>2, <1>4, <2>2, BecomesEnters DEF g
  <2>4. PICK h \in Frames : h = g /\ h.stage = "starts"
    BY <2>1, <2>2
  <2>5. Knows(h)'
    BY <2>4 DEF Knows
  <2> QED
    BY <1>1, <1>4, <2>3, <2>4, <2>5, QuietKeeps DEF Quiet, site, display
<1>5. CASE \E m \in acting, passed \in SUBSET (f.todo \ acting) :
              /\ Calls(t, [f EXCEPT !.todo = f.todo \ (passed \cup {m})], StopOf(m))
              /\ Marks(m, "stopping")
  <2>1. PICK m \in acting, passed \in SUBSET (f.todo \ acting) :
               /\ Calls(t, [f EXCEPT !.todo = f.todo \ (passed \cup {m})], StopOf(m))
               /\ Marks(m, "stopping")
    BY <1>5
  <2>2. m \in Modules /\ f.todo \ (passed \cup {m}) \subseteq Modules
    BY <1>3
  <2>3. [f EXCEPT !.stage = "stops", !.todo = f.todo \ (passed \cup {m})] \in Waiting
    BY <1>2, <1>3, <2>2, LoopTyped
  <2>4. [f EXCEPT !.stage = "stops", !.todo = f.todo \ (passed \cup {m})]
          = [f EXCEPT !.todo = f.todo \ (passed \cup {m})]
    BY <1>2 DEF FrameType
  <2> QED
    BY <1>1, <2>1, <2>2, <2>3, <2>4, ReactsKeeps DEF Quiet
<1> QED
  BY <1>1, <1>4, <1>5

LEMMA SyncStartsKeeps ==
    ASSUME OrchestratorInv, Watched, NEW t \in Tasks, SyncStarts(t)
    PROVE  OrchestratorInv'
<1> DEFINE f      == Top(t)
           acting == {m \in f.todo : Startable(m)}
<1>1. /\ At(t, "starts") /\ Steps /\ UNCHANGED site
      /\ \/ Returns(t)
         \/ \E m \in acting, passed \in SUBSET (f.todo \ acting) :
              Calls(t, [f EXCEPT !.todo = f.todo \ (passed \cup {m})], StartOf(m))
  BY DEF SyncStarts
<1>2. /\ stack[t] # <<>> /\ f \in FrameType /\ Shaped(f) /\ f.stage = "starts"
      /\ stack \in [Tasks -> Stacks]
  BY <1>1, Finds
<1>3. f.op = "sync" /\ f.todo \subseteq Modules
  BY <1>2 DEF Shaped, FrameType
<1>4. CASE Returns(t)
  BY <1>1, <1>4, QuietKeeps DEF Quiet
<1>5. CASE \E m \in acting, passed \in SUBSET (f.todo \ acting) :
              Calls(t, [f EXCEPT !.todo = f.todo \ (passed \cup {m})], StartOf(m))
  <2>1. PICK m \in acting, passed \in SUBSET (f.todo \ acting) :
               Calls(t, [f EXCEPT !.todo = f.todo \ (passed \cup {m})], StartOf(m))
    BY <1>5
  <2>2. m \in Modules /\ f.todo \ (passed \cup {m}) \subseteq Modules
    BY <1>3
  <2>3. [f EXCEPT !.stage = "starts", !.todo = f.todo \ (passed \cup {m})] \in Waiting
    BY <1>2, <1>3, <2>2, LoopTyped
  <2>4. [f EXCEPT !.stage = "starts", !.todo = f.todo \ (passed \cup {m})]
          = [f EXCEPT !.todo = f.todo \ (passed \cup {m})]
    BY <1>2 DEF FrameType
  <2> DEFINE g == [f EXCEPT !.todo = f.todo \ (passed \cup {m})]
  <2>5. g \in Waiting /\ Calls(t, g, StartOf(m))
    BY <2>1, <2>3, <2>4
  <2> HIDE DEF g
  <2>6. StartOf(m) \in Frames /\ Enters(t, StartOf(m), <<g>> \o Tail(stack[t]))
    BY <1>2, <2>2, <2>5, NewFramesTyped, CallsEnters
  <2>7. Knows(StartOf(m))'
    BY <1>1, <2>2, NewKnows DEF Startable, site
  <2> QED
    BY <1>1, <2>6, <2>7, QuietKeeps DEF Quiet
<1> QED
  BY <1>1, <1>4, <1>5

LEMMA LeastExists ==
    ASSUME NEW S \in SUBSET Nat, S # {}
    PROVE  \E x \in S : \A y \in S : x <= y
<1>1. PICK x \in S : \A y \in S : <<y, x>> \notin OpToRel(<, Nat)
  BY NatLessThanWellFounded, WFMin
<1>2. \A y \in S : ~(y < x)
  BY <1>1 DEF OpToRel
<1> QED
  BY <1>2

\* There is a first module, in the order of the registry.
LEMMA FirstExists ==
    ASSUME NEW S \in SUBSET Modules, S # {}
    PROVE  \E n \in S : \A o \in S : Rank[n] <= Rank[o]
<1> DEFINE R == {Rank[n] : n \in S}
<1>1. R \in SUBSET Nat /\ R # {}
  BY OrchestratorAssumption
<1> HIDE DEF R
<1>2. PICK x \in R : \A y \in R : x <= y
  BY <1>1, LeastExists
<1> QED
  BY <1>2 DEF R

LEMMA ReviewKeeps ==
    ASSUME OrchestratorInv, Watched, NEW t \in Tasks, Review(t)
    PROVE  OrchestratorInv'
<1> DEFINE f      == Top(t)
           acting == {n \in f.todo : Verdict(n, f) # "pass"}
           first  == CHOOSE n \in acting : \A o \in acting : Rank[n] <= Rank[o]
           rest   == [f EXCEPT !.stage = "loop", !.todo = {n \in f.todo : Rank[n] > Rank[first]}]
<1>1. PICK old \in {"decide", "loop"} : At(t, old)
  BY DEF Review
<1>2. f.op = "review" /\ Steps /\ UNCHANGED <<providers, display, Published>>
  BY DEF Review, display, Published
<1>3. /\ stack[t] # <<>> /\ f \in FrameType /\ Shaped(f) /\ f.stage = old
      /\ stack \in [Tasks -> Stacks]
  BY <1>1, Finds
<1>4. f.todo \subseteq Modules /\ f.module \in Modules
  BY <1>2, <1>3 DEF Shaped, FrameType
<1>5. CASE acting = {}
  <2>1. Returns(t) /\ UNCHANGED status
    BY <1>5 DEF Review
  <2> QED
    BY <1>1, <1>2, <2>1, QuietKeeps DEF Quiet, site, display
<1>6. CASE acting # {}
  <2>1. \E n \in acting : \A o \in acting : Rank[n] <= Rank[o]
    <3>1. acting \in SUBSET Modules
      BY <1>4
    <3> HIDE DEF acting
    <3> QED
      BY <1>6, <3>1, FirstExists
  <2>2. first \in acting
    BY <2>1
  <2>3. (CASE Verdict(first, f) = "start" -> Calls(t, rest, StartOf(first)) /\ UNCHANGED status
           [] Verdict(first, f) = "stop"  -> Calls(t, rest, StopOf(first)) /\ Marks(first, "stopping")
           [] Verdict(first, f) = "block" -> Calls(t, rest, MarkOf(first)) /\ Marks(first, "blocked"))
    BY <1>6 DEF Review
  <2>4. PICK m \in Modules : m = first
    BY <1>4, <2>2
  <2>5. {n \in f.todo : Rank[n] > Rank[first]} \in SUBSET Modules
    BY <1>4
  <2>6. rest \in Waiting
    BY <1>2, <1>3, <1>4, <2>5, LoopTyped
  <2>7. Verdict(first, f) \in {"start", "stop", "block"}
    <3>1. Verdict(first, f) # "pass"
      BY <2>2
    <3> HIDE DEF first, f
    <3> QED
      BY <3>1 DEF Verdict
  <2> HIDE DEF rest, first, acting
  <2>8. CASE Verdict(first, f) = "start" /\ Calls(t, rest, StartOf(first)) /\ UNCHANGED status
    <3>1. Startable(m)
      <4>1. Verdict(m, f) = "start"
        BY <2>4, <2>8
      <4> QED
        BY <4>1 DEF Verdict
    <3>2. StartOf(m) \in Frames /\ Enters(t, StartOf(m), <<rest>> \o Tail(stack[t]))
      BY <1>3, <2>4, <2>6, <2>8, NewFramesTyped, CallsEnters
    <3>3. Knows(StartOf(m))'
      BY <2>8, <3>1, NewKnows DEF Startable
    <3> QED
      BY <1>1, <1>2, <2>8, <3>2, <3>3, QuietKeeps DEF Quiet, site, display
  <2>9. CASE Verdict(first, f) = "stop" /\ Calls(t, rest, StopOf(first)) /\ Marks(first, "stopping")
    BY <1>1, <1>2, <2>4, <2>6, <2>9, ReactsKeeps DEF Quiet
  <2>10. CASE Verdict(first, f) = "block" /\ Calls(t, rest, MarkOf(first)) /\ Marks(first, "blocked")
    <3>1. status[m] # "running"
      <4>1. Verdict(m, f) = "block"
        BY <2>4, <2>10
      <4> QED
        BY <4>1 DEF Verdict
    <3> QED
      BY <1>1, <1>2, <2>4, <2>6, <2>10, <3>1, ReactsKeeps DEF Quiet
  <2> QED
    BY <2>3, <2>7, <2>8, <2>9, <2>10
<1> QED
  BY <1>5, <1>6

LEMMA EndCheckKeeps ==
    ASSUME OrchestratorInv, Watched, NEW t \in Tasks, EndCheck(t)
    PROVE  OrchestratorInv'
<1>1. /\ At(t, "check") /\ Returns(t) /\ Steps /\ UNCHANGED <<status, Published>>
      /\ providers' = providers \cup (Top(t).mods \cap Suppliers)
  BY DEF EndCheck, display, Published
<1>2. /\ stack[t] # <<>> /\ Top(t).stage = "check" /\ stack \in [Tasks -> Stacks]
      /\ providers \subseteq Suppliers /\ (calm' => calm) /\ calm' \in BOOLEAN
  BY <1>1, Finds
<1>3. Leaves(t)
  BY <1>1, <1>2, ReturnsLeaves
<1>4. Typed'
  <2>1. Typed
    BY DEF OrchestratorInv
  <2>2. ~listening => stack'["listener"] = <<>>
    BY <1>2, <1>3, <2>1 DEF Typed, Leaves, Tasks
  <2>3. UNCHANGED <<enabled, pending, events, listening, booting, changes, checks, faults>>
    BY <1>1 DEF Steps, world, counts
  <2> QED
    BY <1>1, <1>2, <1>3, <2>1, <2>2, <2>3 DEF Typed, Leaves
<1>5. ASSUME NEW n \in Modules
      PROVE  Good(n)'
  <2>1. Attended(n)'
    <3>1. /\ Doing(n, {"starting", "launch", "register"}) => Doing(n, {"starting", "launch", "register"})'
          /\ Doing(n, {"stopping", "halt"}) => Doing(n, {"stopping", "halt"})'
      BY <1>2, <1>3, DoingKept DEF Leaves
    <3>2. Attended(n) /\ faults' = faults
      BY <1>1 DEF OrchestratorInv, Good, Steps, counts
    <3> QED
      BY <1>1, <3>1, <3>2 DEF Attended
  <2>2. ASSUME calm'
        PROVE  Agrees(n)'
    <3>1. /\ Knows(Top(t))
          /\ ~Doing(n, Emitting)
          /\ Checking(n) => n \in Top(t).mods
      BY <1>2, <2>2, CalmTop DEF Emitting
    <3>2. /\ Agrees(n) /\ checks' = checks /\ enabled' = enabled
          /\ Leaving(n)' <=> Leaving(n)
      BY <1>1, <1>2, <2>2 DEF OrchestratorInv, Good, Steps, counts, world, Leaving
    <3>3. checks # 0
      BY <1>2, <3>1 DEF Knows
    <3> QED
      BY <1>1, <3>1, <3>2, <3>3 DEF Agrees
  <2> QED
    BY <2>1, <2>2 DEF Good
<1>6. KnowsNext(t)
  BY <1>3, LeavesKnows
<1>7. ASSUME calm'
      PROVE  pending' = None /\ \A u \in Tasks : stack'[u] # <<>> => Knows(Top(u))'
  <2>1. pending = None /\ \A u \in Tasks \ {t} : stack'[u] = <<>>
    BY <1>2, <1>3, <1>7, CalmTop DEF Leaves
  <2> QED
    BY <1>1, <1>6, <1>7, <2>1 DEF KnowsNext, Steps, world
<1>8. (calm' => faults' = 0) /\ (calm' => \E u \in Tasks : stack'[u] = <<>>)
  BY DEF Watched
<1>9. Knowing' /\ Alone' /\ Announced'
  BY <1>2, <1>7, <1>8 DEF Knowing, Alone, Announced
<1> QED
  BY <1>2, <1>4, <1>5, <1>8, <1>9 DEF OrchestratorInv

-----------------------------------------------------------------------------
(* The steps that put a task at work, and those of the API and of Redis.   *)

LEMMA SingleTyped ==
    ASSUME NEW f \in Frames
    PROVE  <<f>> \in Stacks /\ <<f>> # <<>> /\ Head(<<f>>) = f
<1>1. <<f>> \in Seq(Frames) /\ Head(<<f>>) = f /\ Tail(<<f>>) = << >>
  OBVIOUS
<1>2. << >> \in Seq(Waiting) /\ <<f>> # << >>
  OBVIOUS
<1> QED
  BY <1>1, <1>2 DEF Stacks

LEMMA EmptyTyped == << >> \in Stacks
BY DEF Stacks

\* A task that was in no coroutine hides none of the other.
LEMMA IdleKept ==
    ASSUME NEW t \in Tasks, stack[t] = <<>>, \A u \in Tasks \ {t} : stack'[u] = stack[u], NEW n
    PROVE  /\ \A stages : Doing(n, stages) => Doing(n, stages)'
           /\ Checking(n) => Checking(n)'
BY DEF Doing, Checking, Top

LEMMA StackKept ==
    ASSUME UNCHANGED stack, NEW n
    PROVE  /\ \A stages : Doing(n, stages) => Doing(n, stages)'
           /\ Checking(n) => Checking(n)'
BY DEF Doing, Checking, Top

LEMMA LeavingAppend ==
    ASSUME events \in Seq(Events), NEW e \in Events, events' = Append(events, e), NEW n
    PROVE  /\ Leaving(n) => Leaving(n)'
           /\ e = [module |-> n, what |-> "disable"] => Leaving(n)'
<1>1. /\ Len(events') = Len(events) + 1 /\ Len(events) \in Nat
      /\ events'[Len(events) + 1] = e
      /\ \A i \in 1 .. Len(events) : events'[i] = events[i]
  BY AppendProperties, LenProperties
<1> QED
  BY <1>1 DEF Leaving

LEMMA LeavingTail ==
    ASSUME events \in Seq(Events), events # <<>>, events' = Tail(events), NEW n, Leaving(n),
           Head(events) # [module |-> n, what |-> "disable"]
    PROVE  Leaving(n)'
<1>1. /\ Head(events) = events[1] /\ Len(events') = Len(events) - 1 /\ Len(events) \in Nat
      /\ \A i \in 1 .. Len(events') : events'[i] = events[i + 1]
  BY HeadTailProperties, LenProperties
<1>2. PICK i \in 1 .. Len(events) : events[i] = [module |-> n, what |-> "disable"]
  BY DEF Leaving
<1>3. i # 1 /\ i - 1 \in 1 .. Len(events') /\ (i - 1) + 1 = i
  BY <1>1, <1>2
<1>4. events'[i - 1] = [module |-> n, what |-> "disable"]
  BY <1>1, <1>2, <1>3
<1> QED
  BY <1>3, <1>4 DEF Leaving

LEMMA EndSetupKeeps ==
    ASSUME OrchestratorInv, Watched, EndSetup
    PROVE  OrchestratorInv'
<1>1. UNCHANGED <<enabled, pending, events, status, providers, Published, stack, changes, checks, faults>>
  BY DEF EndSetup, world, site, counts, display, Published
<1>2. listening' = TRUE /\ booting' = FALSE
  BY DEF EndSetup
<1>3. Typed
  BY DEF OrchestratorInv
<1>4. calm' \in BOOLEAN /\ (calm' => calm)
  BY <1>3 DEF Watched, Typed
<1>5. Typed'
  BY <1>1, <1>2, <1>3, <1>4 DEF Typed
<1>6. ASSUME NEW n \in Modules
      PROVE  Good(n)'
  BY <1>1, <1>4 DEF OrchestratorInv, Good, Attended, Agrees, Doing, Checking, Leaving, Top
<1>7. Knowing' /\ Alone' /\ Announced'
  BY <1>1, <1>4
  DEF OrchestratorInv, Knowing, Knows, Startable, Alone, Announced, Busy, Top, Leaving
<1> QED
  BY <1>1, <1>4, <1>5, <1>6, <1>7 DEF OrchestratorInv

LEMMA ReconcileKeeps ==
    ASSUME OrchestratorInv, Watched, Reconcile
    PROVE  OrchestratorInv'
<1>1. /\ UNCHANGED <<enabled, pending, events, status, providers, Published, listening, booting,
                     changes, checks, faults>>
      /\ ~booting /\ stack["lane"] = <<>>
      /\ stack' = [stack EXCEPT !["lane"] = <<SyncOf>>]
  BY DEF Reconcile, Steps, world, site, counts, display, Published
<1>2. Typed /\ "lane" \in Tasks /\ "listener" \in Tasks
  BY DEF OrchestratorInv, Tasks
<1>3. calm' \in BOOLEAN /\ (calm' => calm)
  BY <1>2 DEF Watched, Typed
<1>4. /\ stack' \in [Tasks -> Stacks] /\ stack'["lane"] = <<SyncOf>>
      /\ stack'["listener"] = stack["listener"]
      /\ \A u \in Tasks \ {"lane"} : stack'[u] = stack[u]
      /\ stack'["lane"] # <<>> /\ Head(stack'["lane"]) = SyncOf
  BY <1>1, <1>2, NewFramesTyped, SingleTyped DEF Typed
<1>5. Typed'
  BY <1>1, <1>2, <1>3, <1>4 DEF Typed
<1>6. ASSUME NEW n \in Modules
      PROVE  Good(n)'
  <2>1. /\ \A stages : Doing(n, stages) => Doing(n, stages)'
        /\ Checking(n) => Checking(n)'
    BY <1>1, <1>2, <1>4, IdleKept
  <2>2. Good(n) /\ (Leaving(n)' <=> Leaving(n))
    BY <1>1 DEF OrchestratorInv, Leaving
  <2>3. Attended(n)'
    BY <1>1, <2>1, <2>2 DEF Good, Attended
  <2>4. calm' => Agrees(n)'
    BY <1>1, <1>3, <2>1, <2>2 DEF Good, Agrees
  <2> QED
    BY <2>3, <2>4 DEF Good
<1>7. Knowing'
  <2>1. Knows(SyncOf)'
    BY NewKnows
  <2>2. calm' => \A u \in Tasks \ {"lane"} : stack'[u] = <<>>
    BY <1>4 DEF Watched, Tasks
  <2> QED
    BY <1>4, <2>1, <2>2 DEF Knowing, Top
<1>8. Alone' /\ Announced'
  BY <1>1, <1>2, <1>4 DEF Watched, Alone, Announced, Busy
<1> QED
  BY <1>3, <1>5, <1>6, <1>7, <1>8 DEF OrchestratorInv, Watched

LEMMA BeginCheckKeeps ==
    ASSUME OrchestratorInv, Watched, BeginCheck
    PROVE  OrchestratorInv'
<1>1. /\ UNCHANGED <<enabled, pending, events, status, Published, listening, booting, changes, faults>>
      /\ ~booting /\ stack["lane"] = <<>> /\ checks < MaxChecks /\ checks' = checks + 1
      /\ providers' = {}
      /\ stack' = [stack EXCEPT !["lane"] = <<CheckOf(enabled)>>]
  BY DEF BeginCheck, world, display, Published
<1>2. Typed /\ "lane" \in Tasks /\ "listener" \in Tasks
  BY DEF OrchestratorInv, Tasks
<1>3. calm' \in BOOLEAN /\ (calm' => calm)
  BY <1>2 DEF Watched, Typed
<1>4. /\ stack' \in [Tasks -> Stacks]
      /\ stack'["listener"] = stack["listener"]
      /\ \A u \in Tasks \ {"lane"} : stack'[u] = stack[u]
      /\ stack'["lane"] # <<>> /\ Head(stack'["lane"]) = CheckOf(enabled)
  <2>1. enabled \in SUBSET Modules
    BY <1>2 DEF Typed
  <2>2. CheckOf(enabled) \in Frames
    BY <2>1, NewFramesTyped
  <2> QED
    BY <1>1, <1>2, <2>2, SingleTyped DEF Typed
<1>5. checks' \in 0 .. MaxChecks /\ checks' # 0
  BY <1>1, <1>2, OrchestratorAssumption DEF Typed
<1>6. Typed'
  BY <1>1, <1>2, <1>3, <1>4, <1>5 DEF Typed
<1>7. CheckOf(enabled).stage = "check" /\ CheckOf(enabled).mods = enabled /\ CheckOf(enabled).op = "check"
  BY DEF CheckOf, Frame
<1>8. ASSUME NEW n \in Modules
      PROVE  Good(n)'
  <2>1. \A stages : Doing(n, stages) => Doing(n, stages)'
    BY <1>1, <1>2, <1>4, IdleKept
  <2>2. Good(n) /\ (Leaving(n)' <=> Leaving(n))
    BY <1>1 DEF OrchestratorInv, Leaving
  <2>3. Attended(n)'
    BY <1>1, <2>1, <2>2 DEF Good, Attended
  <2>4. ASSUME calm'
        PROVE  Agrees(n)'
    <3>1. n \in enabled => Checking(n)'
      BY <1>2, <1>4, <1>7 DEF Checking, Top
    <3>2. Agrees(n)
      BY <1>3, <2>2, <2>4 DEF Good
    <3> QED
      BY <1>1, <2>1, <2>2, <3>1, <3>2 DEF Agrees
  <2> QED
    BY <2>3, <2>4 DEF Good
<1>9. Knowing'
  <2>1. Top("lane")' = CheckOf(enabled)
    BY <1>4 DEF Top
  <2>2. Knows(Top("lane"))'
    BY <1>1, <1>5, <1>7, <2>1 DEF Knows
  <2>3. calm' => \A u \in Tasks \ {"lane"} : stack'[u] = <<>>
    BY <1>4 DEF Watched, Tasks
  <2> QED
    BY <2>2, <2>3 DEF Knowing
<1>10. Alone' /\ Announced'
  BY <1>1, <1>2, <1>4 DEF Watched, Alone, Announced, Busy
<1> QED
  BY <1>3, <1>6, <1>8, <1>9, <1>10 DEF OrchestratorInv, Watched

LEMMA TakeEventKeeps ==
    ASSUME OrchestratorInv, Watched, TakeEvent
    PROVE  OrchestratorInv'
<1> DEFINE event  == Head(events)
           stops  == event.what \in {"disable", "restart"} /\ Stoppable(event.module)
           starts == event.what = "enable" /\ Startable(event.module)
           after  == IF event.what = "restart" THEN <<RestartOf(event.module)>> ELSE <<>>
<1>1. /\ listening /\ stack["listener"] = <<>> /\ events # <<>> /\ events' = Tail(events)
      /\ UNCHANGED <<enabled, pending, providers, Published, listening, booting, changes, checks, faults>>
      /\ stack' = [stack EXCEPT !["listener"] =
                      CASE stops  -> <<StopOf(event.module)>> \o after
                        [] starts -> <<StartOf(event.module)>>
                        [] OTHER  -> after]
      /\ IF stops THEN Marks(event.module, "stopping") ELSE UNCHANGED status
  BY DEF TakeEvent, counts, display, Published
<1>2. Typed /\ "listener" \in Tasks /\ "lane" \in Tasks
  BY DEF OrchestratorInv, Tasks
<1>3. calm' \in BOOLEAN /\ (calm' => calm)
  BY <1>2 DEF Watched, Typed
<1>4. event \in Events /\ events' \in Seq(Events)
  BY <1>1, <1>2, HeadTailProperties DEF Typed
<1>5. PICK m \in Modules : m = event.module
  BY <1>4 DEF Events
<1>6. after \in {<<>>, <<RestartOf(m)>>}
  BY <1>5
<1>7. /\ StopOf(m) \in Frames /\ StartOf(m) \in Frames /\ RestartOf(m) \in Waiting
      /\ RestartOf(m) \in Frames
  BY NewFramesTyped, WaitingAreFrames
<1>8. after \in Seq(Waiting)
  BY <1>6, <1>7
<1>9. PICK s \in Stacks :
         /\ stack' = [stack EXCEPT !["listener"] = s]
         /\ \/ stops /\ s # <<>> /\ Head(s) = StopOf(m)
            \/ ~stops /\ starts /\ s # <<>> /\ Head(s) = StartOf(m)
            \/ ~stops /\ s = <<>>
            \/ ~stops /\ s # <<>> /\ Head(s) = RestartOf(m)
  <2>1. CASE stops
    <3>1. stack' = [stack EXCEPT !["listener"] = <<StopOf(m)>> \o after]
      BY <1>1, <1>5, <2>1
    <3>2. /\ <<StopOf(m)>> \o after \in Stacks /\ <<StopOf(m)>> \o after # <<>>
          /\ Head(<<StopOf(m)>> \o after) = StopOf(m)
      BY <1>7, <1>8, PushTyped
    <3> QED
      BY <2>1, <3>1, <3>2
  <2>2. CASE ~stops /\ starts
    <3>1. stack' = [stack EXCEPT !["listener"] = <<StartOf(m)>>]
      BY <1>1, <1>5, <2>2
    <3> QED
      BY <1>7, <2>2, <3>1, SingleTyped
  <2>3. CASE ~stops /\ ~starts
    <3>1. stack' = [stack EXCEPT !["listener"] = after]
      BY <1>1, <2>3
    <3> HIDE DEF after
    <3> QED
      BY <1>6, <1>7, <2>3, <3>1, SingleTyped, EmptyTyped
  <2> QED
    BY <2>1, <2>2, <2>3
<1> HIDE DEF after
<1>10. /\ stack' \in [Tasks -> Stacks] /\ stack'["listener"] = s
       /\ \A u \in Tasks \ {"listener"} : stack'[u] = stack[u]
  BY <1>2, <1>9 DEF Typed
<1>11. /\ status' \in [Modules -> States]
       /\ \A n \in Modules \ {m} : status'[n] = status[n]
       /\ stops => status'[m] = "stopping"
       /\ ~stops => status' = status
  <2>1. status \in [Modules -> States] /\ "stopping" \in States
    BY <1>2 DEF Typed, States
  <2>2. CASE stops
    <3>1. Marks(m, "stopping")
      BY <1>1, <1>5, <2>2
    <3> QED
      BY <2>1, <2>2, <3>1, MarksStatus
  <2>3. CASE ~stops
    BY <1>1, <2>1, <2>3
  <2> QED
    BY <2>2, <2>3
<1>12. Typed'
  BY <1>1, <1>2, <1>3, <1>4, <1>10, <1>11 DEF Typed
<1>13. /\ \A n, stages : Doing(n, stages) => Doing(n, stages)'
       /\ \A n : Checking(n) => Checking(n)'
  BY <1>1, <1>2, <1>10, IdleKept
<1>14. ASSUME NEW n, status'[n] = "running", n \in Modules, Leaving(n)
       PROVE  Leaving(n)' /\ status[n] = "running"
  <2>1. status[n] = "running"
    BY <1>11, <1>14
  <2>2. CASE event = [module |-> n, what |-> "disable"]
    <3>1. event.what = "disable" /\ n = m
      BY <1>5, <2>2
    <3>2. stops
      BY <1>5, <2>1, <3>1 DEF Stoppable
    <3> QED
      BY <1>11, <1>14, <3>1, <3>2
  <2>3. CASE event # [module |-> n, what |-> "disable"]
    BY <1>1, <1>2, <1>14, <2>1, <2>3, LeavingTail DEF Typed
  <2> QED
    BY <2>2, <2>3
<1> HIDE DEF stops, starts, event
<1>15. ASSUME stops
       PROVE  /\ Doing(m, {"stopping", "halt"})' /\ Doing(m, Emitting)'
              /\ Doing(m, {"blocked", "failed", "stopping", "halt"})'
  <2>1. stack'["listener"] # <<>> /\ Head(stack'["listener"]) = StopOf(m)
    BY <1>9, <1>10, <1>15
  <2>2. Head(stack'["listener"]).module = m /\ Head(stack'["listener"]).stage = "stopping"
    BY <2>1 DEF StopOf, Frame
  <2> QED
    BY <1>2, <2>1, <2>2, DoingNext DEF Emitting
<1>16. ASSUME NEW n \in Modules
       PROVE  Good(n)'
  <2>1. Good(n)
    BY DEF OrchestratorInv
  <2>2. CASE stops /\ n = m
    BY <1>11, <1>15, <2>2 DEF Good, Attended, Agrees
  <2>3. CASE ~(stops /\ n = m)
    <3>1. status'[n] = status[n]
      BY <1>11, <2>3
    <3>2. Attended(n)'
      BY <1>1, <1>13, <2>1, <3>1 DEF Good, Attended
    <3>3. ASSUME calm'
          PROVE  Agrees(n)'
      <4>1. Agrees(n)
        BY <1>3, <2>1, <3>3 DEF Good
      <4>2. status'[n] = "running" /\ ~Leaving(n)' => ~Leaving(n)
        BY <1>14
      <4> QED
        BY <1>1, <1>13, <3>1, <4>1, <4>2 DEF Agrees
    <3> QED
      BY <3>2, <3>3 DEF Good
  <2> QED
    BY <2>2, <2>3
<1>17. Knowing'
  <2> SUFFICES ASSUME calm', NEW t \in Tasks, stack'[t] # <<>>
               PROVE  Knows(Top(t))'
    BY DEF Knowing
  <2>1. CASE t = "listener"
    <3>1. Top(t)' = Head(s)
      BY <1>10, <2>1 DEF Top
    <3>2. CASE stops
      BY <1>9, <1>11, <3>1, <3>2, NewKnows DEF Knows
    <3>3. CASE ~stops /\ Head(s) = StartOf(m) /\ starts
      BY <1>5, <1>11, <3>1, <3>3, NewKnows DEF Knows, starts, Startable
    <3>4. CASE ~stops /\ Head(s) = RestartOf(m)
      BY <3>1, <3>4, NewKnows DEF Knows
    <3> QED
      BY <1>9, <1>10, <2>1, <3>2, <3>3, <3>4
  <2>2. CASE t = "lane"
    <3>1. s = <<>>
      BY <1>10, <2>2 DEF Watched, Tasks
    <3>2. ~stops
      BY <1>9, <3>1
    <3>3. status' = status /\ Top(t)' = Top(t) /\ enabled' = enabled /\ checks' = checks
      BY <1>1, <1>10, <1>11, <2>2, <3>2 DEF Top
    <3>4. Knows(Top(t))
      BY <1>2, <1>3, <1>10, <2>2 DEF OrchestratorInv, Knowing
    <3> QED
      BY <3>3, <3>4 DEF Knows, Startable
  <2> QED
    BY <2>1, <2>2 DEF Tasks
<1>18. Announced'
  <2> SUFFICES ASSUME calm', pending # None
               PROVE  /\ ~Busy'
                      /\ ~pending.on =>
                          /\ status'[pending.module] = "running" => Leaving(pending.module)'
                          /\ pending.module \in enabled =>
                              \A n \in enabled \ {pending.module} : pending.module \notin Deps[n]
    BY <1>1 DEF Announced, Leaving
  <2>1. ~Busy' /\ Announced /\ pending.module \in Modules
    BY <1>1, <1>2 DEF Watched, OrchestratorInv, Typed
  <2>2. PICK n \in Modules : n = pending.module
    BY <2>1
  <2>3. status'[n] = "running" => status[n] = "running"
    BY <1>11
  <2>4. ~pending.on /\ status'[n] = "running" => Leaving(n)
    BY <1>3, <2>1, <2>2, <2>3 DEF Announced
  <2>5. ~pending.on /\ status'[n] = "running" => Leaving(n)'
    BY <1>14, <2>4
  <2>6. Leaving(n)' <=> Leaving(pending.module)'
    BY <1>1, <2>2 DEF Leaving
  <2> QED
    BY <1>3, <2>1, <2>2, <2>5, <2>6 DEF Announced
<1>19. Alone'
  BY DEF Watched, Alone
<1> QED
  BY <1>3, <1>12, <1>16, <1>17, <1>18, <1>19 DEF OrchestratorInv, Watched

\* A message of the API, and what is published for a change.
LEMMA PublishesKept ==
    ASSUME Typed, NEW e \in Events, Publishes(e)
    PROVE  /\ events' \in Seq(Events)
           /\ ~listening => events' = <<>>
           /\ \A n : Leaving(n) => Leaving(n)'
           /\ \A n : e = [module |-> n, what |-> "disable"] /\ events' # events => Leaving(n)'
<1>1. CASE listening /\ events' = Append(events, e)
  <2>1. events' \in Seq(Events)
    BY <1>1, AppendProperties DEF Typed
  <2> QED
    BY <1>1, <2>1, LeavingAppend DEF Typed
<1>2. CASE UNCHANGED events
  BY <1>2 DEF Typed, Leaving
<1> QED
  BY <1>1, <1>2 DEF Publishes

\* What a step leaves of each module that moves neither the tasks nor the states.
LEMMA WorldGood ==
    ASSUME OrchestratorInv, Watched,
           UNCHANGED <<status, providers, Published, stack, checks, faults>>,
           \A n : Leaving(n) => Leaving(n)', NEW n \in Modules,
           calm' /\ status[n] = "running" /\ ~Leaving(n) /\ n \in enabled /\ Deps[n] \subseteq enabled
               => n \in enabled' /\ Deps[n] \subseteq enabled'
    PROVE  Good(n)'
<1>1. /\ \A stages : Doing(n, stages) => Doing(n, stages)'
      /\ Checking(n) => Checking(n)'
  BY StackKept
<1>2. Good(n)
  BY DEF OrchestratorInv
<1>3. Attended(n)'
  BY <1>1, <1>2 DEF Good, Attended
<1>4. ASSUME calm'
      PROVE  Agrees(n)'
  <2>1. Agrees(n)
    BY <1>2, <1>4 DEF Good, Watched
  <2> QED
    BY <1>1, <1>4, <2>1 DEF Agrees
<1> QED
  BY <1>3, <1>4 DEF Good

LEMMA SetEnabledKeeps ==
    ASSUME OrchestratorInv, Watched, NEW m \in Modules, NEW on \in BOOLEAN, SetEnabled(m, on)
    PROVE  OrchestratorInv'
<1> DEFINE e == [module |-> m, what |-> IF on THEN "enable" ELSE "disable"]
<1>1. /\ UNCHANGED <<enabled, status, providers, Published, stack, listening, booting, checks, faults>>
      /\ pending = None /\ (~on => CanDisable(m)) /\ Publishes(e)
      /\ pending' = [module |-> m, on |-> on]
      /\ changes < MaxChanges /\ changes' = changes + 1
  BY DEF SetEnabled, Change, site, tasks, display, Published
<1>2. Typed
  BY DEF OrchestratorInv
<1>3. calm' \in BOOLEAN /\ (calm' => calm)
  BY <1>2 DEF Watched, Typed
<1>4. e \in Events /\ (~on => e = [module |-> m, what |-> "disable"])
  BY DEF Events
<1>5. /\ events' \in Seq(Events)
      /\ ~listening => events' = <<>>
      /\ \A n : Leaving(n) => Leaving(n)'
      /\ ~on /\ events' # events => Leaving(m)'
  BY <1>1, <1>2, <1>4, PublishesKept
<1>6. changes' \in 0 .. MaxChanges /\ changes' # changes
  BY <1>1, <1>2, OrchestratorAssumption DEF Typed
<1>7. pending'.module = m /\ pending'.on = on
  BY <1>1
<1>8. Typed'
  BY <1>1, <1>2, <1>3, <1>5, <1>6, <1>7 DEF Typed
<1>9. \A n \in Modules : Good(n)'
  BY <1>1, <1>5, WorldGood
<1>10. Knowing'
  BY <1>1, <1>3 DEF OrchestratorInv, Knowing, Knows, Startable, Top
<1>11. Announced'
  <2> SUFFICES ASSUME calm', pending' # None
               PROVE  /\ ~Busy'
                      /\ ~on => Leaving(m)'
                      /\ ~on => (m \in enabled' =>
                                   \A n \in enabled' \ {m} : m \notin Deps[n])
    <3>1. Leaving(m)' <=> Leaving(pending.module)'
      BY <1>7 DEF Leaving
    <3> QED
      BY <1>7, <3>1 DEF Announced
  <2>1. ~Busy' /\ events' # events
    BY <1>6 DEF Watched
  <2> QED
    BY <1>1, <1>5, <2>1 DEF CanDisable
<1>12. Alone'
  BY DEF Watched, Alone
<1> QED
  BY <1>3, <1>8, <1>9, <1>10, <1>11, <1>12 DEF OrchestratorInv, Watched

LEMMA ApplyKeeps ==
    ASSUME OrchestratorInv, Watched, NEW m \in Modules, Apply(m)
    PROVE  OrchestratorInv'
<1> DEFINE e == [module |-> m, what |-> "restart"]
<1>1. /\ UNCHANGED <<enabled, pending, status, providers, Published, stack, listening, booting,
                     checks, faults>>
      /\ Publishes(e)
      /\ changes < MaxChanges /\ changes' = changes + 1
  BY DEF Apply, Change, site, tasks, display, Published
<1>2. Typed
  BY DEF OrchestratorInv
<1>3. calm' \in BOOLEAN /\ (calm' => calm)
  BY <1>2 DEF Watched, Typed
<1>4. e \in Events
  BY DEF Events
<1>5. /\ events' \in Seq(Events)
      /\ ~listening => events' = <<>>
      /\ \A n : Leaving(n) => Leaving(n)'
  BY <1>1, <1>2, <1>4, PublishesKept
<1>6. changes' \in 0 .. MaxChanges
  BY <1>1, <1>2, OrchestratorAssumption DEF Typed
<1>7. Typed'
  BY <1>1, <1>2, <1>3, <1>5, <1>6 DEF Typed
<1>8. \A n \in Modules : Good(n)'
  BY <1>1, <1>5, WorldGood
<1>9. Knowing'
  BY <1>1, <1>3 DEF OrchestratorInv, Knowing, Knows, Startable, Top
<1>10. Announced'
  <2>1. Announced
    BY DEF OrchestratorInv
  <2>2. Leaving(pending.module) => Leaving(pending.module)'
    <3>1. PICK n : n = pending.module
      OBVIOUS
    <3>2. Leaving(n)' <=> Leaving(pending.module)'
      BY <1>1, <3>1 DEF Leaving
    <3> QED
      BY <1>5, <3>1, <3>2
  <2> QED
    BY <1>1, <1>3, <2>1, <2>2 DEF Announced, Busy
<1>11. Alone'
  BY DEF Watched, Alone
<1> QED
  BY <1>3, <1>7, <1>8, <1>9, <1>10, <1>11 DEF OrchestratorInv, Watched

LEMMA ReconfigureKeeps ==
    ASSUME OrchestratorInv, Watched, NEW m \in Modules, Reconfigure(m)
    PROVE  OrchestratorInv'
<1>1. /\ UNCHANGED <<pending, events, status, providers, Published, stack, listening, booting,
                     checks, faults>>
      /\ changes < MaxChanges /\ changes' = changes + 1
      /\ enabled' = IF m \in enabled THEN enabled \ {m} ELSE enabled \cup {m}
  BY DEF Reconfigure, Change, site, tasks, display, Published
<1>2. Typed
  BY DEF OrchestratorInv
<1>3. changes' \in 0 .. MaxChanges /\ changes' # changes
  BY <1>1, <1>2, OrchestratorAssumption DEF Typed
<1>4. calm' = FALSE
  BY <1>1, <1>2, <1>3 DEF Watched, Typed
<1>5. Typed'
  BY <1>1, <1>2, <1>3, <1>4 DEF Typed
<1>6. \A n \in Modules : Good(n)'
  BY <1>1, <1>4, WorldGood DEF Leaving
<1> QED
  BY <1>4, <1>5, <1>6 DEF OrchestratorInv, Knowing, Alone, Announced

LEMMA CommitKeeps ==
    ASSUME OrchestratorInv, Watched, Commit
    PROVE  OrchestratorInv'
<1>1. /\ UNCHANGED <<events, status, providers, Published, stack, listening, booting,
                     changes, checks, faults>>
      /\ pending # None /\ pending' = None
      /\ enabled' = IF pending.on THEN enabled \cup {pending.module} ELSE enabled \ {pending.module}
  BY DEF Commit, site, tasks, counts, display, Published
<1>2. Typed
  BY DEF OrchestratorInv
<1>3. calm' \in BOOLEAN /\ (calm' => calm)
  BY <1>2 DEF Watched, Typed
<1>4. pending.module \in Modules /\ pending.on \in BOOLEAN
  BY <1>1, <1>2 DEF Typed
<1>5. Typed'
  BY <1>1, <1>2, <1>3, <1>4 DEF Typed
<1>6. ASSUME NEW n \in Modules
      PROVE  Good(n)'
  <2>1. ASSUME calm', status[n] = "running", ~Leaving(n), n \in enabled, Deps[n] \subseteq enabled
        PROVE  n \in enabled' /\ Deps[n] \subseteq enabled'
    <3>1. CASE pending.on = TRUE
      BY <1>1, <2>1, <3>1
    <3>2. CASE pending.on = FALSE
      <4>1. /\ status[pending.module] = "running" => Leaving(pending.module)
            /\ pending.module \in enabled =>
                 \A k \in enabled \ {pending.module} : pending.module \notin Deps[k]
        BY <1>1, <1>3, <2>1, <3>2 DEF OrchestratorInv, Announced
      <4>2. n # pending.module
        BY <2>1, <4>1
      <4> QED
        BY <1>1, <2>1, <3>2, <4>1, <4>2
    <3> QED
      BY <1>4, <3>1, <3>2
  <2>2. \A k : Leaving(k) => Leaving(k)'
    BY <1>1 DEF Leaving
  <2> QED
    BY <1>1, <2>1, <2>2, WorldGood
<1>7. Knowing'
  <2> SUFFICES ASSUME calm', NEW t \in Tasks, stack[t] # <<>>
               PROVE  Knows(Top(t))'
    BY <1>1 DEF Knowing
  <2>1. FALSE
    BY <1>1, <1>3 DEF OrchestratorInv, Announced, Busy
  <2> QED
    BY <2>1
<1>8. Alone' /\ Announced'
  BY <1>1 DEF Watched, Alone, Announced
<1> QED
  BY <1>3, <1>5, <1>6, <1>7, <1>8 DEF OrchestratorInv, Watched

LEMMA ExpireKeeps ==
    ASSUME OrchestratorInv, Watched, NEW m \in Modules, Expire(m)
    PROVE  OrchestratorInv'
<1>1. /\ UNCHANGED <<enabled, pending, events, status, providers, stack, listening, booting,
                     changes, checks, faults>>
      /\ m \in Published /\ Published' \subseteq Published
      /\ \A n \in Modules \ {m} : n \in Published' <=> n \in Published
      /\ status[m] = "running" => m \in Published'
  BY DEF Expire, Running, Published, world, tasks, counts
<1>2. Typed
  BY DEF OrchestratorInv
<1>3. calm' \in BOOLEAN /\ (calm' => calm)
  BY <1>2 DEF Watched, Typed
<1>4. Typed'
  BY <1>1, <1>2, <1>3 DEF Typed
<1>5. ASSUME NEW n \in Modules
      PROVE  Good(n)'
  <2>1. /\ \A stages : Doing(n, stages) => Doing(n, stages)'
        /\ Checking(n) => Checking(n)'
        /\ Leaving(n)' <=> Leaving(n)
    BY <1>1, StackKept DEF Leaving
  <2>2. Good(n)
    BY DEF OrchestratorInv
  <2>3. Attended(n)'
    BY <1>1, <2>1, <2>2 DEF Good, Attended
  <2>4. ASSUME calm'
        PROVE  Agrees(n)'
    <3>1. Agrees(n)
      BY <1>3, <2>2, <2>4 DEF Good
    <3> QED
      BY <1>1, <2>1, <3>1 DEF Agrees
  <2> QED
    BY <2>3, <2>4 DEF Good
<1>6. Knowing' /\ Alone' /\ Announced'
  BY <1>1, <1>3
  DEF OrchestratorInv, Knowing, Knows, Startable, Alone, Announced, Busy, Top, Leaving
<1> QED
  BY <1>3, <1>4, <1>5, <1>6 DEF OrchestratorInv, Watched

-----------------------------------------------------------------------------
(* The faults.                                                             *)

LEMMA BootedTyped ==
    /\ Booted \in [Tasks -> Stacks]
    /\ Booted["listener"] = <<>> /\ Booted["lane"] = <<SyncOf>>
    /\ \A t \in Tasks : Booted[t] # <<>> => Head(Booted[t]) = SyncOf
<1>1. <<SyncOf>> \in Stacks /\ <<SyncOf>> # <<>> /\ Head(<<SyncOf>>) = SyncOf
  BY NewFramesTyped, SingleTyped
<1> QED
  BY <1>1, EmptyTyped DEF Booted, Tasks

\* After a fault nothing but the types is at stake.
LEMMA FaultInv ==
    ASSUME Typed, Fault, Watched, faults' \in 0 .. MaxFaults => Typed'
    PROVE  OrchestratorInv'
<1>1. faults' \in 0 .. MaxFaults /\ faults' # 0
  BY OrchestratorAssumption DEF Fault, Typed
<1>2. calm' = FALSE
  BY <1>1 DEF Watched, Typed
<1> QED
  BY <1>1, <1>2 DEF OrchestratorInv, Good, Attended, Knowing, Alone, Announced

LEMMA BootsTyped ==
    ASSUME Typed, Boots, UNCHANGED <<enabled, pending, Published, changes, checks>>,
           faults' \in 0 .. MaxFaults, calm' \in BOOLEAN
    PROVE  Typed'
<1>1. /\ status' \in [Modules -> States] /\ providers' \subseteq Suppliers
      /\ events' \in Seq(Events) /\ stack' \in [Tasks -> Stacks] /\ stack'["listener"] = <<>>
      /\ listening' = FALSE /\ booting' = TRUE /\ events' = <<>>
  BY BootedTyped, EmptySeq DEF Boots, States
<1> QED
  BY <1>1 DEF Typed

LEMMA CrashKeeps ==
    ASSUME OrchestratorInv, Watched, Crash
    PROVE  OrchestratorInv'
<1>1. Typed /\ calm' \in BOOLEAN
  BY DEF OrchestratorInv, Typed, Watched
<1> QED
  BY <1>1, BootsTyped, FaultInv DEF Crash, display, Published

LEMMA FlushKeeps ==
    ASSUME OrchestratorInv, Watched, Flush
    PROVE  OrchestratorInv'
<1>1. Typed /\ calm' \in BOOLEAN
  BY DEF OrchestratorInv, Typed, Watched
<1>2. /\ UNCHANGED <<enabled, pending, events, status, providers, stack, listening, booting,
                     changes, checks>>
      /\ Published' = {} /\ Fault
  BY DEF Flush, world, tasks, display, Published
<1>3. faults' \in 0 .. MaxFaults => Typed'
  BY <1>1, <1>2 DEF Typed
<1> QED
  BY <1>1, <1>2, <1>3, FaultInv

LEMMA LaunchFailsKeeps ==
    ASSUME OrchestratorInv, Watched, NEW t \in Tasks, LaunchFails(t)
    PROVE  OrchestratorInv'
<1>1. Typed /\ calm' \in BOOLEAN
  BY DEF OrchestratorInv, Typed, Watched
<1>2. /\ UNCHANGED <<enabled, pending, events, providers, Published, listening, booting,
                     changes, checks>>
      /\ Fault /\ At(t, "launch") /\ Marks(Top(t).module, "blocked") /\ Goes(t, "launchBlocked")
  BY DEF LaunchFails, world, display, Published
<1>3. /\ stack[t] # <<>> /\ Shaped(Top(t)) /\ Top(t).stage = "launch"
      /\ stack \in [Tasks -> Stacks] /\ status \in [Modules -> States]
  BY <1>2, Finds
<1>4. Top(t).module \in Modules /\ Top(t).op = "start"
  BY <1>3 DEF Shaped, StartStages
<1>5. status' \in [Modules -> States]
  BY <1>2, <1>3, <1>4, MarksStatus DEF States
<1>6. "launchBlocked" \in StartStages /\ "launchBlocked" \notin StopStages
  BY DEF StartStages, StopStages
<1>7. /\ stack' \in [Tasks -> Stacks]
      /\ \A u \in Tasks \ {t} : stack'[u] = stack[u]
  BY <1>2, <1>3, <1>4, <1>6, GoesEnters DEF Enters
<1>8. ~listening => stack'["listener"] = <<>>
  BY <1>1, <1>3, <1>7 DEF Typed, Tasks
<1>9. faults' \in 0 .. MaxFaults => Typed'
  BY <1>1, <1>2, <1>5, <1>7, <1>8 DEF Typed
<1> QED
  BY <1>1, <1>2, <1>9, FaultInv

\* The innermost start that is inside its try.
LEMMA CatcherExists ==
    ASSUME stack \in [Tasks -> Stacks], NEW t \in Tasks,
           \E k \in DOMAIN stack[t] : Catches(stack[t][k])
    PROVE  Catcher(t) \in DOMAIN stack[t] /\ Catches(stack[t][Catcher(t)])
<1> DEFINE K == {k \in DOMAIN stack[t] : Catches(stack[t][k])}
<1>1. DOMAIN stack[t] = 1 .. Len(stack[t]) /\ Len(stack[t]) \in Nat
  BY LenProperties DEF Stacks
<1>2. K \in SUBSET Nat /\ K # {}
  BY <1>1
<1>3. PICK k \in K : \A j \in K : k <= j
  <2> HIDE DEF K
  <2> QED
    BY <1>2, LeastExists
<1>4. k \in DOMAIN stack[t] /\ Catches(stack[t][k])
  OBVIOUS
<1>5. \A j \in 1 .. k - 1 : ~Catches(stack[t][j])
  <2> SUFFICES ASSUME NEW j \in 1 .. k - 1, Catches(stack[t][j])
               PROVE  FALSE
    OBVIOUS
  <2>1. j \in K
    BY <1>1
  <2>2. k <= j
    BY <1>3, <2>1
  <2> QED
    BY <1>1, <2>2
<1> QED
  BY <1>4, <1>5 DEF Catcher

LEMMA RestTyped ==
    ASSUME NEW s \in Stacks, NEW k \in DOMAIN s
    PROVE  SubSeq(s, k + 1, Len(s)) \in Seq(Waiting) /\ s[k] \in Frames
<1>1. s \in Seq(Frames) /\ DOMAIN s = 1 .. Len(s) /\ Len(s) \in Nat
  BY LenProperties DEF Stacks
<1>2. s # <<>>
  BY <1>1, EmptySeq
<1>3. /\ Tail(s) \in Seq(Waiting) /\ Len(Tail(s)) = Len(s) - 1
      /\ \A i \in 1 .. Len(Tail(s)) : Tail(s)[i] = s[i + 1]
  BY <1>1, <1>2, HeadTailProperties DEF Stacks
<1>4. \A i \in k + 1 .. Len(s) : s[i] \in Waiting
  <2> SUFFICES ASSUME NEW i \in k + 1 .. Len(s)
               PROVE  s[i] \in Waiting
    OBVIOUS
  <2>1. i - 1 \in 1 .. Len(Tail(s)) /\ (i - 1) + 1 = i
    BY <1>1, <1>3
  <2>2. Tail(s)[i - 1] \in Waiting
    BY <1>3, <2>1, ElementOfSeq
  <2> QED
    BY <1>3, <2>1, <2>2
<1>5. k + 1 \in Int /\ Len(s) \in Int
  BY <1>1
<1>6. SubSeq(s, k + 1, Len(s)) \in Seq(Waiting)
  BY <1>4, <1>5, SubSeqProperties
<1> QED
  BY <1>1, <1>6, ElementOfSeq

LEMMA RaisesKeeps ==
    ASSUME OrchestratorInv, Watched, NEW t \in Tasks, Raises(t)
    PROVE  OrchestratorInv'
<1>1. Typed /\ calm' \in BOOLEAN
  BY DEF OrchestratorInv, Typed, Watched
<1>2. Fault /\ UNCHANGED <<enabled, pending, Published, changes, checks>>
  BY DEF Raises, display, Published
<1>3. stack \in [Tasks -> Stacks] /\ status \in [Modules -> States]
  BY <1>1 DEF Typed
<1> SUFFICES ASSUME faults' \in 0 .. MaxFaults
             PROVE  Typed'
  BY <1>1, <1>2, FaultInv
<1>4. CASE \E k \in DOMAIN stack[t] : Catches(stack[t][k])
  <2>1. PICK k \in DOMAIN stack[t] : k = Catcher(t) /\ Catches(stack[t][k])
    BY <1>3, <1>4, CatcherExists
  <2> DEFINE f == stack[t][k]
             g == [f EXCEPT !.stage = "failed"]
             s == SubSeq(stack[t], k + 1, Len(stack[t]))
  <2>2. /\ Marks(f.module, "failed")
        /\ stack' = [stack EXCEPT ![t] = <<g>> \o s]
        /\ UNCHANGED <<events, providers, listening, booting>>
    BY <1>4, <2>1 DEF Raises
  <2>3. s \in Seq(Waiting) /\ f \in Frames
    BY <1>3, RestTyped
  <2>4. g \in Frames /\ f.module \in Modules
    <3>1. f \in FrameType /\ Shaped(f) /\ f.op = "start"
      BY <2>1, <2>3 DEF Frames, Catches
    <3>2. g \in FrameType /\ g.stage = "failed" /\ g.op = "start" /\ g.module = f.module
      BY <3>1 DEF FrameType, Stages, StartStages
    <3>3. f.module \in Modules
      BY <3>1 DEF Shaped
    <3>4. Shaped(g)
      BY <3>2, <3>3 DEF Shaped, StartStages, StopStages
    <3> QED
      BY <3>2, <3>3, <3>4 DEF Frames
  <2>5. status' \in [Modules -> States]
    BY <1>3, <2>2, <2>4, MarksStatus DEF States
  <2> HIDE DEF f, g, s
  <2>6. <<g>> \o s \in Stacks
    BY <2>3, <2>4, PushTyped
  <2>7. /\ stack' \in [Tasks -> Stacks]
        /\ \A u \in Tasks \ {t} : stack'[u] = stack[u]
    BY <1>3, <2>2, <2>6
  <2>8. stack[t] # <<>>
    BY DEF Raises
  <2>9. ~listening => stack'["listener"] = <<>>
    BY <1>1, <2>7, <2>8 DEF Typed, Tasks
  <2> QED
    BY <1>1, <1>2, <2>2, <2>5, <2>7, <2>9 DEF Typed
<1>5. CASE ~(\E k \in DOMAIN stack[t] : Catches(stack[t][k])) /\ booting
  <2>1. Boots
    BY <1>5 DEF Raises
  <2> QED
    BY <1>1, <1>2, <2>1, BootsTyped
<1>6. CASE ~(\E k \in DOMAIN stack[t] : Catches(stack[t][k])) /\ ~booting
  <2>1. /\ stack' = [stack EXCEPT ![t] = <<>>]
        /\ listening' = (listening /\ t # "listener")
        /\ events' = IF t = "listener" THEN <<>> ELSE events
        /\ UNCHANGED <<status, providers, booting>>
    BY <1>6 DEF Raises
  <2>2. /\ stack' \in [Tasks -> Stacks] /\ stack'[t] = <<>>
        /\ \A u \in Tasks \ {t} : stack'[u] = stack[u]
    BY <1>3, <2>1, EmptyTyped
  <2>3. listening' \in BOOLEAN /\ events' \in Seq(Events)
    BY <1>1, <2>1, EmptySeq DEF Typed
  <2>4. ~listening' => events' = <<>> /\ stack'["listener"] = <<>>
    BY <1>1, <2>1, <2>2 DEF Typed, Tasks
  <2> QED
    BY <1>1, <1>2, <1>6, <2>1, <2>2, <2>3, <2>4 DEF Typed
<1> QED
  BY <1>4, <1>5, <1>6

-----------------------------------------------------------------------------
(* The theorems.                                                           *)

LEMMA InitInv == OrchestratorInit => OrchestratorInv
<1> SUFFICES ASSUME OrchestratorInit
             PROVE  OrchestratorInv
  OBVIOUS
<1>1. Typed
  <2>1. /\ enabled \subseteq Modules /\ pending = None /\ events \in Seq(Events)
        /\ status \in [Modules -> States] /\ providers \subseteq Suppliers /\ Published \subseteq Modules
    BY OrchestratorAssumption, EmptySeq DEF OrchestratorInit, States, Published
  <2>2. stack \in [Tasks -> Stacks] /\ stack["listener"] = <<>>
    BY BootedTyped DEF OrchestratorInit
  <2>3. changes \in 0 .. MaxChanges /\ checks \in 0 .. MaxChecks /\ faults \in 0 .. MaxFaults
    BY OrchestratorAssumption DEF OrchestratorInit
  <2> QED
    BY <2>1, <2>2, <2>3 DEF OrchestratorInit, Typed
<1>2. \A m \in Modules : Good(m)
  BY DEF OrchestratorInit, Good, Attended, Agrees, Published
<1>3. Knowing
  <2>1. Knows(SyncOf)
    BY DEF Knows, SyncOf, Frame
  <2>2. \A t \in Tasks : stack[t] # <<>> => Top(t) = SyncOf
    BY BootedTyped DEF OrchestratorInit, Top
  <2> QED
    BY <2>1, <2>2 DEF Knowing
<1>4. Alone /\ Announced /\ faults = 0
  BY BootedTyped DEF OrchestratorInit, Alone, Announced, Tasks
<1> QED
  BY <1>1, <1>2, <1>3, <1>4 DEF OrchestratorInv

LEMMA ContinueKeeps ==
    ASSUME OrchestratorInv, Watched, NEW t \in Tasks, Continue(t)
    PROVE  OrchestratorInv'
BY ReadEnabledKeeps, DecideStartKeeps, RefusedKeeps, BlockedKeeps, StartingKeeps, RunsKeeps,
   LaunchBlockedKeeps, StartedKeeps, ReviewedKeeps, FailedKeeps, StoppingKeeps, HaltKeeps,
   StoppedKeeps, ReviewKeeps, MarkedKeeps, DecideSyncKeeps, SyncStopsKeeps, SyncStartsKeeps,
   RestartKeeps, EndCheckKeeps
DEF Continue

LEMMA NextInv == OrchestratorInv /\ [OrchestratorNext]_vars => OrchestratorInv'
<1> SUFFICES ASSUME OrchestratorInv, [OrchestratorNext]_vars
             PROVE  OrchestratorInv'
  OBVIOUS
<1>1. CASE UNCHANGED vars
  <2>1. UNCHANGED <<enabled, pending, events, status, providers, Published, stack, listening, booting,
                    changes, checks, faults, calm>>
    BY <1>1 DEF vars, world, site, tasks, counts, display, Published
  <2>2. Typed' /\ Knowing' /\ Alone' /\ Announced' /\ (calm' => faults' = 0)
    BY <2>1
    DEF OrchestratorInv, Typed, Knowing, Knows, Startable, Alone, Announced, Busy, Top, Leaving
  <2>3. \A m \in Modules : Good(m)'
    BY <2>1 DEF OrchestratorInv, Good, Attended, Agrees, Doing, Checking, Leaving, Top
  <2> QED
    BY <2>2, <2>3 DEF OrchestratorInv
<1>2. CASE LaneTurn \/ ListenerTurn
  <2>1. "lane" \in Tasks /\ "listener" \in Tasks
    BY DEF Tasks
  <2>2. Watched /\ (EndSetup \/ Reconcile \/ BeginCheck \/ TakeEvent \/ \E t \in Tasks : Continue(t))
    BY <1>2, <2>1 DEF LaneTurn, ListenerTurn, Lane, Listener
  <2> QED
    BY <2>2, EndSetupKeeps, ReconcileKeeps, BeginCheckKeeps, TakeEventKeeps, ContinueKeeps
<1>3. ASSUME NEW m \in Modules, Watched,
             \/ \E on \in BOOLEAN : SetEnabled(m, on)
             \/ Apply(m) \/ Reconfigure(m) \/ Expire(m)
      PROVE  OrchestratorInv'
  BY <1>3, SetEnabledKeeps, ApplyKeeps, ReconfigureKeeps, ExpireKeeps
<1>4. CASE Watched /\ (Commit \/ Crash \/ Flush \/ \E t \in Tasks : Raises(t) \/ LaunchFails(t))
  BY <1>4, CommitKeeps, CrashKeeps, FlushKeeps, RaisesKeeps, LaunchFailsKeeps
<1> QED
  BY <1>1, <1>2, <1>3, <1>4 DEF OrchestratorNext

\* The inductive invariant: every start and stop that is under way has a coroutine
\* that ends it, and in a calm site whatever does not agree has something on its way
\* that corrects it.
THEOREM OrchestratorInvHolds == OrchestratorSpec => []OrchestratorInv
<1>1. OrchestratorInit => OrchestratorInv
  BY InitInv
<1>2. OrchestratorInv /\ [OrchestratorNext]_vars => OrchestratorInv'
  BY NextInv
<1> QED
  BY <1>1, <1>2, PTL DEF OrchestratorSpec

\* Every variable has its type, and no event is in the hands of a listener before
\* the setup is over (Collector.setup).
THEOREM OrchestratorTypeCorrect == OrchestratorSpec => []OrchestratorTypeOK
<1>1. OrchestratorInv => OrchestratorTypeOK
  BY DEF OrchestratorInv, Typed, OrchestratorTypeOK, Published
<1> QED
  BY <1>1, OrchestratorInvHolds, PTL

\* However the starts, stops and reviews of the two tasks overlap, none leaves a
\* module STARTING or STOPPING unless an await raised (start_module, stop_module).
THEOREM NoModuleHangs == OrchestratorSpec => []NothingHangs
<1>1. OrchestratorInv => NothingHangs
  BY DEF OrchestratorInv, Good, Attended, Doing, NothingHangs, AtRest, Busy
<1> QED
  BY <1>1, OrchestratorInvHolds, PTL

\* In a calm site at rest Redis shows only what runs, and all of it but the modules
\* whose key expired as they ran, and the capabilities are those of the modules that
\* run (_emit_runtime_state, register_capabilities_for_module).
THEOREM RegistriesAgree == OrchestratorSpec => []RegistryAgrees
<1>1. ASSUME OrchestratorInv, calm, AtRest, NEW m \in Modules
      PROVE  /\ m \in Published <=> m \in Running
             /\ m \in Running \cap Suppliers => m \in providers
             /\ checks = 0 /\ m \in providers => m \in Running
             /\ m \in Running => m \in enabled /\ Deps[m] \subseteq enabled
  <2>1. Agrees(m)
    BY <1>1 DEF OrchestratorInv, Good
  <2>2. ~Leaving(m)
    BY <1>1 DEF AtRest, Leaving, OrchestratorInv, Typed
  <2>3. ~Checking(m) /\ \A stages : ~Doing(m, stages)
    BY <1>1 DEF AtRest, Busy, Checking, Doing
  <2> QED
    BY <2>1, <2>2, <2>3 DEF Agrees, Running
<1>2. OrchestratorInv => RegistryAgrees
  <2> SUFFICES ASSUME OrchestratorInv, calm, AtRest
               PROVE  /\ Published = Running
                      /\ Running \cap Suppliers \subseteq providers
                      /\ checks = 0 => providers \subseteq Running
    BY DEF RegistryAgrees, Published
  <2>1. Published \subseteq Modules /\ providers \subseteq Modules /\ Running \subseteq Modules
    BY DEF OrchestratorInv, Typed, Suppliers, Running
  <2> QED
    BY <1>1, <2>1
<1> QED
  BY <1>2, OrchestratorInvHolds, PTL
=============================================================================
