--------------------------- MODULE CampaignProofs ---------------------------
(***************************************************************************)
(* A campaign of any number of cells, models, plugins, starts and faults:  *)
(* the rows of a cell come from its model, the environment is put back,    *)
(* and what is reported is on the disk.                                    *)
(*                                                                         *)
(* None of the three is inductive.  The environment is right because the   *)
(* lock lets one cell of the process inside at a time, and the cell inside *)
(* remembers what was there before; the rows are right because the         *)
(* environment was when the agent was built, and none are written without  *)
(* an agent; a report is right because a cell that has a result does not   *)
(* move any more.                                                          *)
(***************************************************************************)
EXTENDS Campaign, FiniteSetTheorems, TLAPS

Values == Priors \union {Unset} \union {ModelOf[c] : c \in Cells}

TaskType ==
  [at     : {"created", "waiting", "locking", "running", "writing", "done"},
   stage  : 1 .. 3,
   plugin : Nat,
   agent  : Values,
   prior  : Values]

CampaignTypeOK ==
  /\ runner \in {"down", "running", "over"}
  /\ options \in [skip : BOOLEAN, subprocess : BOOLEAN, dry : BOOLEAN, aggregateOnly : BOOLEAN]
  /\ env \in Values /\ before \in Values
  /\ task \in [Cells -> TaskType]
  /\ result \in [Cells -> {"none", "ok", "skipped", "failed"}]
  /\ file \in [Cells -> [size : {"absent", "empty", "part", "whole"}, model : Values]]
  /\ summary \in [Cells -> [status : {"none", "missing", "empty", "ok"}, delta : BOOLEAN]]

\* The lock: of the cells of the process at most one is inside its run, and it
\* alone has changed the environment; children need no lock.
OneInside ==
  IF InProcess THEN \A c, d \in Inside : c = d
  ELSE \A c \in Cells : task[c].at # "locking"

SetByInside == InProcess => \A c \in Inside : env = ModelOf[c] /\ task[c].prior = before

BeforeOutside == ~ InProcess \/ Inside = {} => env = before

\* An agent is there before any plugin of the last stage has run; a cell that
\* has not come in yet is at the first stage.
AgentBuilt ==
  \A c \in Cells :
    /\ \/ task[c].at = "writing"
       \/ task[c].at = "running" /\ LastStage(c) /\ task[c].plugin > 1
       => task[c].agent # Unset
    /\ task[c].at \in {"created", "waiting", "locking"} => task[c].stage = 1

\* A result is final.
ResultFinal == \A c \in Cells : result[c] # "none" => task[c].at = "done"

Lock == OneInside /\ SetByInside /\ BeforeOutside

IInv ==
  CampaignTypeOK /\ Lock /\ AgentBuilt /\ RightModel /\ ResultFinal /\ ReportedIsThere

----------------------------------------------------------------------------

LEMMA InitEstablishes == CampaignInit => IInv
<1> SUFFICES ASSUME CampaignInit PROVE IInv
  OBVIOUS
<1> USE DEF CampaignInit, Fresh, Absent, NoMetrics
<1>1. CampaignTypeOK
  BY DEF CampaignTypeOK, TaskType, Values
<1>2. Inside = {}
  BY DEF Inside
<1>3. Lock
  BY <1>2 DEF Lock, OneInside, SetByInside, BeforeOutside
<1>4. AgentBuilt /\ RightModel /\ ResultFinal /\ ReportedIsThere
  BY DEF AgentBuilt, RightModel, ResultFinal, ReportedIsThere
<1>5. QED
  BY <1>1, <1>3, <1>4 DEF IInv

\* A cell that ends, with whatever result, is fresh again but done.
LEMMA DoneTyped ==
  /\ [Fresh EXCEPT !.at = "done"] \in TaskType
  /\ [Fresh EXCEPT !.at = "done"].at = "done"
  /\ [Fresh EXCEPT !.at = "done"].agent = Unset
  /\ Fresh \in TaskType
  BY DEF Fresh, TaskType, Values

\* A task that goes elsewhere keeps the rest of its record.
LEMMA TaskElsewhere ==
  ASSUME NEW k \in TaskType, NEW p, p \in {"locking", "running", "writing"}
  PROVE  LET t == [k EXCEPT !.at = p]
         IN  /\ t \in TaskType /\ t.at = p /\ t.prior = k.prior /\ t.agent = k.agent
             /\ t.stage = k.stage /\ t.plugin = k.plugin
  BY DEF TaskType

LEMMA TaskFields ==
  ASSUME NEW k \in TaskType
  PROVE  /\ k.stage \in 1 .. 3 /\ k.plugin \in Nat
         /\ \A v \in Values :
              LET t == [k EXCEPT !.prior = v]
              IN  /\ t \in TaskType /\ t.at = k.at /\ t.prior = v /\ t.agent = k.agent
                  /\ t.stage = k.stage /\ t.plugin = k.plugin
         /\ \A v \in Values :
              LET t == [k EXCEPT !.agent = v]
              IN  /\ t \in TaskType /\ t.at = k.at /\ t.prior = k.prior /\ t.agent = v
                  /\ t.stage = k.stage /\ t.plugin = k.plugin
  BY DEF TaskType

(***************************************************************************)
(* The lock, by where a step leaves the cell.                              *)
(***************************************************************************)

\* A cell that is outside, and stays outside or takes no lock to come in.
LEMMA LockMovesOutside ==
  ASSUME IInv, NEW c \in Cells, NEW t \in TaskType,
         Goes(c, t), UNCHANGED <<options, env, before>>,
         IF InProcess THEN c \notin Inside /\ t.at \notin {"running", "writing"}
                      ELSE t.at # "locking"
  PROVE  Lock'
<1> USE DEF IInv, CampaignTypeOK, Lock
<1>1. CASE ~ InProcess
  BY <1>1 DEF OneInside, SetByInside, BeforeOutside, InProcess, Goes
<1>2. CASE InProcess
  <2>1. Inside' = Inside /\ \A d \in Inside : task'[d] = task[d]
    BY <1>2 DEF Goes, Inside
  <2>2. QED
    BY <1>2, <2>1 DEF OneInside, SetByInside, BeforeOutside, InProcess
<1>3. QED
  BY <1>1, <1>2

\* A cell that is inside and goes on.
LEMMA LockMovesInside ==
  ASSUME IInv, NEW c \in Inside, NEW t \in TaskType,
         Goes(c, t), UNCHANGED <<options, env, before>>,
         t.at \in {"running", "writing"}, t.prior = task[c].prior
  PROVE  Lock'
<1> USE DEF IInv, CampaignTypeOK, Lock
<1>1. Inside' = Inside
  BY DEF Goes, Inside
<1>2. /\ \A d \in Inside : task'[d].prior = task[d].prior
      /\ \A d \in Cells : task'[d].at = "locking" => task[d].at = "locking"
  BY DEF Goes, Inside
<1>3. QED
  BY <1>1, <1>2 DEF OneInside, SetByInside, BeforeOutside, InProcess

\* A cell that is inside and comes out, with its result or an exception.
LEMMA LockComesOut ==
  ASSUME IInv, NEW c \in Inside, NEW status, NEW ok,
         Ends(c, status), env' = Restored(c, ok), UNCHANGED <<options, before>>
  PROVE  Lock'
<1> USE DEF IInv, CampaignTypeOK, Lock
<1>1. task' = [task EXCEPT ![c] = [Fresh EXCEPT !.at = "done"]]
  BY DEF Ends, Goes
<1>2. CASE InProcess
  <2>1. Inside = {c}
    BY <1>2 DEF OneInside
  <2>2. Inside' = {}
    BY <1>1, <2>1 DEF Inside, Fresh
  <2>3. env' = before
    BY <1>2 DEF Restored, SetByInside
  <2>4. QED
    BY <1>2, <2>2, <2>3 DEF OneInside, SetByInside, BeforeOutside, InProcess
<1>3. CASE ~ InProcess
  <2>1. \A d \in Cells : task'[d].at # "locking"
    BY <1>1, <1>3, DoneTyped DEF OneInside
  <2>2. QED
    BY <1>3, <2>1 DEF Restored, OneInside, SetByInside, BeforeOutside, InProcess
<1>4. QED
  BY <1>2, <1>3

(***************************************************************************)
(* What a step of one cell leaves of the others and of the report.         *)
(***************************************************************************)

\* The invariant is kept when a cell that has no result yet moves, if the type
\* and the lock are, and what is said of the cell itself.
LEMMA OneCellMoves ==
  ASSUME IInv, NEW c \in Cells, NEW t, Goes(c, t),
         runner = "running", UNCHANGED <<runner, options>>,
         task[c].at # "done",
         \A d \in Cells \ {c} : file'[d] = file[d] /\ result'[d] = result[d],
         CampaignTypeOK', Lock',
         t.at = "writing" \/ (t.at = "running" /\ t.stage = Len(Stages) /\ t.plugin > 1)
           => t.agent # Unset,
         t.at \in {"created", "waiting", "locking"} => t.stage = 1,
         t.agent # Unset => t.agent = ModelOf[c],
         file'[c].size \in {"part", "whole"} => file'[c].model = ModelOf[c],
         result'[c] # "none" => t.at = "done",
         result'[c] = "ok" => file'[c].size = "whole",
         result'[c] = "skipped" /\ ~ options.dry => file'[c].size \in {"part", "whole"}
  PROVE  IInv'
<1> USE DEF IInv, CampaignTypeOK, Goes
<1>1. task'[c] = t /\ \A d \in Cells \ {c} : task'[d] = task[d]
  OBVIOUS
<1>2. AgentBuilt'
  BY <1>1 DEF AgentBuilt, LastStage
<1>3. RightModel'
  BY <1>1 DEF RightModel
<1>4. ResultFinal'
  BY <1>1 DEF ResultFinal
<1>5. ReportedIsThere'
  BY DEF ReportedIsThere
<1>6. QED
  BY <1>2, <1>3, <1>4, <1>5

----------------------------------------------------------------------------
\* One lemma per action of a cell.

LEMMA CheckKeeps == ASSUME IInv, NEW c \in Cells, Check(c) PROVE IInv'
<1> USE DEF IInv, CampaignTypeOK
<1>0. c \notin Inside
  BY DEF Check, Inside
<1>1. CASE ~ ((options.skip /\ AlreadyDone(c)) \/ options.dry)
  <2> DEFINE t == [task[c] EXCEPT !.at = "waiting"]
  <2>1. /\ t \in TaskType /\ t.at = "waiting" /\ t.agent = task[c].agent
        /\ Goes(c, t) /\ UNCHANGED result /\ t.stage = 1
    BY <1>1 DEF Check, TaskType, AgentBuilt
  <2>2. Lock'
    BY <1>0, <2>1, LockMovesOutside DEF Check
  <2> HIDE DEF t
  <2>3. CampaignTypeOK'
    BY <2>1 DEF Check, Goes
  <2>4. QED
    BY <2>1, <2>2, <2>3, OneCellMoves, SMTT(30) DEF Check, Awake, RightModel, ResultFinal
<1>2. CASE (options.skip /\ AlreadyDone(c)) \/ options.dry
  <2> DEFINE t == [Fresh EXCEPT !.at = "done"]
  <2>1. /\ t \in TaskType /\ t.at = "done" /\ t.agent = Unset
        /\ Goes(c, t) /\ result' = [result EXCEPT ![c] = "skipped"]
    BY <1>2, DoneTyped DEF Check, Ends
  <2>2. Lock'
    BY <1>0, <2>1, LockMovesOutside DEF Check
  <2> HIDE DEF t
  <2>3. CampaignTypeOK'
    BY <2>1 DEF Check, Goes
  <2>4. ~ options.dry => file'[c].size \in {"part", "whole"}
    BY <1>2 DEF Check, AlreadyDone
  <2>5. QED
    BY <2>1, <2>2, <2>3, <2>4, OneCellMoves, SMTT(30) DEF Check, Awake, RightModel
<1>3. QED
  BY <1>1, <1>2

LEMMA AcquireKeeps == ASSUME IInv, NEW c \in Cells, Acquire(c) PROVE IInv'
<1> USE DEF IInv, CampaignTypeOK
<1> DEFINE place == IF InProcess THEN "locking" ELSE "running"
           t == [task[c] EXCEPT !.at = place]
<1>1. /\ Goes(c, t) /\ Awake(c) /\ task[c].at = "waiting"
      /\ UNCHANGED <<runner, options, env, before, result, file, summary>>
  BY DEF Acquire
<1>2. /\ place \in {"locking", "running"}
      /\ IF InProcess THEN place = "locking" ELSE place = "running"
  OBVIOUS
<1> HIDE DEF place
<1>3. /\ t \in TaskType /\ t.at = place
      /\ t.agent = task[c].agent /\ t.stage = task[c].stage
  <2>1. task[c] \in TaskType /\ place \in {"locking", "running", "writing"}
    BY <1>2
  <2> HIDE DEF IInv, CampaignTypeOK
  <2>2. QED
    BY <2>1, TaskElsewhere
<1>4. c \notin Inside
  BY <1>1 DEF Inside
<1> HIDE DEF t
<1>5. Lock'
  BY <1>1, <1>2, <1>3, <1>4, LockMovesOutside
<1>6. CampaignTypeOK'
  BY <1>1, <1>3 DEF Goes
<1>7. t.stage = 1
  BY <1>1, <1>3 DEF AgentBuilt
<1>8. QED
  BY <1>1, <1>2, <1>3, <1>5, <1>6, <1>7, OneCellMoves, SMTT(30) DEF Awake, RightModel, ResultFinal, Stages

\* The lock is free: the cell that comes in is the only one, and what it puts
\* back later is what was there before any cell came in.
LEMMA SwapKeeps == ASSUME IInv, NEW c \in Cells, Swap(c) PROVE IInv'
<1> USE DEF IInv, CampaignTypeOK
<1> DEFINE t == [task[c] EXCEPT !.at = "running", !.prior = env]
<1>1. /\ Goes(c, t) /\ Awake(c) /\ task[c].at = "locking" /\ Inside = {}
      /\ env' = ModelOf[c]
      /\ UNCHANGED <<runner, options, before, result, file, summary>>
  BY DEF Swap, LockFree
<1>2. /\ t \in TaskType /\ t.at = "running" /\ t.prior = env
      /\ t.agent = task[c].agent /\ t.stage = task[c].stage
  <2> DEFINE u == [task[c] EXCEPT !.at = "running"]
  <2>1. u \in TaskType /\ u.at = "running" /\ u.stage = task[c].stage /\ u.agent = task[c].agent
    BY TaskElsewhere
  <2>2. t = [u EXCEPT !.prior = env]
    OBVIOUS
  <2> HIDE DEF t, u
  <2>3. QED
    BY <2>1, <2>2, TaskFields
<1> HIDE DEF t
<1>3. Inside' = {c} /\ task'[c].prior = before
  BY <1>1, <1>2 DEF Goes, Inside, Lock, BeforeOutside
<1>4. Lock'
  <2>1. InProcess
    BY <1>1 DEF Lock, OneInside
  <2>2. QED
    BY <1>1, <1>3, <2>1 DEF Lock, OneInside, SetByInside, BeforeOutside, InProcess
<1>5. CampaignTypeOK'
  BY <1>1, <1>2 DEF Goes, Values
<1>6. t.stage = 1
  BY <1>1, <1>2 DEF AgentBuilt
<1>7. QED
  BY <1>1, <1>2, <1>4, <1>5, <1>6, OneCellMoves, SMTT(30) DEF Awake, RightModel, ResultFinal, Stages

\* What a cell sees of OPENAI_MODEL while it is inside is its own model.
LEMMA SeesItsModel ==
  ASSUME IInv, NEW c \in Inside
  PROVE  ModelSeen(c) = ModelOf[c]
  BY DEF IInv, Lock, SetByInside, ModelSeen

LEMMA BuildAgentKeeps == ASSUME IInv, NEW c \in Cells, BuildAgent(c) PROVE IInv'
<1> USE DEF IInv, CampaignTypeOK
<1> DEFINE t == [task[c] EXCEPT !.agent = ModelOf[c]]
<1>1. c \in Inside /\ task[c].at = "running" /\ task[c].plugin = 1
  BY DEF BuildAgent, Inside
<1>2. /\ Goes(c, t) /\ Awake(c)
      /\ UNCHANGED <<runner, options, env, before, result, file, summary>>
  BY <1>1, SeesItsModel DEF BuildAgent
<1>3. /\ t \in TaskType /\ t.at = "running" /\ t.prior = task[c].prior
      /\ t.agent = ModelOf[c] /\ t.plugin = 1
  <2>1. task[c] \in TaskType /\ ModelOf[c] \in Values
    BY DEF Values
  <2>2. QED
    BY <1>1, <2>1, TaskFields
<1> HIDE DEF t
<1>4. Lock'
  BY <1>1, <1>2, <1>3, LockMovesInside
<1>5. CampaignTypeOK'
  BY <1>2, <1>3 DEF Goes
<1>6. QED
  BY <1>1, <1>2, <1>3, <1>4, <1>5, OneCellMoves, SMTT(30) DEF Awake, RightModel, ResultFinal

LEMMA RunPluginKeeps == ASSUME IInv, NEW c \in Cells, RunPlugin(c) PROVE IInv'
<1> USE DEF IInv, CampaignTypeOK
<1>1. /\ c \in Inside /\ task[c].at = "running" /\ Awake(c)
      /\ LastStage(c) => task[c].agent # Unset
      /\ UNCHANGED <<runner, options, env, before, result, file, summary>>
  BY DEF RunPlugin, Inside
<1>2. task[c] \in TaskType /\ task[c].stage \in 1 .. 3 /\ task[c].plugin \in Nat
  BY DEF TaskType
<1>3. PICK t \in TaskType :
        /\ Goes(c, t)
        /\ t.at = "running" /\ t.agent = task[c].agent /\ t.prior = task[c].prior
        /\ t.plugin = 1 \/ t.stage = task[c].stage
  <2>1. CASE task[c].plugin = Plugins /\ ~ LastStage(c)
    <3> DEFINE on == [task[c] EXCEPT !.stage = task[c].stage + 1, !.plugin = 1]
    <3>1. Goes(c, on)
      BY <2>1 DEF RunPlugin
    <3>2. task[c].stage + 1 \in 1 .. 3
      BY <1>2, <2>1 DEF LastStage, Stages
    <3>3. on \in TaskType /\ on.at = "running" /\ on.agent = task[c].agent
          /\ on.prior = task[c].prior /\ on.plugin = 1
      <4> DEFINE u == [task[c] EXCEPT !.stage = task[c].stage + 1]
      <4> HIDE DEF IInv, CampaignTypeOK
      <4>1. u \in TaskType /\ u.at = "running" /\ u.agent = task[c].agent /\ u.prior = task[c].prior
        BY <1>1, <1>2, <3>2 DEF TaskType
      <4>2. on = [u EXCEPT !.plugin = 1]
        OBVIOUS
      <4> HIDE DEF on, u
      <4>3. QED
        BY <4>1, <4>2 DEF TaskType
    <3> HIDE DEF on
    <3>4. QED
      BY <3>1, <3>3
  <2>2. CASE ~ (task[c].plugin = Plugins /\ ~ LastStage(c))
    <3> DEFINE up == [task[c] EXCEPT !.plugin = task[c].plugin + 1]
    <3>1. Goes(c, up)
      BY <2>2 DEF RunPlugin
    <3>2. up \in TaskType /\ up.at = "running" /\ up.agent = task[c].agent
          /\ up.prior = task[c].prior /\ up.stage = task[c].stage
      <4> HIDE DEF IInv, CampaignTypeOK
      <4>1. task[c].plugin + 1 \in Nat
        BY <1>2
      <4>2. QED
        BY <1>1, <1>2, <4>1 DEF TaskType
    <3> HIDE DEF up
    <3>3. QED
      BY <3>1, <3>2
  <2>3. QED
    BY <2>1, <2>2
<1>4. Lock'
  BY <1>1, <1>3, LockMovesInside
<1>5. CampaignTypeOK'
  BY <1>1, <1>3 DEF Goes
<1>6. t.stage = Len(Stages) /\ t.plugin > 1 => t.agent # Unset
  BY <1>1, <1>3 DEF LastStage
<1>7. QED
  BY <1>1, <1>3, <1>4, <1>5, <1>6, OneCellMoves, SMTT(30) DEF Awake, RightModel, ResultFinal

\* A cell inside its run ends, the finally clause of its run behind it: it is
\* enough that its file, whatever is in it, has the rows of its agent, and that
\* it is reported ok only with all of them.
LEMMA EndKeeps ==
  ASSUME IInv, NEW c \in Inside, NEW ok, NEW status \in {"ok", "failed"},
         Awake(c), Ends(c, status), env' = Restored(c, ok),
         UNCHANGED <<runner, options, before, summary>>,
         file' \in [Cells -> [size : {"absent", "empty", "part", "whole"}, model : Values]],
         \A d \in Cells \ {c} : file'[d] = file[d],
         file'[c].size \in {"part", "whole"} => file'[c].model = ModelOf[c],
         status = "ok" => file'[c].size = "whole"
  PROVE  IInv'
<1> USE DEF IInv, CampaignTypeOK
<1> DEFINE t == [Fresh EXCEPT !.at = "done"]
<1>1. /\ Goes(c, t) /\ result' = [result EXCEPT ![c] = status]
      /\ t \in TaskType /\ t.at = "done" /\ t.agent = Unset
  BY DoneTyped DEF Ends
<1>2. c \in Cells /\ task[c].at \in {"running", "writing"}
  BY DEF Inside
<1>3. Lock'
  BY LockComesOut
<1> HIDE DEF t
<1>4. env' \in Values
  <2>1. task[c].prior \in Values
    BY <1>2 DEF TaskType
  <2>2. QED
    BY <2>1 DEF Restored
<1>5. CampaignTypeOK'
  BY <1>1, <1>2, <1>4 DEF Goes
<1>6. QED
  BY <1>1, <1>2, <1>3, <1>5, OneCellMoves, SMTT(30) DEF Awake

LEMMA RaiseEarlyKeeps == ASSUME IInv, NEW c \in Cells, RaiseEarly(c) PROVE IInv'
<1> USE DEF IInv, CampaignTypeOK
<1> DEFINE t == [Fresh EXCEPT !.at = "done"]
<1>1. /\ t \in TaskType /\ t.at = "done" /\ t.agent = Unset
      /\ Goes(c, t) /\ result' = [result EXCEPT ![c] = "failed"]
  BY DoneTyped DEF RaiseEarly, Ends, Failed
<1>2. c \notin Inside
  BY DEF RaiseEarly, Inside
<1>3. Lock'
  BY <1>1, <1>2, LockMovesOutside DEF RaiseEarly
<1> HIDE DEF t
<1>4. CampaignTypeOK'
  BY <1>1 DEF RaiseEarly, Goes
<1>5. QED
  BY <1>1, <1>3, <1>4, OneCellMoves, SMTT(30) DEF RaiseEarly, Awake, RightModel

LEMMA RaiseKeeps == ASSUME IInv, NEW c \in Cells, Raise(c) PROVE IInv'
<1> USE DEF IInv, CampaignTypeOK
<1>1. c \in Inside
  BY DEF Raise, Inside
<1>2. QED
  BY <1>1, EndKeeps DEF Raise, Failed, RightModel

LEMMA TruncateKeeps == ASSUME IInv, NEW c \in Cells, Truncate(c) PROVE IInv'
<1> USE DEF IInv, CampaignTypeOK
<1> DEFINE t == [task[c] EXCEPT !.at = "writing"]
<1>1. /\ c \in Inside /\ Goes(c, t) /\ Awake(c) /\ task[c].at = "running"
      /\ file' = [file EXCEPT ![c] = Empty]
      /\ UNCHANGED <<runner, options, env, before, result, summary>>
  BY DEF Truncate, Inside
<1>2. t \in TaskType /\ t.at = "writing" /\ t.agent = task[c].agent /\ t.prior = task[c].prior
  BY TaskElsewhere
<1>3. task[c].agent # Unset
  <2>1. task[c].plugin > 1
    <3>1. task[c].plugin \in Nat
      BY TaskFields
    <3>2. task[c].plugin > Plugins
      BY DEF Truncate
    <3> HIDE DEF IInv, CampaignTypeOK
    <3>3. QED
      BY <3>1, <3>2, CampaignAssumption
  <2>2. QED
    BY <1>1, <2>1 DEF Truncate, AgentBuilt
<1> HIDE DEF t
<1>4. Lock'
  BY <1>1, <1>2, LockMovesInside
<1>5. CampaignTypeOK'
  BY <1>1, <1>2 DEF Goes, Empty, Values
<1>6. QED
  BY <1>1, <1>2, <1>3, <1>4, <1>5, OneCellMoves, SMTT(30) DEF Awake, RightModel, ResultFinal, Empty

\* What is written is of the agent, and the agent of the cell's model.
LEMMA WrittenRight ==
  ASSUME IInv, NEW c \in Cells, task[c].at = "writing", NEW size
  PROVE  Written(c, size).model = ModelOf[c] /\ Written(c, size).model \in Values
  BY DEF IInv, AgentBuilt, RightModel, Written, Values

LEMMA WriteAllKeeps == ASSUME IInv, NEW c \in Cells, WriteAll(c) PROVE IInv'
<1> USE DEF IInv, CampaignTypeOK
<1>1. c \in Inside /\ task[c].at = "writing"
  BY DEF WriteAll, Inside
<1>2. /\ Written(c, "whole").model = ModelOf[c]
      /\ Written(c, "whole") \in [size : {"absent", "empty", "part", "whole"}, model : Values]
      /\ Written(c, "whole").size = "whole"
  BY <1>1, WrittenRight DEF Written
<1>3. QED
  BY <1>1, <1>2, EndKeeps DEF WriteAll

LEMMA WriteFailsKeeps == ASSUME IInv, NEW c \in Cells, WriteFails(c) PROVE IInv'
<1> USE DEF IInv, CampaignTypeOK
<1>1. c \in Inside /\ task[c].at = "writing"
  BY DEF WriteFails, Inside
<1>2. PICK f \in {Empty, Written(c, "part")} : file' = [file EXCEPT ![c] = f]
  BY DEF WriteFails
<1>3. /\ f \in [size : {"absent", "empty", "part", "whole"}, model : Values]
      /\ f.size \in {"part", "whole"} => f.model = ModelOf[c]
  BY <1>1, <1>2, WrittenRight DEF Written, Empty, Values
<1>4. QED
  BY <1>1, <1>2, <1>3, EndKeeps DEF WriteFails, Failed

----------------------------------------------------------------------------
\* The steps of the runner.

LEMMA StartKeeps == ASSUME IInv, Start PROVE IInv'
<1> USE DEF IInv, CampaignTypeOK
<1>1. /\ task' = [c \in Cells |-> Fresh] /\ result' = [c \in Cells |-> "none"]
      /\ env' = before' /\ file' = file
  BY DEF Start
<1>2. Fresh.at = "created" /\ Fresh.stage = 1 /\ Fresh.agent = Unset /\ Fresh \in TaskType
  BY DoneTyped DEF Fresh
<1>3. Inside' = {}
  BY <1>1, <1>2 DEF Inside
<1>4. CampaignTypeOK'
  BY <1>1, <1>2 DEF Start, NoMetrics, Values
<1>5. Lock'
  BY <1>1, <1>2, <1>3 DEF Lock, OneInside, SetByInside, BeforeOutside
<1>6. AgentBuilt' /\ RightModel' /\ ResultFinal' /\ ReportedIsThere'
  BY <1>1, <1>2 DEF AgentBuilt, RightModel, ResultFinal, ReportedIsThere
<1>7. QED
  BY <1>4, <1>5, <1>6

LEMMA CrashKeeps == ASSUME IInv, Crash PROVE IInv'
<1> USE DEF IInv, CampaignTypeOK
<1>1. /\ task' = [c \in Cells |-> Fresh] /\ result' = [c \in Cells |-> "none"]
      /\ env' = before /\ runner' = "down"
      /\ UNCHANGED <<options, before, summary>>
  BY DEF Crash
<1>2. Fresh.at = "created" /\ Fresh.stage = 1 /\ Fresh.agent = Unset /\ Fresh \in TaskType
  BY DoneTyped DEF Fresh
<1>3. PICK torn \in SUBSET {c \in Cells : task[c].at = "writing"} :
        file' = [c \in Cells |-> IF c \in torn THEN Written(c, "part") ELSE file[c]]
  BY DEF Crash
<1>4. \A c \in torn :
        /\ Written(c, "part") \in [size : {"absent", "empty", "part", "whole"}, model : Values]
        /\ Written(c, "part").model = ModelOf[c]
  BY <1>3, WrittenRight DEF Written
<1>5. Inside' = {}
  BY <1>1, <1>2 DEF Inside
<1>6. CampaignTypeOK'
  BY <1>1, <1>2, <1>3, <1>4
<1>7. Lock'
  BY <1>1, <1>2, <1>5 DEF Lock, OneInside, SetByInside, BeforeOutside
<1>8. RightModel'
  BY <1>1, <1>2, <1>3, <1>4 DEF RightModel
<1>9. AgentBuilt' /\ ResultFinal' /\ ReportedIsThere'
  BY <1>1, <1>2 DEF AgentBuilt, ResultFinal, ReportedIsThere
<1>10. QED
  BY <1>6, <1>7, <1>8, <1>9

\* A whole file gives its cell a delta.
LEMMA MetricsTyped ==
  ASSUME NEW c \in Cells, NEW m \in Metrics(c)
  PROVE  /\ m \in [status : {"none", "missing", "empty", "ok"}, delta : BOOLEAN]
         /\ file[c].size = "whole" => m.delta
<1>1. PICK d \in Deltas(c) : m = [status |-> CellStatus(c), delta |-> d]
  BY DEF Metrics
<1>2. d \in BOOLEAN /\ (file[c].size = "whole" => d)
  BY DEF Deltas
<1>3. CellStatus(c) \in {"none", "missing", "empty", "ok"}
  BY DEF CellStatus
<1>4. QED
  BY <1>1, <1>2, <1>3

LEMMA AggregateKeeps == ASSUME IInv, Aggregate PROVE IInv'
<1> USE DEF IInv, CampaignTypeOK
<1>1. /\ runner = "running" /\ runner' = "over"
      /\ UNCHANGED <<options, env, before, task, result, file>>
      /\ \A c \in Cells : summary'[c] \in Metrics(c)
  BY DEF Aggregate
<1>2. summary' \in [Cells -> UNION {Metrics(c) : c \in Cells}]
  BY DEF Aggregate
<1>3. \A c \in Cells : Metrics(c) \subseteq [status : {"none", "missing", "empty", "ok"}, delta : BOOLEAN]
  BY MetricsTyped
<1>4. CampaignTypeOK'
  BY <1>1, <1>2, <1>3
<1>5. \A c \in Cells : file[c].size = "whole" => summary'[c].delta
  BY <1>1, MetricsTyped
<1>6. ReportedIsThere'
  BY <1>1, <1>5 DEF ReportedIsThere
<1>7. Lock' /\ AgentBuilt' /\ RightModel' /\ ResultFinal'
  BY <1>1 DEF Lock, OneInside, SetByInside, BeforeOutside, AgentBuilt, RightModel, ResultFinal,
              Inside, InProcess, LastStage
<1>8. QED
  BY <1>4, <1>6, <1>7

----------------------------------------------------------------------------

LEMMA NextKeeps == IInv /\ [CampaignNext]_vars => IInv'
<1> SUFFICES ASSUME IInv, [CampaignNext]_vars PROVE IInv'
  OBVIOUS
<1>1. ASSUME NEW c \in Cells, Step(c) PROVE IInv'
  BY <1>1, CheckKeeps, AcquireKeeps, SwapKeeps, BuildAgentKeeps, RunPluginKeeps, RaiseEarlyKeeps, RaiseKeeps,
     TruncateKeeps, WriteAllKeeps, WriteFailsKeeps DEF Step
<1>2. CASE UNCHANGED vars
  BY <1>2 DEF vars, IInv, CampaignTypeOK, Lock, OneInside, SetByInside, BeforeOutside, AgentBuilt,
              RightModel, ResultFinal, ReportedIsThere, Inside, InProcess, LastStage
<1>3. QED
  BY <1>1, <1>2, StartKeeps, CrashKeeps, AggregateKeeps DEF CampaignNext, Rest

\* The inductive invariant holds in every reachable state.
THEOREM CampaignInvariant == CampaignSpec => []IInv
  BY InitEstablishes, NextKeeps, PTL DEF CampaignSpec

\* The rows in a cell's file, and the agent that is to write them, are of the
\* cell's model (_run_cell_in_process), whatever number of cells share the
\* environment variable.
THEOREM RowsAreOfTheirModel == CampaignSpec => []RightModel
<1>1. IInv => RightModel
  BY DEF IInv
<1>2. QED
  BY <1>1, CampaignInvariant, PTL

\* With no cell inside its run OPENAI_MODEL is what the shell had set, after
\* failures and full disks as well (the finally clause).
THEOREM EnvironmentIsRestored == CampaignSpec => []EnvRestored
<1>1. IInv => EnvRestored
  BY DEF IInv, Lock, BeforeOutside, EnvRestored
<1>2. QED
  BY <1>1, CampaignInvariant, PTL

\* An ok in the report stands for all rows of the cell and its delta in the
\* summary, a skip in a real run for some rows (_run_one, aggregate_matrix).
THEOREM ReportsAreTrue == CampaignSpec => []ReportedIsThere
<1>1. IInv => ReportedIsThere
  BY DEF IInv
<1>2. QED
  BY <1>1, CampaignInvariant, PTL

----------------------------------------------------------------------------
(***************************************************************************)
(* The report.  A cell that is done has a result, a campaign that is over  *)
(* has its cells done, and a cell has one result.                          *)
(***************************************************************************)

DoneHasResult == \A c \in Cells : task[c].at = "done" => result[c] # "none"

OverIsDone ==
  runner = "over" /\ ~ options.aggregateOnly => \A c \in Cells : task[c].at = "done"

\* A cell that moves on in its run is not done with it; one that ends has a
\* result.
LEMMA StepReports ==
  ASSUME IInv, NEW c \in Cells, Step(c)
  PROVE  /\ runner = "running" /\ runner' = "running"
         /\ \A d \in Cells \ {c} : task'[d] = task[d] /\ result'[d] = result[d]
         /\ task'[c].at = "done" => result'[c] # "none"
<1> USE DEF IInv, CampaignTypeOK
<1>1. ASSUME NEW t, Goes(c, t)
      PROVE  task'[c] = t /\ \A d \in Cells \ {c} : task'[d] = task[d]
  BY <1>1 DEF Goes
<1>2. ASSUME NEW status \in {"ok", "skipped", "failed"}, Ends(c, status)
      PROVE  /\ \A d \in Cells \ {c} : task'[d] = task[d] /\ result'[d] = result[d]
             /\ result'[c] # "none"
  BY <1>1, <1>2 DEF Ends
<1>3. ASSUME NEW t, Goes(c, t), t.at # "done", UNCHANGED result
      PROVE  /\ \A d \in Cells \ {c} : task'[d] = task[d] /\ result'[d] = result[d]
             /\ task'[c].at # "done"
  BY <1>1, <1>3
<1>4. task[c] \in TaskType
  OBVIOUS
<1>5. CASE Check(c)
  <2>1. [task[c] EXCEPT !.at = "waiting"].at # "done"
    BY <1>4 DEF TaskType
  <2>2. QED
    BY <1>2, <1>3, <1>5, <2>1 DEF Check, Awake
<1>6. CASE Acquire(c)
  <2>1. \A p \in {"locking", "running"} : [task[c] EXCEPT !.at = p].at # "done"
    BY <1>4 DEF TaskType
  <2>2. QED
    BY <1>3, <1>6, <2>1 DEF Acquire, Awake
<1>7. CASE Swap(c)
  <2>1. [task[c] EXCEPT !.at = "running", !.prior = env].at # "done"
    BY <1>4 DEF TaskType
  <2>2. QED
    BY <1>3, <1>7, <2>1 DEF Swap, Awake
<1>8. CASE BuildAgent(c)
  <2>1. [task[c] EXCEPT !.agent = ModelSeen(c)].at # "done"
    BY <1>4, <1>8 DEF TaskType, BuildAgent
  <2>2. QED
    BY <1>3, <1>8, <2>1 DEF BuildAgent, Awake
<1>9. CASE RunPlugin(c)
  <2> DEFINE t == IF task[c].plugin = Plugins /\ ~ LastStage(c)
                  THEN [task[c] EXCEPT !.stage = task[c].stage + 1, !.plugin = 1]
                  ELSE [task[c] EXCEPT !.plugin = task[c].plugin + 1]
  <2>1. t.at # "done"
    BY <1>4, <1>9 DEF TaskType, RunPlugin
  <2>2. Goes(c, t) /\ UNCHANGED <<runner, result>> /\ runner = "running"
    BY <1>9 DEF RunPlugin, Awake
  <2> HIDE DEF t
  <2>3. QED
    BY <1>3, <2>1, <2>2
<1>10. CASE Truncate(c)
  <2>1. [task[c] EXCEPT !.at = "writing"].at # "done"
    BY <1>4 DEF TaskType
  <2>2. QED
    BY <1>3, <1>10, <2>1 DEF Truncate, Awake
<1>11. CASE RaiseEarly(c) \/ Raise(c)
  BY <1>2, <1>11 DEF RaiseEarly, Raise, Awake, Failed
<1>12. CASE WriteAll(c)
  BY <1>2, <1>12 DEF WriteAll, Awake
<1>13. CASE WriteFails(c)
  BY <1>2, <1>13 DEF WriteFails, Awake, Failed
<1>14. QED
  BY <1>5, <1>6, <1>7, <1>8, <1>9, <1>10, <1>11, <1>12, <1>13 DEF Step

LEMMA ReportKept ==
  IInv /\ DoneHasResult /\ OverIsDone /\ [CampaignNext]_vars
    => DoneHasResult' /\ OverIsDone'
<1> SUFFICES ASSUME IInv, DoneHasResult, OverIsDone, [CampaignNext]_vars
             PROVE  DoneHasResult' /\ OverIsDone'
  OBVIOUS
<1>1. ASSUME NEW c \in Cells, Step(c)
      PROVE  DoneHasResult' /\ OverIsDone'
  BY <1>1, StepReports DEF DoneHasResult, OverIsDone
<1>2. CASE Start \/ Crash
  <2>1. /\ \A c \in Cells : task'[c].at = "created"
        /\ runner' # "over"
    BY <1>2 DEF Start, Crash, Fresh
  <2>2. QED
    BY <2>1 DEF DoneHasResult, OverIsDone
<1>3. CASE Aggregate
  BY <1>3 DEF Aggregate, DoneHasResult, OverIsDone
<1>4. CASE UNCHANGED vars
  BY <1>4 DEF vars, DoneHasResult, OverIsDone
<1>5. QED
  BY <1>1, <1>2, <1>3, <1>4 DEF CampaignNext, Rest

\* Cells with one of three results each are counted by the three.
LEMMA ThreeCounts ==
  ASSUME CampaignTypeOK, \A c \in Cells : result[c] # "none"
  PROVE  Reported("ok") + Reported("skipped") + Reported("failed") = Cardinality(Cells)
<1> DEFINE With(status) == {c \in Cells : result[c] = status}
<1>1. \A status : With(status) \subseteq Cells
  OBVIOUS
<1>2. \A status : IsFiniteSet(With(status)) /\ Cardinality(With(status)) \in Nat
  BY <1>1, CampaignAssumption, FS_Subset, FS_CardinalityType
<1>3. /\ With("ok") \intersect With("skipped") = {}
      /\ (With("ok") \union With("skipped")) \intersect With("failed") = {}
      /\ (With("ok") \union With("skipped")) \union With("failed") = Cells
  BY DEF CampaignTypeOK
<1> HIDE DEF With
<1>4. IsFiniteSet(With("ok") \union With("skipped"))
  BY <1>2, FS_Union
<1>5. Cardinality(With("ok") \union With("skipped"))
        = Cardinality(With("ok")) + Cardinality(With("skipped")) - Cardinality({})
  BY <1>2, <1>3, FS_Union
<1>6. Cardinality(Cells) = Cardinality(With("ok") \union With("skipped"))
                             + Cardinality(With("failed")) - Cardinality({})
  BY <1>2, <1>3, <1>4, FS_Union
<1>7. \A status : Reported(status) = Cardinality(With(status))
  BY DEF Reported, With
<1>8. Cardinality({}) = 0
  BY FS_EmptySet
<1>9. QED
  BY <1>2, <1>5, <1>6, <1>7, <1>8

\* A campaign that is over has counted every cell once, as ok, skipped or
\* failed, for any cells, faults and number of starts: the half of
\* CampaignEnds that is not about time (print_final_report).
THEOREM CellsAreCounted == CampaignSpec => []EveryCellCounted
<1>1. CampaignInit => DoneHasResult /\ OverIsDone
  BY DEF CampaignInit, DoneHasResult, OverIsDone, Fresh
<1>2. IInv /\ DoneHasResult /\ OverIsDone => EveryCellCounted
  BY ThreeCounts DEF IInv, DoneHasResult, OverIsDone, EveryCellCounted
<1>3. QED
  BY <1>1, <1>2, ReportKept, CampaignInvariant, PTL DEF CampaignSpec

=============================================================================
