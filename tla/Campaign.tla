------------------------------ MODULE Campaign ------------------------------
(***************************************************************************)
(* A campaign of the matrix runner (tools/matrix_runner.py) over the cells *)
(* of the benchmark.  Each cell is a task of one asyncio loop; it runs the *)
(* experiment of cli/benchmark_paper.py three times over (the fallback,    *)
(* the oracle, then the agent, benchmark/framework/seed_matrix.py running  *)
(* the plugins of each) and writes one file of rows.  The model of a cell  *)
(* reaches the experiment through the environment variable OPENAI_MODEL,   *)
(* which all tasks share.                                                  *)
(*                                                                         *)
(* A campaign may be started again: after its end, or after a crash that   *)
(* takes the runner and its children with it.  Files outlive both.         *)
(***************************************************************************)
EXTENDS Naturals, Sequences, FiniteSets

CONSTANTS
  Cells, ModelOf,       \* the cells of the matrix, and the model of each
  Unset, Priors,        \* OPENAI_MODEL before the campaign: Unset, or a model
  MaxConcurrent,        \* asyncio.Semaphore
  Plugins,              \* number of dimension plugins
  MaxStarts, MaxFaults  \* bounds of the instance

ASSUME CampaignAssumption ==
  /\ IsFiniteSet(Cells)
  /\ ModelOf \in [Cells -> STRING] /\ Priors # {}
  /\ MaxConcurrent \in Nat \ {0} /\ Plugins \in Nat \ {0}

Stages == <<"fallback", "oracle", "agent">>

VARIABLES
  runner,   \* "down", "running", "over"
  options,  \* [skip, subprocess, dry, aggregateOnly]: the command line
  env,      \* OPENAI_MODEL of the runner's process
  before,   \* what it was when the runner started
  task,     \* per cell: where its task stands
  result,   \* per cell: "none", "ok", "skipped", "failed"
  file,     \* per cell: what is on the disk at its out_path
  summary,  \* per cell: what the aggregation of this start wrote of it
  starts, faults

vars == <<runner, options, env, before, task, result, file, summary, starts, faults>>

(***************************************************************************)
(* A task: where it stands, the stage and the plugin it is at, the model   *)
(* its agent was built for, and the value of OPENAI_MODEL to restore.      *)
(***************************************************************************)
Fresh == [at |-> "created", stage |-> 1, plugin |-> 1, agent |-> Unset, prior |-> Unset]

\* A file: how much of it there is, and the model its rows come from.
Absent == [size |-> "absent", model |-> Unset]
Empty  == [size |-> "empty", model |-> Unset]

\* A cell of which nothing was aggregated yet.
NoMetrics == [status |-> "none", delta |-> FALSE]

CampaignInit ==
  /\ runner = "down"
  /\ options = [skip |-> TRUE, subprocess |-> FALSE, dry |-> FALSE, aggregateOnly |-> FALSE]
  /\ before \in Priors /\ env = before
  /\ task = [c \in Cells |-> Fresh]
  /\ result = [c \in Cells |-> "none"]
  /\ file = [c \in Cells |-> Absent]
  /\ summary = [c \in Cells |-> NoMetrics]
  /\ starts = 0 /\ faults = 0

\* main: a new process, with the environment of the shell it is started from.
Start ==
  /\ runner # "running" /\ starts < MaxStarts
  /\ starts' = starts + 1
  /\ \E skip, subprocess \in BOOLEAN, mode \in {"run", "dry", "aggregate"} :
       /\ mode # "run" => skip /\ ~ subprocess   \* these make no difference then
       /\ options' = [skip |-> skip, subprocess |-> subprocess, dry |-> mode = "dry",
                      aggregateOnly |-> mode = "aggregate"]
  /\ runner' = "running"
  /\ before' \in Priors /\ env' = before'
  /\ task' = [c \in Cells |-> Fresh]
  /\ result' = [c \in Cells |-> "none"]
  /\ summary' = [c \in Cells |-> NoMetrics]
  /\ UNCHANGED <<file, faults>>

(***************************************************************************)
(* Tasks take turns at their awaits.  write_ndjson_rows has none: while a  *)
(* task writes, no other task of the same process moves.                   *)
(***************************************************************************)
InProcess == ~ options.subprocess

Awake(c) ==
  /\ runner = "running" /\ ~ options.aggregateOnly
  /\ InProcess => \A d \in Cells \ {c} : task[d].at # "writing"

\* Fault: a run that failed does not give its place back.
HoldingFailed ==
  {c \in Cells : task[c].at \in {"locking", "running", "writing"} \/ result[c] = "failed"}

Holding == {c \in Cells : task[c].at \in {"locking", "running", "writing"}}

Inside == {c \in Cells : task[c].at \in {"running", "writing"}}

Goes(c, t) == task' = [task EXCEPT ![c] = t]

Ends(c, status) ==
  /\ Goes(c, [Fresh EXCEPT !.at = "done"])
  /\ result' = [result EXCEPT ![c] = status]

AlreadyDone(c) == file[c].size \in {"part", "whole"}

\* _run_one up to its semaphore.
Check(c) ==
  /\ Awake(c) /\ task[c].at = "created"
  /\ IF (options.skip /\ AlreadyDone(c)) \/ options.dry
     THEN Ends(c, "skipped")
     ELSE Goes(c, [task[c] EXCEPT !.at = "waiting"]) /\ UNCHANGED result
  /\ UNCHANGED <<runner, options, env, before, file, summary, starts, faults>>

\* The semaphore is acquired: in the process of the runner the lock of the
\* environment comes next, a child has its own copy of it.
Acquire(c) ==
  /\ Awake(c) /\ task[c].at = "waiting"
  /\ Cardinality(Holding) < MaxConcurrent
  /\ Goes(c, [task[c] EXCEPT !.at = IF InProcess THEN "locking" ELSE "running"])
  /\ UNCHANGED <<runner, options, env, before, result, file, summary, starts, faults>>

\* Fault: the lock is taken for the swap only, not for the run.
LockIgnored == TRUE

LockFree == Inside = {}

\* async with env_lock, and the swap.
Swap(c) ==
  /\ Awake(c) /\ task[c].at = "locking"
  /\ LockFree
  /\ env' = ModelOf[c]
  /\ Goes(c, [task[c] EXCEPT !.at = "running", !.prior = env])
  /\ UNCHANGED <<runner, options, before, result, file, summary, starts, faults>>

\* Fault: the prior value is put back only after a run that did not raise.
RestoredOnSuccess(c, ok) == IF InProcess /\ ok THEN task[c].prior ELSE env

\* The finally clause.
Restored(c, ok) == IF InProcess THEN task[c].prior ELSE env

(***************************************************************************)
(* The experiment: the stages one after the other, in each the plugins one *)
(* after the other.  The agent of the last stage is built when the stage   *)
(* begins, for the model OPENAI_MODEL names at that moment; in a child the *)
(* variable is the cell's model throughout.                                *)
(***************************************************************************)
ModelSeen(c) == IF InProcess THEN env ELSE ModelOf[c]

LastStage(c) == task[c].stage = Len(Stages)

BuildAgent(c) ==
  /\ Awake(c) /\ task[c].at = "running"
  /\ LastStage(c) /\ task[c].plugin = 1 /\ task[c].agent = Unset
  /\ Goes(c, [task[c] EXCEPT !.agent = ModelSeen(c)])
  /\ UNCHANGED <<runner, options, env, before, result, file, summary, starts, faults>>

\* A plugin drives a harness of its own; one that raises scores zero, and the
\* run goes on as if it had not.
RunPlugin(c) ==
  /\ Awake(c) /\ task[c].at = "running"
  /\ task[c].plugin <= Plugins
  /\ LastStage(c) => task[c].agent # Unset
  /\ LET t == task[c]
     IN Goes(c, IF t.plugin = Plugins /\ ~ LastStage(c)
                THEN [t EXCEPT !.stage = t.stage + 1, !.plugin = 1]
                ELSE [t EXCEPT !.plugin = t.plugin + 1])
  /\ UNCHANGED <<runner, options, env, before, result, file, summary, starts, faults>>

\* Fault: the rows are lost sight of but the cell is reported all the same.
FailedAsOk == "ok"

Failed == "failed"

\* An exception before the lock is held: of an import, or of a directory that
\* cannot be made.  The variable was not touched.
RaiseEarly(c) ==
  /\ Awake(c) /\ task[c].at = "locking"
  /\ faults < MaxFaults /\ faults' = faults + 1
  /\ Ends(c, Failed)
  /\ UNCHANGED <<runner, options, env, before, file, summary, starts>>

\* An exception of the experiment outside its plugins, or of a child.
Raise(c) ==
  /\ Awake(c) /\ task[c].at = "running"
  /\ faults < MaxFaults /\ faults' = faults + 1
  /\ env' = Restored(c, FALSE)
  /\ Ends(c, Failed)
  /\ UNCHANGED <<runner, options, before, file, summary, starts>>

\* write_ndjson_rows: write_text truncates the file, then writes it.
Truncate(c) ==
  /\ Awake(c) /\ task[c].at = "running"
  /\ LastStage(c) /\ task[c].plugin > Plugins
  /\ file' = [file EXCEPT ![c] = Empty]
  /\ Goes(c, [task[c] EXCEPT !.at = "writing"])
  /\ UNCHANGED <<runner, options, env, before, result, summary, starts, faults>>

Written(c, size) == [size |-> size, model |-> task[c].agent]

WriteAll(c) ==
  /\ Awake(c) /\ task[c].at = "writing"
  /\ file' = [file EXCEPT ![c] = Written(c, "whole")]
  /\ env' = Restored(c, TRUE)
  /\ Ends(c, "ok")
  /\ UNCHANGED <<runner, options, before, summary, starts, faults>>

\* A full disk: a part of the text is there, or none of it, and the write raises.
WriteFails(c) ==
  /\ Awake(c) /\ task[c].at = "writing"
  /\ faults < MaxFaults /\ faults' = faults + 1
  /\ \E size \in {"empty", "part"} :
       file' = [file EXCEPT ![c] = IF size = "part" THEN Written(c, size) ELSE Empty]
  /\ env' = Restored(c, FALSE)
  /\ Ends(c, Failed)
  /\ UNCHANGED <<runner, options, before, summary, starts>>

\* The machine goes down, or the runner is killed with its children; of a file
\* being written a part may have reached the disk.  What the process held is gone.
Crash ==
  /\ runner = "running"
  /\ runner' = "down"
  /\ \E torn \in SUBSET {c \in Cells : task[c].at = "writing"} :
       file' = [c \in Cells |-> IF c \in torn THEN Written(c, "part") ELSE file[c]]
  /\ env' = before
  /\ task' = [c \in Cells |-> Fresh] /\ result' = [c \in Cells |-> "none"]
  /\ UNCHANGED <<options, before, summary, starts, faults>>

(***************************************************************************)
(* aggregate_matrix, once every task has its result: any row makes a cell  *)
(* ok, a line that does not parse is passed over.  The cell has a delta if *)
(* both recalls were read, and of a part of a file neither need be there.  *)
(***************************************************************************)
CellStatus(c) ==
  IF file[c].size = "absent" THEN "missing"
  ELSE IF file[c].size = "empty" THEN "empty" ELSE "ok"

Deltas(c) == CASE file[c].size = "whole" -> {TRUE} [] file[c].size = "part" -> BOOLEAN [] OTHER -> {FALSE}

Metrics(c) == {[status |-> CellStatus(c), delta |-> d] : d \in Deltas(c)}

\* print_final_report: the cells by the status of their results.
Reported(status) == Cardinality({c \in Cells : result[c] = status})

Aggregate ==
  /\ runner = "running"
  /\ options.aggregateOnly \/ \A c \in Cells : task[c].at = "done"
  /\ summary' \in {m \in [Cells -> UNION {Metrics(c) : c \in Cells}] : \A c \in Cells : m[c] \in Metrics(c)}
  /\ runner' = "over"
  /\ UNCHANGED <<options, env, before, task, result, file, starts, faults>>

Step(c) ==
  \/ Check(c) \/ Acquire(c) \/ Swap(c) \/ BuildAgent(c) \/ RunPlugin(c)
  \/ RaiseEarly(c) \/ Raise(c)
  \/ Truncate(c) \/ WriteAll(c) \/ WriteFails(c)

Rest == runner # "running" /\ starts = MaxStarts /\ UNCHANGED vars

CampaignNext == (\E c \in Cells : Step(c)) \/ Start \/ Crash \/ Aggregate \/ Rest

\* A loop that runs runs its tasks; nobody has to start a campaign.
CampaignSpec ==
  /\ CampaignInit /\ [][CampaignNext]_vars
  /\ \A c \in Cells : WF_vars(Step(c))
  /\ WF_vars(Aggregate)

(***************************************************************************)
(* Properties.                                                             *)
(***************************************************************************)

\* The rows in a cell's file come from the cell's model, although the model is
\* handed over in a variable that all cells share and is read long after it
\* was set, with other cells running in between.
RightModel ==
  \A c \in Cells :
    /\ file[c].size \in {"part", "whole"} => file[c].model = ModelOf[c]
    /\ task[c].agent # Unset => task[c].agent = ModelOf[c]

\* OPENAI_MODEL is what the shell had set whenever no cell is inside its run,
\* however the runs before have ended.
EnvRestored == runner # "down" /\ Inside = {} => env = before

\* What a campaign reports is what is on the disk: an ok cell has all of its
\* rows, and its delta in the summary; a cell skipped in a real run has some.
ReportedIsThere ==
  runner # "down" =>
    \A c \in Cells :
      /\ result[c] = "ok" => file[c].size = "whole" /\ (runner = "over" => summary[c].delta)
      /\ result[c] = "skipped" /\ ~ options.dry => file[c].size \in {"part", "whole"}

\* When a campaign is over, its report has counted every cell once.
EveryCellCounted ==
  runner = "over" /\ ~ options.aggregateOnly =>
    Reported("ok") + Reported("skipped") + Reported("failed") = Cardinality(Cells)

\* A campaign that is not cut off comes to its end, with every cell counted,
\* whatever its runs have met.
CampaignEnds ==
  /\ (runner = "running") ~> (runner # "running")
  /\ []EveryCellCounted

=============================================================================
