------------------------------ MODULE Cassette ------------------------------
(***************************************************************************)
(* The record/replay cassette (simulation/ai/llm/record_replay_cache.py):  *)
(* what a process remembers of the answers of the model, and the file they *)
(* are kept in between two processes.  get, put and flush run under a lock *)
(* and wait for nothing while they hold it, so each is one step of the     *)
(* coroutine that calls it; the operators below describe their effects.    *)
(***************************************************************************)
EXTENDS Integers, Sequences, FiniteSets, SequencesExt

CONSTANTS
  Keys,     \* what requests are told apart by (compute_key)
  Answers,  \* what the model may answer
  Failed,   \* the response of a client that ran out of attempts
  None

ASSUME CassetteAssumption ==
  /\ IsFiniteSet(Keys)
  /\ Failed \notin Answers
  /\ None \notin Answers \union {Failed}

VARIABLES
  exists,   \* there is a cassette file
  file,     \* its lines
  entries,  \* _entries, in the order in which keys were first put
  loaded,   \* _loaded
  dirty,    \* _dirty
  mode      \* mode

cassetteVars == <<exists, file, entries, loaded, dirty, mode>>

Modes == {"record", "replay", "auto"}

\* A failed call comes back as a response too, and is recorded like any other.
Responses == Answers \union {Failed}

KeysOf(lines) == {lines[i].key : i \in DOMAIN lines}

Recorded(lines, k) == lines[CHOOSE i \in DOMAIN lines : lines[i].key = k].response

\* _ensure_loaded reads the file at the first get or put of a process.
\* It has set _loaded before it reads: if reading fails, the caller is told
\* and the process goes on with what it has.
Loaded == IF loaded THEN entries ELSE entries \o file

\* put: a key keeps its place when its response is replaced.
Stored(lines, k, r) ==
  IF k \in KeysOf(lines)
  THEN [i \in DOMAIN lines |->
          IF lines[i].key = k THEN [key |-> k, response |-> r] ELSE lines[i]]
  ELSE Append(lines, [key |-> k, response |-> r])

\* What get finds: in record mode nothing, whatever was recorded.
\*
\* Fault: the lookup comes before the file is loaded.
HitsUnloaded(k) == mode # "record" /\ k \in KeysOf(entries)

Hits(k) == mode # "record" /\ k \in KeysOf(Loaded)

\* get leaves nothing behind but the loaded file.
Get ==
  /\ entries' = Loaded
  /\ loaded' = TRUE
  /\ UNCHANGED <<exists, file, dirty, mode>>

GetFails ==
  /\ ~loaded
  /\ exists
  /\ loaded' = TRUE
  /\ UNCHANGED <<exists, file, entries, dirty, mode>>

\* Fault: the entry is stored, but not marked for the next flush.
PutClean(k, r) ==
  /\ entries' = IF mode = "replay" THEN entries ELSE Stored(Loaded, k, r)
  /\ loaded' = (loaded \/ mode # "replay")
  /\ UNCHANGED <<exists, file, dirty, mode>>

Put(k, r) ==
  IF mode = "replay"
  THEN UNCHANGED cassetteVars
  ELSE /\ entries' = Stored(Loaded, k, r)
       /\ loaded' = TRUE
       /\ dirty' = TRUE
       /\ UNCHANGED <<exists, file, mode>>

\* The file is rewritten in place from the entries of this process, whether
\* or not it has read the file before.
Flush ==
  /\ mode # "replay"
  /\ exists' = TRUE
  /\ file' = entries
  /\ dirty' = FALSE
  /\ UNCHANGED <<entries, loaded, mode>>

\* Writing fails half way (a full disk, a killed process): the first lines
\* are on disk; what is left of the next one is skipped by the reader.
FlushFails ==
  /\ mode # "replay"
  /\ exists' = TRUE
  /\ \E n \in 0 .. Len(entries) - 1 : file' = SubSeq(entries, 1, n)
  /\ UNCHANGED <<entries, loaded, dirty, mode>>

\* A new process over the same file.
Reopen(m) ==
  /\ entries' = <<>>
  /\ loaded' = FALSE
  /\ dirty' = FALSE
  /\ mode' = m
  /\ UNCHANGED <<exists, file>>

CassetteInit ==
  /\ exists = FALSE /\ file = <<>>
  /\ entries = <<>>
  /\ loaded = FALSE
  /\ dirty = FALSE
  /\ mode \in Modes

=============================================================================
