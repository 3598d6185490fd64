----------------------------- MODULE Reflection -----------------------------
(***************************************************************************)
(* The reflection of one session: the activity log in Redis that the tool  *)
(* calls write in the background, each by reading and rewriting it; the    *)
(* reflect tool; and autoReflect, which whatever ends the session (close,  *)
(* cleanup, shutdown, rotation, the admin console) awaits, and which       *)
(* summarises the log with an LLM unless the log says it was done          *)
(* (SessionActivityTracker.js, AutoReflect.js, tools/memory.js,            *)
(* admin-sessions.js).                                                     *)
(***************************************************************************)
EXTENDS Integers, FiniteSets

CONSTANTS
  ToolCall,  \* calls of remember, recall, ...: each has one record in the log
  Stores,    \* those that put a fragment into it
  Closer,    \* autoReflect calls, and calls of the reflect tool ("explicit")
  Explicit   \* the latter

ASSUME StoresAssumption == Stores \subseteq ToolCall /\ Explicit \subseteq Closer

VARIABLES
  log,         \* the activity log: the calls in it, and the mark
  writer,      \* the records under way: of a tool call, and the mark of a closer
  closer,      \* the closers
  reflections, \* the closers whose fragments were stored
  twice,       \* history: autoReflect stored fragments after some closer had
  excused      \* history: the mark may be missing although fragments were stored

rfVars == <<log, writer, closer, reflections, twice, excused>>

Log == [calls : SUBSET ToolCall, marked : BOOLEAN]
Recorder == ToolCall \cup Closer
WriterState == [at : {"idle", "read", "over"}, saw : Log]
EmptyLog == [calls |-> {}, marked |-> FALSE]

ReflectionTypeOK ==
  /\ log \in Log
  /\ writer \in [Recorder -> WriterState]
  /\ closer \in [Closer -> {"idle", "summarise", "store", "mark", "over"}]
  /\ reflections \subseteq Closer
  /\ twice \in BOOLEAN /\ excused \in BOOLEAN

Writing == {r \in Recorder : writer[r].at = "read"}
Closing == {c \in Closer : closer[c] \in {"summarise", "store", "mark"}}

----------------------------------------------------------------------------
ReflectionInit ==
  /\ log = EmptyLog
  /\ writer = [r \in Recorder |-> [at |-> "idle", saw |-> EmptyLog]]
  /\ closer = [c \in Closer |-> "idle"]
  /\ reflections = {} /\ twice = FALSE /\ excused = FALSE

(***************************************************************************)
(* record: the log is read, and after an await written back with one more  *)
(* call, or the mark, in it.                                               *)
(***************************************************************************)
StartRecord(r) ==
  /\ writer[r].at = "idle"
  /\ r \in Closer => closer[r] = "mark"
  /\ writer' = [writer EXCEPT ![r] = [at |-> "read", saw |-> log]]
  /\ UNCHANGED <<log, closer, reflections, twice, excused>>

WithRecord(r) ==
  [calls |-> writer[r].saw.calls \cup ({r} \cap ToolCall),
   marked |-> r \in Closer \/ writer[r].saw.marked]

FinishRecord(r) ==
  /\ writer[r].at = "read"
  /\ log' = WithRecord(r)
  /\ writer' = [writer EXCEPT ![r].at = "over"]
  /\ closer' = IF r \in Closer THEN [closer EXCEPT ![r] = "over"] ELSE closer
  /\ excused' = (excused \/ (log.marked /\ ~writer[r].saw.marked /\ r \in ToolCall))
  /\ UNCHANGED <<reflections, twice>>

\* Redis is not ready or fails: the call is not recorded, the mark not set
RecordFails(r) ==
  /\ writer[r].at \in {"idle", "read"}
  /\ r \in Closer => closer[r] = "mark"
  /\ writer' = [writer EXCEPT ![r].at = "over"]
  /\ closer' = IF r \in Closer THEN [closer EXCEPT ![r] = "over"] ELSE closer
  /\ excused' = (excused \/ r \in Closer)
  /\ UNCHANGED <<log, reflections, twice>>

\* the day of the key's TTL is over, or an admin deletes the log
LogExpires ==
  /\ log # EmptyLog
  /\ log' = EmptyLog
  /\ excused' = TRUE
  /\ UNCHANGED <<writer, closer, reflections, twice>>

(***************************************************************************)
(* autoReflect. Nothing is summarised without a tool call, within thirty   *)
(* seconds, or if a fragment was stored by hand: the session is marked.    *)
(* The admin console marks it in any case.                                 *)
(***************************************************************************)
\* mutant of Due: the mark is not looked at
DueAnyway == TRUE

Due == ~log.marked

BeginClose(c) ==
  /\ c \notin Explicit /\ closer[c] = "idle"
  /\ closer' \in {[closer EXCEPT ![c] = at] :
       at \in IF ~Due THEN {"over", "mark"}
              ELSE {"mark"} \cup (IF log.calls # {} /\ log.calls \cap Stores = {}
                                  THEN {"summarise"} ELSE {})}
  /\ excused' = (excused \/ (Due /\ Closing # {}))
  /\ UNCHANGED <<log, writer, reflections, twice>>

\* the log cannot be read: nothing is done
CloseFails(c) ==
  /\ c \notin Explicit /\ closer[c] = "idle"
  /\ closer' \in {[closer EXCEPT ![c] = "over"], [closer EXCEPT ![c] = "mark"]}
  /\ UNCHANGED <<log, writer, reflections, twice, excused>>

\* the LLM answers, or fails or has nothing to say, which marks the session too
Summarise(c) ==
  /\ closer[c] = "summarise"
  /\ closer' \in {[closer EXCEPT ![c] = "store"], [closer EXCEPT ![c] = "mark"]}
  /\ UNCHANGED <<log, writer, reflections, twice, excused>>

\* the client calls the reflect tool, whatever the log says
ReflectTool(c) ==
  /\ c \in Explicit /\ closer[c] = "idle"
  /\ closer' = [closer EXCEPT ![c] = "store"]
  /\ excused' = (excused \/ Closing # {})
  /\ UNCHANGED <<log, writer, reflections, twice>>

\* mgr.reflect stores the fragments, or throws: the tool then leaves no mark
StoreReflection(c) ==
  /\ closer[c] = "store"
  /\ \/ /\ reflections' = reflections \cup {c} /\ closer' = [closer EXCEPT ![c] = "mark"]
        /\ twice' = (twice \/ (reflections # {} /\ c \notin Explicit))
     \/ /\ UNCHANGED <<reflections, twice>>
        /\ closer' = [closer EXCEPT ![c] = IF c \in Explicit THEN "over" ELSE "mark"]
  /\ UNCHANGED <<log, writer, excused>>

\* the process stops: the records and the closers under way are gone
ReflectorsCrash ==
  /\ Writing # {} \/ Closing # {}
  /\ writer' = [r \in Recorder |-> IF r \in Writing THEN [writer[r] EXCEPT !.at = "over"]
                                   ELSE writer[r]]
  /\ closer' = [c \in Closer |-> IF c \in Closing THEN "over" ELSE closer[c]]
  /\ excused' = (excused \/ Closing # {})
  /\ UNCHANGED <<log, reflections, twice>>

ReflectionNext ==
  \/ \E r \in Recorder : StartRecord(r) \/ FinishRecord(r) \/ RecordFails(r)
  \/ \E c \in Closer : \/ BeginClose(c) \/ CloseFails(c) \/ Summarise(c) \/ ReflectTool(c)
                       \/ StoreReflection(c)
  \/ LogExpires \/ ReflectorsCrash

ReflectionSpec == ReflectionInit /\ [][ReflectionNext]_rfVars

----------------------------------------------------------------------------
(***************************************************************************)
(* A session is reflected automatically at most once, and not after its    *)
(* client has reflected it, unless closers overlap, a tool call writes     *)
(* back a log it read before the mark was set, Redis loses or refuses the  *)
(* mark, or the process stops before it is set (AutoReflect.js:41-44,      *)
(* SessionActivityTracker.js:24-76).                                       *)
(***************************************************************************)
ReflectedOnce ==
  twice => excused
=============================================================================
