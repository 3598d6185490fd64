------------------------------ MODULE Sessions ------------------------------
(***************************************************************************)
(* The Streamable HTTP sessions: the in-process map, the Redis copies that *)
(* survive a restart, the requests that restore, recover, rotate and end   *)
(* sessions, the five-minute cleanup and the shutdown, which awaits an     *)
(* LLM reflection before it closes each session (sessions.js,              *)
(* handlers/mcp-handler.js, scheduler.js, server.js, redis.js).            *)
(*                                                                         *)
(* JavaScript runs a handler up to its next await without interruption,    *)
(* and Redis serves one connection in order: a write counts as done where  *)
(* it is sent, a read takes effect at Redis and is used later.             *)
(***************************************************************************)
EXTENDS Integers, FiniteSets

CONSTANTS
  MaxSid, \* bound on session ids, which are random and numbered here as they are issued
  Op,     \* slots for requests in flight, numbered: a request takes the first free one
  MaxLoad \* bound on ids issued and requests in flight when a request arrives

ASSUME SidAssumption == MaxSid \in Nat /\ Op \subseteq Nat \ {0}

Sid == 1..MaxSid
NoSid == 0
NoOp == 0

VARIABLES
  mem,     \* the streamableSessions map; "stale" is past expiresAt
  redis,   \* ids that have a copy in Redis
  op,      \* the requests
  cleaning, \* the session cleanupExpiredSessions is closing
  shutdown, \* those gracefulShutdown has yet to close, and the one it is closing
  closing, \* gracefulShutdown has begun
  issued,  \* ids given to clients
  live,    \* history: answered to its client, and neither ended by it, nor
           \* expired, nor hit by a failed command, nor revived while it was ended
  ended    \* history: closed, and neither recovered nor put back since by a
           \* request that was in flight then

ssVars == <<mem, redis, op, cleaning, shutdown, closing, issued, live, ended>>

Kind == {"post", "delete", "rotate"}
SessionPC == {"idle", "read", "restore", "renew", "valid", "reflect", "auth", "create", "end"}
OpState == [kind : Kind, sid : Sid \cup {NoSid}, pc : SessionPC, old : BOOLEAN]
IdleOp == [kind |-> "post", sid |-> NoSid, pc |-> "idle", old |-> FALSE]

SessionsTypeOK ==
  /\ mem \in [Sid -> {"none", "fresh", "stale"}]
  /\ redis \subseteq Sid /\ issued \subseteq Sid
  /\ op \in [Op -> OpState]
  /\ cleaning \in Sid \cup {NoSid}
  /\ shutdown \in [todo : SUBSET Sid, at : Sid \cup {NoSid}]
  /\ closing \in BOOLEAN
  /\ live \subseteq Sid /\ ended \subseteq Sid

Busy == {o \in Op : op[o].pc # "idle"}
InUse == {s \in Sid : mem[s] # "none"}

\* the id randomUUID() gives next
IsNext(s) == s \notin issued /\ 1..(s - 1) \subseteq issued

FirstFree(o) == op[o].pc = "idle" /\ \A p \in Op : p < o => op[p].pc # "idle"

Goto(o, pc) == op' = [op EXCEPT ![o].pc = pc]
Done(o) == op' = [op EXCEPT ![o] = IdleOp]

\* saveSession: an error is swallowed, what the copy was stays
Save(s, alive) ==
  \/ redis' = redis \cup {s} /\ live' = IF alive THEN live \cup {s} ELSE live
  \/ UNCHANGED redis /\ live' = live \ {s}

\* some other request or sweep may yet end s
BeingEnded(s, o) ==
  \/ \E p \in Op \ {o} : op[p].sid = s /\ (op[p].kind # "post" \/ op[p].pc = "reflect")
  \/ s = cleaning \/ s \in shutdown.todo

\* whether a session that request o restores or recovers can be relied on
Reliable(s, o) == op[o].kind = "post" /\ ~BeingEnded(s, o)

\* requests that hold the session object (or its copy) go on holding it
Overtaken(s, o) ==
  [p \in Op |-> IF p # o /\ op[p].sid = s /\ op[p].pc \in {"restore", "renew", "valid"}
                THEN [op[p] EXCEPT !.old = TRUE] ELSE op[p]]

\* deleteSession, whose error is swallowed too
DeleteCopy(s) ==
  \/ redis' = redis \ {s} /\ ended' = ended \cup {s}
  \/ UNCHANGED redis /\ ended' = ended \ {s}

\* mutant of CloseSession: the Redis copy is kept by default
CloseKeepingCopy(s, preserve) ==
  /\ mem' = [mem EXCEPT ![s] = "none"]
  /\ ended' = IF preserve THEN ended ELSE ended \cup {s}
  /\ UNCHANGED redis

\* mutant of CloseSession: the shutdown deletes the copies as well
CloseDroppingCopy(s, preserve) == mem' = [mem EXCEPT ![s] = "none"] /\ DeleteCopy(s)

\* session.close({preserveRedis}), which deletes by id whatever the map now holds
CloseSession(s, preserve) ==
  /\ mem' = [mem EXCEPT ![s] = "none"]
  /\ IF preserve THEN UNCHANGED <<redis, ended>> ELSE DeleteCopy(s)

Touched(o) == ended' = IF op[o].old THEN ended \ {op[o].sid} ELSE ended

----------------------------------------------------------------------------
SessionsInit ==
  /\ mem = [s \in Sid |-> "none"]
  /\ redis = {} /\ issued = {} /\ live = {} /\ ended = {} /\ closing = FALSE
  /\ op = [o \in Op |-> IdleOp]
  /\ cleaning = NoSid /\ shutdown = [todo |-> {}, at |-> NoSid]

\* initialize without a reusable session: a random id, in the map and in Redis
Initialize(s) ==
  /\ IsNext(s) /\ ~closing
  /\ issued' = issued \cup {s}
  /\ mem' = [mem EXCEPT ![s] = "fresh"]
  /\ Save(s, TRUE)
  /\ UNCHANGED <<op, cleaning, shutdown, closing, ended>>

(***************************************************************************)
(* A request arrives; delete and rotate ask for the end of s. Then         *)
(* validateStreamableSession, and the lookup of rotateSession, up to their *)
(* first await.                                                            *)
(***************************************************************************)
Arrive(o, kind, s, pc) ==
  /\ FirstFree(o) /\ s \in issued /\ ~closing
  /\ Cardinality(issued) + Cardinality(Busy) < MaxLoad
  /\ op' = [op EXCEPT ![o] = [kind |-> kind, sid |-> s, pc |-> pc, old |-> FALSE]]
  /\ UNCHANGED <<mem, cleaning, shutdown, closing, issued, ended>>

\* history: the client no longer counts on s
GivenUp(kind, s) == live' = IF kind = "post" THEN live ELSE live \ {s}

\* in the map and not expired: renewed and saved
FindFresh(o, kind, s) ==
  /\ mem[s] = "fresh" /\ kind # "rotate"
  /\ Arrive(o, kind, s, "valid")
  /\ IF kind = "post" THEN Save(s, FALSE)
     ELSE redis' \in {redis \cup {s}, redis} /\ GivenUp(kind, s)

\* in the map but expired: it is closed first
FindStale(o, kind, s) ==
  /\ mem[s] = "stale"
  /\ Arrive(o, kind, s, "reflect") /\ GivenUp(kind, s) /\ UNCHANGED redis

FindNothing(o, kind, s) ==
  /\ mem[s] = "none"
  /\ Arrive(o, kind, s, "read") /\ GivenUp(kind, s) /\ UNCHANGED redis

\* the heartbeats of the SSE response fail: closeStreamableSession
LoseStream(o, s) ==
  /\ mem[s] = "fresh"
  /\ Arrive(o, "delete", s, "reflect") /\ GivenUp("delete", s) /\ UNCHANGED redis

\* getSession: an error reads as no session
ReadCopy(o) ==
  /\ op[o].pc = "read"
  /\ \/ op[o].sid \in redis /\ Goto(o, IF op[o].kind = "rotate" THEN "create" ELSE "restore")
     \/ op[o].kind = "post" /\ Goto(o, "auth")
     \/ op[o].kind # "post" /\ Done(o)
  /\ UNCHANGED <<mem, redis, cleaning, shutdown, closing, issued, live, ended>>

\* the copy read is put into the map with a new expiry and saved
Restore(o) ==
  LET s == op[o].sid IN
  /\ op[o].pc = "restore"
  /\ Goto(o, "renew")
  /\ mem' = [mem EXCEPT ![s] = "fresh"]
  /\ Save(s, Reliable(s, o)) /\ Touched(o)
  /\ UNCHANGED <<cleaning, shutdown, closing, issued>>

\* the end of validation saves the session once more
Renew(o) ==
  /\ op[o].pc = "renew"
  /\ Goto(o, "valid")
  /\ Save(op[o].sid, FALSE) /\ Touched(o)
  /\ UNCHANGED <<mem, cleaning, shutdown, closing, issued>>

\* the request is served; a session without group keys is completed and saved
Serve(o) ==
  /\ op[o].pc = "valid" /\ op[o].kind = "post"
  /\ Done(o)
  /\ \/ UNCHANGED <<redis, live, ended>>
     \/ Save(op[o].sid, FALSE) /\ Touched(o)
  /\ UNCHANGED <<mem, cleaning, shutdown, closing, issued>>

\* DELETE /mcp: authentication and the key check, then closeStreamableSession
StartClose(o) ==
  /\ op[o].pc = "valid" /\ op[o].kind = "delete"
  /\ \/ Done(o)
     \/ mem[op[o].sid] # "none" /\ Goto(o, "reflect")
  /\ UNCHANGED <<mem, redis, cleaning, shutdown, closing, issued, live, ended>>

\* the reflection is over (or has failed): session.close; an expired POST goes on
FinishClose(o) ==
  /\ op[o].pc = "reflect"
  /\ CloseSession(op[o].sid, FALSE)
  /\ op' = [Overtaken(op[o].sid, o) EXCEPT ![o] =
              IF op[o].kind = "post" THEN [@ EXCEPT !.pc = "auth"] ELSE IdleOp]
  /\ UNCHANGED <<cleaning, shutdown, closing, issued, live>>

\* "Session not found" or "expired": an authenticated client gets the id back
Recover(o) ==
  LET s == op[o].sid IN
  /\ op[o].pc = "auth"
  /\ Done(o)
  /\ \/ UNCHANGED <<mem, redis, live, ended>>
     \/ /\ mem' = [mem EXCEPT ![s] = "fresh"]
        /\ Save(s, Reliable(s, o))
        /\ ended' = ended \ {s}
  /\ UNCHANGED <<cleaning, shutdown, closing, issued>>

\* rotateSession: the new session first (at once if the old one was in the
\* map), then the end of the old one
RotateFresh(o, s, new) ==
  /\ mem[s] = "fresh" /\ FirstFree(o) /\ ~closing
  /\ Cardinality(issued) + Cardinality(Busy) < MaxLoad
  /\ IsNext(new)
  /\ issued' = issued \cup {new}
  /\ op' = [op EXCEPT ![o] = [kind |-> "rotate", sid |-> s, pc |-> "end", old |-> FALSE]]
  /\ mem' = [mem EXCEPT ![new] = "fresh"]
  /\ \/ redis' = redis \cup {new} /\ live' = (live \ {s}) \cup {new}
     \/ UNCHANGED redis /\ live' = live \ {s}
  /\ UNCHANGED <<cleaning, shutdown, closing, ended>>

RotateCreate(o, new) ==
  /\ op[o].pc = "create" /\ IsNext(new)
  /\ issued' = issued \cup {new}
  /\ mem' = [mem EXCEPT ![new] = "fresh"]
  /\ Save(new, TRUE)
  /\ Goto(o, "end")
  /\ UNCHANGED <<cleaning, shutdown, closing, ended>>

RotateEnd(o) ==
  /\ op[o].pc = "end"
  /\ CloseSession(op[o].sid, FALSE)
  /\ op' = [Overtaken(op[o].sid, o) EXCEPT ![o] = IdleOp]
  /\ UNCHANGED <<cleaning, shutdown, closing, issued, live>>

----------------------------------------------------------------------------
\* SESSION_TTL passes without a request
Age(s) ==
  /\ mem[s] = "fresh"
  /\ mem' = [mem EXCEPT ![s] = "stale"]
  /\ live' = live \ {s}
  /\ UNCHANGED <<redis, op, cleaning, shutdown, closing, issued, ended>>

\* the TTL of the copy, which every use of a session in the map renews
CopyExpires(s) ==
  /\ s \in redis /\ mem[s] # "fresh"
  /\ redis' = redis \ {s}
  /\ live' = live \ {s}
  /\ UNCHANGED <<mem, op, cleaning, shutdown, closing, issued, ended>>

\* cleanupExpiredSessions comes to an expired session: closeStreamableSession
CleanupVisit(s) ==
  /\ cleaning = NoSid /\ mem[s] = "stale"
  /\ cleaning' = s
  /\ UNCHANGED <<mem, redis, op, shutdown, closing, issued, live, ended>>

CleanupClose ==
  /\ cleaning # NoSid
  /\ CloseSession(cleaning, FALSE)
  /\ op' = Overtaken(cleaning, NoOp)
  /\ cleaning' = NoSid
  /\ UNCHANGED <<shutdown, closing, issued, live>>

\* gracefulShutdown closes the sessions it finds after the workers have drained
ShutdownStart ==
  /\ ~closing /\ closing' = TRUE
  /\ shutdown' = [shutdown EXCEPT !.todo = InUse]
  /\ UNCHANGED <<mem, redis, op, cleaning, issued, live, ended>>

ShutdownVisit(s) ==
  /\ shutdown.at = NoSid /\ s \in shutdown.todo
  /\ shutdown' = IF mem[s] = "none" THEN [shutdown EXCEPT !.todo = @ \ {s}]
                ELSE [shutdown EXCEPT !.at = s]
  /\ UNCHANGED <<mem, redis, op, cleaning, closing, issued, live, ended>>

ShutdownClose ==
  /\ shutdown.at # NoSid
  /\ CloseSession(shutdown.at, TRUE)
  /\ shutdown' = [todo |-> shutdown.todo \ {shutdown.at}, at |-> NoSid]
  /\ UNCHANGED <<op, cleaning, closing, issued, live>>

\* process.exit at the end of the shutdown, or a crash at any time
Restart ==
  /\ mem' = [s \in Sid |-> "none"]
  /\ op' = [o \in Op |-> IdleOp]
  /\ cleaning' = NoSid /\ shutdown' = [todo |-> {}, at |-> NoSid]
  /\ closing' = FALSE
  /\ UNCHANGED <<redis, issued, live, ended>>

RequestStep(o) ==
  \/ \E s \in Sid : \/ \E kind \in Kind : \/ FindFresh(o, kind, s) \/ FindStale(o, kind, s)
                                       \/ FindNothing(o, kind, s)
                  \/ LoseStream(o, s)
                  \/ \E new \in Sid : RotateFresh(o, s, new)
  \/ ReadCopy(o) \/ Restore(o) \/ Renew(o) \/ Serve(o) \/ StartClose(o) \/ FinishClose(o)
  \/ Recover(o) \/ RotateEnd(o)
  \/ \E new \in Sid : RotateCreate(o, new)

SessionsNext ==
  \/ \E o \in Op : RequestStep(o)
  \/ \E s \in Sid : Initialize(s) \/ Age(s) \/ CopyExpires(s) \/ CleanupVisit(s)
                     \/ ShutdownVisit(s)
  \/ CleanupClose \/ ShutdownStart \/ ShutdownClose \/ Restart

SessionsSpec == SessionsInit /\ [][SessionsNext]_ssVars

----------------------------------------------------------------------------
(***************************************************************************)
(* A session its client was given, has not asked to end and has not left   *)
(* unused for the TTL is in Redis, so a restart, graceful or not, leaves   *)
(* it there to be restored (server.js:362, sessions.js:235). Unless a      *)
(* Redis command failed, or the session came back to life under its id     *)
(* while something was still ending it: close deletes by id.               *)
(***************************************************************************)
SurvivesRestart == live \subseteq redis

(***************************************************************************)
(* A closed session is gone from the map and from Redis, and stays so,     *)
(* until a client recovers its id or a request that already held the       *)
(* session when it was closed puts it back (sessions.js:166-200 and        *)
(* 219-227, mcp-handler.js:213-225).                                       *)
(***************************************************************************)
EndedStaysEnded ==
  \A s \in ended : mem[s] = "none" /\ s \notin redis
=============================================================================
