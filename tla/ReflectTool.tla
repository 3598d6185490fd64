---------------------------- MODULE ReflectTool -----------------------------
(***************************************************************************)
(* The reflect tool at work in one session of a key: it gathers what the   *)
(* session has remembered, in rows and in the working memory, sorts it     *)
(* into the categories the client has left out, stores the items as one    *)
(* batch under the quota, tells them once more as an episode, and clears   *)
(* the working memory (ReflectProcessor.js, SessionLinker.js). Calls of    *)
(* one session may overlap. The links it writes are those of LinkWrites,   *)
(* the queue it feeds is that of EmbeddingPipeline, its episodes are       *)
(* chained in Milestones.                                                  *)
(***************************************************************************)
EXTENDS Integers, Sequences, FiniteSets, SequencesExt

CONSTANTS
  Scrap,      \* what the session remembers
  Lasting,    \* those remembered as rows; the others are for the session only
  Saga,       \* the episode a reflect leaves behind, a row of the session too
  Category,   \* where the type and the wording of a scrap put it
  Words,      \* its content
  Length,     \* and how long that is
  Closed,     \* the scraps that end with a full stop
  MaxLength,  \* MAX_FRAGMENT_LENGTH
  Unfit,      \* the scraps that validateContent refuses as an item
  Review,     \* calls of the tool
  Given,      \* the categories a call brings along, "narrative" among them
  MaxRoom     \* the rows the quota leaves if no other session takes any

Categories == {"summary", "decisions", "errors", "procedures", "questions"}

ASSUME ScrapAssumption ==
  /\ Saga \in Lasting /\ Lasting \subseteq Scrap /\ Unfit \subseteq Scrap
  /\ Category \in [Scrap -> Categories] /\ Length \in [Scrap -> Nat]
  /\ Given \in [Review -> SUBSET (Categories \cup {"narrative"})]
  /\ MaxLength \in Nat /\ MaxRoom \in Nat

VARIABLES
  scraps,   \* the working memory
  listed,   \* the rows of the session's set in Redis
  rows,     \* the contents stored for the key
  spare,    \* what the quota leaves
  review,   \* the calls
  cleared   \* history: what was cleared, and by which call

rtoolVars == <<scraps, listed, rows, spare, review, cleared>>

Blank == [at |-> "idle", seen |-> {}, items |-> <<>>, dropped |-> {}]

ReflectToolTypeOK ==
  /\ scraps \in Seq(Scrap \ Lasting) /\ listed \subseteq Lasting
  /\ spare \in 0..MaxRoom /\ cleared \subseteq (Scrap \X Review)
  /\ \A v \in Review :
       /\ review[v].at \in {"idle", "count", "store", "tell", "clear", "over"}
       /\ review[v].seen \subseteq Scrap /\ DOMAIN review[v] = DOMAIN Blank

----------------------------------------------------------------------------
(***************************************************************************)
(* The items of a call. A content is a mark ([resolved], [open], none),    *)
(* and the words; that of a part of the summary is the scraps it strings   *)
(* together.                                                               *)
(***************************************************************************)
Unmarked(e) == [mark |-> "plain", words |-> <<Words[e]>>]

Marked(e) ==
  IF Category[e] \in {"errors", "questions"}
  THEN [mark |-> Category[e], words |-> <<Words[e]>>] ELSE Unmarked(e)

\* new Set(contents): one more, of the category and not there yet
Include(done, e, k) ==
  IF Category[e] # k \/ Contains(done, Marked(e)) THEN done ELSE Append(done, Marked(e))

OneEach(s, k) ==
  LET done[n \in 0..Len(s)] == IF n = 0 THEN <<>> ELSE Include(done[n - 1], s[n], k)
  IN  done[Len(s)]

FactsOf(s) ==
  LET facts[n \in 0..Len(s)] ==
        IF n = 0 THEN <<>>
        ELSE IF Category[s[n]] = "summary" THEN Append(facts[n - 1], s[n]) ELSE facts[n - 1]
  IN  facts[Len(s)]

Extent(s) ==
  LET sum[n \in 0..Len(s)] == IF n = 0 THEN 0 ELSE sum[n - 1] + Length[s[n]]
  IN  sum[Len(s)]

\* _splitSentences: a scrap without a full stop runs into the next one
RunOn(done, e) == IF done = <<>> \/ Last(Last(done)) \in Closed THEN Append(done, <<e>>)
                  ELSE [done EXCEPT ![Len(done)] = Append(@, e)]

Sentences(s) ==
  LET done[n \in 0..Len(s)] == IF n = 0 THEN <<>> ELSE RunOn(done[n - 1], s[n])
  IN  done[Len(s)]

\* splitAndCreate: sentences are put together as long as they fit
Fit(done, x) == IF done = <<>> \/ Extent(Last(done)) + Extent(x) > MaxLength THEN Append(done, x)
                ELSE [done EXCEPT ![Len(done)] = @ \o x]

Chunked(sentences) ==
  LET done[n \in 0..Len(sentences)] == IF n = 0 THEN <<>> ELSE Fit(done[n - 1], sentences[n])
  IN  done[Len(sentences)]

Parts(s) == Chunked(Sentences(s))

\* create: what exceeds the length is cut off
Uncut(part) == {part[n] : n \in {m \in DOMAIN part : Extent(SubSeq(part, 1, m)) <= MaxLength}}

SummaryOf(s) ==
  LET facts == FactsOf(s)
      parts == Parts(facts)
  IN IF facts # <<>> THEN [n \in DOMAIN parts |-> [mark |-> "summary", words |-> parts[n]]]
     ELSE IF \E n \in DOMAIN s : Category[s[n]] # "questions"
          THEN <<[mark |-> "counts", words |-> <<>>]>> ELSE <<>>

ItemsOf(v, s) ==
  LET Of(k, own) == IF k \in Given[v] THEN <<[mark |-> "given", words |-> <<k, v>>]>> ELSE own
  IN Of("summary", SummaryOf(s)) \o Of("decisions", OneEach(s, "decisions"))
       \o Of("errors", OneEach(s, "errors")) \o Of("procedures", OneEach(s, "procedures"))
       \o Of("questions", OneEach(s, "questions"))

Refused(v, s) ==
  \E n \in DOMAIN s : s[n] \in Unfit /\ Category[s[n]] \notin Given[v]
----------------------------------------------------------------------------
ReflectToolInit ==
  /\ scraps = <<>> /\ listed = {} /\ rows = {} /\ cleared = {}
  /\ spare = MaxRoom
  /\ review = [v \in Review |-> Blank]

RememberForSession(e) ==
  /\ e \notin Lasting /\ ~Contains(scraps, e) /\ \A v \in Review : <<e, v>> \notin cleared
  /\ scraps' = Append(scraps, e)
  /\ UNCHANGED <<listed, rows, spare, review, cleared>>

\* the row is stored; registering it in Redis may fail
RememberRow(e) ==
  /\ e \in Lasting \ {Saga} /\ Unmarked(e) \notin rows /\ spare > 0
  /\ rows' = rows \cup {Unmarked(e)} /\ spare' = spare - 1
  /\ listed' \in {listed, listed \cup {e}}
  /\ UNCHANGED <<scraps, review, cleared>>

\* other sessions of the key use the quota up
OthersUseQuota ==
  /\ spare > 0 /\ spare' = 0
  /\ UNCHANGED <<scraps, listed, rows, review, cleared>>

Advance(v, at) == review' = [review EXCEPT ![v] =
                              [@ EXCEPT !.at = at,
                                       !.items = IF at = "over" THEN <<>> ELSE review[v].items]]

(***************************************************************************)
(* consolidateSessionFragments, then the items. A list that Redis does not *)
(* give counts as empty; an item that create refuses ends the call.        *)
(***************************************************************************)
Gather(v) ==
  /\ review[v].at = "idle"
  /\ \E old \in {SetToSeq(listed), <<>>}, new \in {scraps, <<>>} :
       LET s == old \o new
           items == ItemsOf(v, s)
       IN review' = [review EXCEPT ![v] =
            [at |-> IF Refused(v, s) THEN "over" ELSE IF items = <<>> THEN "tell" ELSE "count",
             seen |-> ToSet(new), items |-> IF Refused(v, s) THEN <<>> ELSE items,
             dropped |-> {}]]
  /\ UNCHANGED <<scraps, listed, rows, spare, cleared>>

\* what comes first is let in, the rest reported back
UnderQuota(v) ==
  LET items == review[v].items
      fits == SubSeq(items, 1, IF spare < Len(items) THEN spare ELSE Len(items))
  IN [review[v] EXCEPT !.items = fits, !.dropped = @ \cup (ToSet(items) \ ToSet(fits)),
                       !.at = IF fits = <<>> THEN "tell" ELSE "store"]

\* phase A of the batch
CountItems(v) ==
  /\ review[v].at = "count"
  /\ review' = [review EXCEPT ![v] = UnderQuota(v)]
  /\ UNCHANGED <<scraps, listed, rows, spare, cleared>>

(***************************************************************************)
(* Phase B counts again and inserts. A row of that content stays as it is, *)
(* but one INSERT cannot meet the same row twice.                          *)
(***************************************************************************)
StoreItems(v) ==
  /\ review[v].at = "store"
  /\ LET counted == UnderQuota(v)
         new == ToSet(counted.items) \ rows
     IN /\ Cardinality(ToSet(counted.items)) = Len(counted.items)
        /\ review' = [review EXCEPT ![v] = [counted EXCEPT !.at = "tell"]]
        /\ rows' = rows \cup new /\ spare' = spare - Cardinality(new)
  /\ UNCHANGED <<scraps, listed, cleared>>

\* mutant of StoreFails: the error is swallowed
StoreFailsQuietly(v) ==
  /\ review[v].at = "store"
  /\ review' = [review EXCEPT ![v] = [@ EXCEPT !.at = "tell", !.items = <<>>]]
  /\ UNCHANGED <<scraps, listed, rows, spare, cleared>>

\* the transaction is rolled back, the reflection ends
StoreFails(v) ==
  /\ review[v].at = "store"
  /\ Advance(v, "over")
  /\ UNCHANGED <<scraps, listed, rows, spare, cleared>>

(***************************************************************************)
(* The episode, a remember of its own. Without a narrative of the client's *)
(* it tells what was stored; with neither there is none. The episodes of   *)
(* all calls count as one here.                                            *)
(***************************************************************************)
Narrated(v) == review[v].items # <<>> \/ "narrative" \in Given[v]

Tell(v) ==
  /\ review[v].at = "tell" /\ (Narrated(v) => spare > 0)
  /\ Advance(v, "clear")
  /\ rows' = IF Narrated(v) THEN rows \cup {Unmarked(Saga)} ELSE rows
  /\ spare' = IF Narrated(v) /\ Unmarked(Saga) \notin rows THEN spare - 1 ELSE spare
  /\ listed' \in {listed} \cup (IF Narrated(v) THEN {listed \cup {Saga}} ELSE {})
  /\ UNCHANGED <<scraps, cleared>>

\* a link cannot be checked or the quota is used up: the call throws, with its
\* items stored; or the process stops, at any await
BreakOff(v) ==
  /\ review[v].at \in {"count", "tell", "clear"}
  /\ Advance(v, "over")
  /\ UNCHANGED <<scraps, listed, rows, spare, cleared>>

\* DEL, whose failure nobody learns of
ClearScraps(v) ==
  /\ review[v].at = "clear"
  /\ Advance(v, "over")
  /\ \/ scraps' = <<>> /\ cleared' = cleared \cup (ToSet(scraps) \X {v})
     \/ UNCHANGED <<scraps, cleared>>
  /\ UNCHANGED <<listed, rows, spare>>

ReflectToolNext ==
  \/ \E e \in Scrap : RememberForSession(e) \/ RememberRow(e)
  \/ OthersUseQuota
  \/ \E v \in Review : \/ Gather(v) \/ CountItems(v) \/ StoreItems(v) \/ StoreFails(v)
                       \/ Tell(v) \/ BreakOff(v) \/ ClearScraps(v)

ReflectToolSpec == ReflectToolInit /\ [][ReflectToolNext]_rtoolVars

----------------------------------------------------------------------------
Mentions(item, e) == item = Marked(e) \/ (item.mark = "summary" /\ e \in ToSet(item.words))

IsTold(e) ==
  \/ Marked(e) \in rows
  \/ \E r \in rows : r.mark = "summary" /\ e \in Uncut(r.words)

\* e is part of a sentence that was stored by itself
IsRunOn(e) ==
  \E r \in rows : Mentions(r, e) /\ ToSet(Front(r.words)) \cap Closed = {}

(***************************************************************************)
(* What a reflection clears from the working memory is told by a row that  *)
(* was stored before, unless it came after the list was read, the client   *)
(* had its own items of that category, the quota left no room for it, or   *)
(* the sentence it had become a part of is too long for any row            *)
(* (ReflectProcessor.js:335, after everything that may fail).              *)
(***************************************************************************)
ClearedScrapsTold ==
  \A c \in cleared :
    LET e == c[1]
        call == review[c[2]]
    IN \/ IsTold(e) \/ IsRunOn(e)
       \/ e \notin call.seen
       \/ Category[e] \in Given[c[2]]
       \/ \E item \in call.dropped : Mentions(item, e)
=============================================================================
