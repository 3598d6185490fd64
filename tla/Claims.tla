------------------------------- MODULE Claims -------------------------------
(***************************************************************************)
(* The claims of fragments (symbolic/ClaimExtractor.js, ClaimStore.js):    *)
(* remember has one extracted from the content and stored in the           *)
(* background, and the script backfill-claims.js does it for every live    *)
(* fragment, key by key, a page at a time. amend extracts none. A claim is *)
(* about a subject and an object, which the topic and the words of the     *)
(* content give; its polarity and its predicate come from the first marker *)
(* the content contains.                                                   *)
(***************************************************************************)
EXTENDS Integers, Sequences, FiniteSets

CONSTANTS
  Memo,      \* fragments, numbered in the order of their ids
  Tenant,    \* key_id of a fragment
  Text,      \* contents
  About,     \* subject and object of the claim of a content
  Marker,    \* the marker that decides a content, or NoMarker
  NoMarker,
  Positive, Negative, Uncertain,  \* the lists of markers
  PageSize,  \* --batch-size
  MaxEdits   \* bound on remembers, amends and fragments that go

NoTenant == "none"

ASSUME ClaimAssumption ==
  /\ Memo \subseteq Nat \ {0} /\ IsFiniteSet(Memo) /\ Text # {}
  /\ \A m \in Memo : Tenant[m] # NoTenant
  /\ PageSize \in Nat \ {0} /\ MaxEdits \in Nat
  /\ Positive \cap Negative = {} /\ Positive \cap Uncertain = {} /\ Negative \cap Uncertain = {}
  /\ NoMarker \notin Positive \cup Negative \cup Uncertain
  /\ Marker \in [Text -> Positive \cup Negative \cup Uncertain \cup {NoMarker}]

VARIABLES
  memo,      \* the rows
  claims,    \* fragment_claims
  pending,   \* extractions that remember has started
  backfill,  \* the script
  edits,
  due        \* history: fragments that are the script's to do since it began

clVars == <<memo, claims, pending, backfill, edits, due>>

MemoRow == [is : {"none", "live", "expired", "gone"}, text : Text]
Extraction == [memo : Memo, text : Text]

Script ==
  [at : {"off", "fetch", "rows", "done"},
   left : SUBSET {Tenant[m] : m \in Memo},  \* keys still to do
   tenant : {Tenant[m] : m \in Memo} \cup {NoTenant},
   cursor : Nat,
   rows : Seq(Extraction),
   short : BOOLEAN]                         \* the page was not full

Polarity == {"positive", "negative", "uncertain"}
Claim == [memo : Memo, about : {About[t] : t \in Text},
          predicate : Positive \cup Negative \cup Uncertain \cup {NoMarker}, polarity : Polarity]

ClaimsTypeOK ==
  /\ memo \in [Memo -> MemoRow]
  /\ claims \subseteq Claim
  /\ pending \subseteq Extraction
  /\ backfill \in Script
  /\ edits \in 0..MaxEdits
  /\ due \subseteq Memo

Is(what) == {m \in Memo : memo[m].is = what}

\* an uncertain marker decides before a negative one, that before a positive one
PolarityOf(mark) ==
  IF mark \in Negative THEN "negative" ELSE IF mark \in Positive THEN "positive" ELSE "uncertain"

\* the marker itself; without one, the claim "mentions"
Predicate(text) == Marker[text]

ClaimOf(m, text) ==
  [memo |-> m, about |-> About[text], predicate |-> Predicate(text), polarity |-> PolarityOf(Marker[text])]

\* INSERT ... ON CONFLICT DO NOTHING: the polarity is not part of the unique index
WithClaim(c) ==
  IF \E d \in claims : d.memo = c.memo /\ d.about = c.about /\ d.predicate = c.predicate
    THEN claims ELSE claims \cup {c}
----------------------------------------------------------------------------
ClaimsInit ==
  /\ memo = [m \in Memo |-> [is |-> "none", text |-> CHOOSE t \in Text : TRUE]]
  /\ claims = {} /\ pending = {} /\ edits = 0 /\ due = {}
  /\ backfill = [at |-> "off", left |-> {}, tenant |-> NoTenant, cursor |-> 0, rows |-> <<>>, short |-> FALSE]

\* a new fragment, or the same content again, with or without claim extraction
\* (MEMENTO_SYMBOLIC_CLAIM_EXTRACTION)
RememberText(m, text) ==
  /\ edits < MaxEdits
  /\ memo[m].is = "none" \/ memo[m] = [is |-> "live", text |-> text]
  /\ edits' = edits + 1
  /\ memo' = [memo EXCEPT ![m] = [is |-> "live", text |-> text]]
  /\ \E P \in {{}, {[memo |-> m, text |-> text]}} : pending' = pending \cup P
  /\ UNCHANGED <<claims, backfill, due>>

AmendText(m, text) ==
  /\ memo[m].is = "live" /\ memo[m].text # text
  /\ edits < MaxEdits
  /\ edits' = edits + 1
  /\ memo' = [memo EXCEPT ![m].text = text]
  /\ due' = due \ {m}
  /\ UNCHANGED <<claims, pending, backfill>>

\* superseded, or deleted with its claims (ON DELETE CASCADE)
LoseMemo(m) ==
  /\ memo[m].is = "live" /\ edits < MaxEdits
  /\ edits' = edits + 1
  /\ due' = due \ {m}
  /\ \/ memo' = [memo EXCEPT ![m].is = "expired"] /\ UNCHANGED claims
     \/ memo' = [memo EXCEPT ![m].is = "gone"] /\ claims' = {c \in claims : c.memo # m}
  /\ UNCHANGED <<pending, backfill>>

\* _extractSymbolicClaims: stored, or lost with an error or the process; the
\* foreign key refuses the claim of a fragment that is gone
ExtractClaim(x) ==
  /\ x \in pending
  /\ pending' = pending \ {x}
  /\ \/ UNCHANGED claims
     \/ memo[x.memo].is # "gone" /\ claims' = WithClaim(ClaimOf(x.memo, x.text))
  /\ UNCHANGED <<memo, backfill, edits, due>>

----------------------------------------------------------------------------
\* resolveTenants: the master and every key that has a fragment
StartBackfill ==
  /\ backfill.at = "off"
  /\ backfill' = [backfill EXCEPT !.at = "fetch",
                    !.left = {Tenant[m] : m \in Memo \ (Is("none") \cup Is("gone"))}]
  /\ due' = Is("live")
  /\ UNCHANGED <<memo, claims, pending, edits>>

NextTenant ==
  /\ backfill.at = "fetch" /\ backfill.tenant = NoTenant
  /\ \/ \E k \in backfill.left :
          backfill' = [backfill EXCEPT !.tenant = k, !.left = @ \ {k}, !.cursor = 0]
     \/ backfill.left = {} /\ backfill' = [backfill EXCEPT !.at = "done"]
  /\ UNCHANGED <<memo, claims, pending, edits, due>>

\* mutant of Page: the lowest ids below the cursor
PageAscending ==
  LET Own == {m \in Is("live") : Tenant[m] = backfill.tenant /\ (backfill.cursor = 0 \/ m < backfill.cursor)}
  IN {m \in Own : Cardinality({n \in Own : n < m}) < PageSize}

\* the highest ids below the cursor, which is the last id of the page before
Page ==
  LET Own == {m \in Is("live") : Tenant[m] = backfill.tenant /\ (backfill.cursor = 0 \/ m < backfill.cursor)}
  IN {m \in Own : Cardinality({n \in Own : n > m}) < PageSize}

FetchPage ==
  /\ backfill.at = "fetch" /\ backfill.tenant # NoTenant
  /\ LET P == Page
         Row(i) == CHOOSE m \in P : Cardinality({n \in P : n >= m}) = i IN
     IF P = {}
       THEN backfill' = [backfill EXCEPT !.tenant = NoTenant]
       ELSE backfill' = [backfill EXCEPT !.at = "rows",
                           !.rows = [i \in 1..Cardinality(P) |-> [memo |-> Row(i), text |-> memo[Row(i)].text]],
                           !.short = Cardinality(P) < PageSize]
  /\ UNCHANGED <<memo, claims, pending, edits, due>>

\* processFragment: stored, dropped when its confidence is too low, or counted
\* as an error
StoreNext ==
  /\ backfill.at = "rows" /\ backfill.rows # <<>>
  /\ LET x == Head(backfill.rows) IN
     /\ backfill' = [backfill EXCEPT !.rows = Tail(@), !.cursor = x.memo]
     /\ \/ /\ memo[x.memo].is # "gone"
           /\ claims' = IF Marker[x.text] = NoMarker THEN claims ELSE WithClaim(ClaimOf(x.memo, x.text))
           /\ UNCHANGED due
        \/ due' = due \ {x.memo} /\ UNCHANGED claims
  /\ UNCHANGED <<memo, pending, edits>>

\* the last page of a key is the one that is not full
PageEnds ==
  /\ backfill.at = "rows" /\ backfill.rows = <<>>
  /\ backfill' = [backfill EXCEPT !.at = "fetch", !.short = FALSE,
                    !.tenant = IF backfill.short THEN NoTenant ELSE @]
  /\ UNCHANGED <<memo, claims, pending, edits, due>>

ClaimsNext ==
  \/ \E m \in Memo, text \in Text : RememberText(m, text) \/ AmendText(m, text)
  \/ \E m \in Memo : LoseMemo(m)
  \/ \E x \in pending : ExtractClaim(x)
  \/ StartBackfill \/ NextTenant \/ FetchPage \/ StoreNext \/ PageEnds

ClaimsSpec == ClaimsInit /\ [][ClaimsNext]_clVars

----------------------------------------------------------------------------
(***************************************************************************)
(* Once the script has ended, every fragment that was there when it began  *)
(* and has not been amended, retired or failed since has the claim of its  *)
(* content, whatever came, changed or went while it paged                  *)
(* (backfill-claims.js:158), unless the content has no marker.             *)
(***************************************************************************)
BackfillMissesNone ==
  backfill.at = "done" =>
    \A m \in due : Marker[memo[m].text] # NoMarker =>
      \E c \in claims : c.memo = m /\ c.about = About[memo[m].text] /\ c.predicate = Predicate(memo[m].text)
=============================================================================
