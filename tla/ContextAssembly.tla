--------------------------- MODULE ContextAssembly ---------------------------
(***************************************************************************)
(* The core memory of the context tool (ContextBuilder.js, build): which   *)
(* of the fragments of the requested types and of the last reflections are *)
(* put into the answer. What each recall finds, and how its rank and the   *)
(* score order it, is free. The anchors and the working memory, which are  *)
(* added to it within limits of their own, and the form of the answer are  *)
(* left out, and so is the learning loop, whose fragments are read after   *)
(* the core has been put together and never reach it.                      *)
(***************************************************************************)
EXTENDS Integers, Sequences, FiniteSets, SequencesExt, FiniteSetsExt

CONSTANTS
  Note,            \* fragments
  NoteType, NoteSize,
  Told,            \* those of the topic session_reflect
  Requested,       \* the types requested
  MaxCore,         \* maxCoreFragments
  TypeSlots,       \* of each type
  CoreChars,       \* coreCharBudget
  LeastCut         \* a fragment is cut to fit if more than these characters remain

VARIABLE context  \* the call

caVars == <<context>>

NoteTypes == {NoteType[n] : n \in Note}
Reflections == "session_reflect"
Section == Requested \cup {Reflections}

ASSUME ContextAssumption ==
  /\ IsFiniteSet(Note) /\ NoteSize \in [Note -> Nat] /\ Told \subseteq Note /\ DOMAIN NoteType = Note
  /\ Requested \subseteq NoteTypes /\ TypeSlots \in [NoteTypes -> Nat] /\ Reflections \notin Requested \cup NoteTypes
  /\ {MaxCore, CoreChars, LeastCut} \subseteq Nat

\* a fragment of the core, where it stands and how many characters of it
Excerpt == [note : Note, section : Section, chars : Nat]

ContextState ==
  [at : {"recall", "reflect", "assemble", "done"},
   left : SUBSET Requested, found : [Section -> Seq(Note)],
   core : Seq(Excerpt), placed : Nat, charged : Nat]

ContextTypeOK == context \in ContextState
----------------------------------------------------------------------------
ContextInit ==
  context = [at |-> "recall", left |-> Requested, found |-> [s \in Section |-> <<>>],
             core |-> <<>>, placed |-> 0, charged |-> 0]

FoundOf(N) == UNION {SetToSeqs(S) : S \in SUBSET N}

\* the recalls of all types run at once, and in the end each has its answer
RecallSection(type) ==
  /\ context.at = "recall" /\ type \in context.left
  /\ \E ranked \in FoundOf({n \in Note : NoteType[n] = type}) :
       context' = [context EXCEPT !.left = @ \ {type}, !.found[type] = ranked,
                     !.at = IF context.left = {type} THEN "reflect" ELSE @]

RecallReflections ==
  /\ context.at = "reflect"
  /\ \E ranked \in FoundOf(Told) :
       context' = [context EXCEPT !.found[Reflections] = ranked, !.at = "assemble"]

----------------------------------------------------------------------------
Filled(found) == {s \in Section : found[s] # <<>>}
TopNotes(found) == {Head(found[s]) : s \in Filled(found)}

\* found, and not the best of its section
Extras(found) == (UNION {Range(found[s]) : s \in Section}) \ TopNotes(found)

\* the characters of excerpts
Chars(core) ==
  LET sum[n \in 0..Len(core)] == IF n = 0 THEN 0 ELSE sum[n - 1] + core[n].chars
  IN  sum[Len(core)]

\* the best of each section, whatever it costs
Tops(found) ==
  SetToSeq({[note |-> Head(found[s]), section |-> s, chars |-> NoteSize[Head(found[s])]] : s \in Filled(found)})

\* mutant of Charged: the best of a section cost nothing
ChargedExtras(found) == 0

\* one that is the best of two sections is charged twice
Charged(found) == Chars(Tops(found))

Guaranteed(found) ==
  [core |-> Tops(found), placed |-> Len(Tops(found)), charged |-> Charged(found),
   count |-> [t \in NoteTypes |-> IF t \in Filled(found) THEN 1 ELSE 0],
   full |-> FALSE]

\* one more fragment, cut if need be; the first that does not fit is the last. What
\* finds its way into a section nobody asked for takes its place, and is left behind
Add(a, n) ==
  LET t == NoteType[n]
      room == CoreChars - a.charged
      With(chars, full) ==
        [core |-> IF t \in Section THEN Append(a.core, [note |-> n, section |-> t, chars |-> chars]) ELSE a.core,
         placed |-> a.placed + 1, charged |-> a.charged + chars,
         count |-> [a.count EXCEPT ![t] = @ + 1], full |-> full] IN
  IF a.full \/ a.placed >= MaxCore \/ a.count[t] >= TypeSlots[t] THEN a
  ELSE IF NoteSize[n] <= room THEN With(NoteSize[n], FALSE)
  ELSE IF room > LeastCut THEN With(room, TRUE) ELSE [a EXCEPT !.full = TRUE]

\* the extras as they are scored, one after the other
Assembled(found, scored) ==
  LET fill[n \in 0..Len(scored)] == IF n = 0 THEN Guaranteed(found) ELSE Add(fill[n - 1], scored[n])
  IN  fill[Len(scored)]

Assemble ==
  /\ context.at = "assemble"
  /\ \E scored \in SetToSeqs(Extras(context.found)) :
       LET a == Assembled(context.found, scored) IN
       context' = [context EXCEPT !.at = "done", !.core = a.core, !.placed = a.placed, !.charged = a.charged]

ContextNext ==
  (\E t \in Requested : RecallSection(t)) \/ RecallReflections \/ Assemble

ContextSpec == ContextInit /\ [][ContextNext]_caVars

----------------------------------------------------------------------------
(***************************************************************************)
(* The best fragment of every requested type is in the core, whole, and so *)
(* is the best reflection, although the other fragments compete for the    *)
(* same room (ContextBuilder.js:164); the core is no larger than its       *)
(* budget allows, or those alone take; no fragment stands in it twice,     *)
(* unless as the best of its type and of the reflections; and none is left *)
(* out unless a limit is reached or it did not fit (ContextBuilder.js:201). *)
(***************************************************************************)
ContextKept ==
  context.at = "done" =>
    LET core == context.core
        found == context.found
        OfSection(s) == {i \in DOMAIN core : core[i].section = s} IN
    /\ \A s \in Filled(found) : \E i \in OfSection(s) :
         core[i].note = Head(found[s]) /\ core[i].chars = NoteSize[core[i].note]
    /\ Chars(core) <= Max({CoreChars, Charged(found)})
    /\ Len(core) <= Max({MaxCore, Cardinality(Filled(found))})
    /\ \A t \in Requested : Cardinality(OfSection(t)) <= Max({TypeSlots[t], 1})
    /\ \A i, j \in DOMAIN core :
         i # j /\ core[i].note = core[j].note =>
           core[i].section # core[j].section /\ core[i].note \in TopNotes(found)
    /\ \A n \in Extras(found) :
         NoteType[n] \in Requested /\ (\A i \in DOMAIN core : core[i].note # n) =>
           \/ Cardinality(OfSection(NoteType[n])) >= TypeSlots[NoteType[n]]
           \/ context.placed >= MaxCore
           \/ \E m \in Extras(found) : context.charged + NoteSize[m] > CoreChars
=============================================================================
