----------------------------- MODULE OAuthGrants ----------------------------
(***************************************************************************)
(* The grants of one authorization, kept in Redis: a code is exchanged for *)
(* an access and a refresh token, a refresh token for the next pair, and   *)
(* the requests that come with an access token act for the API key it is   *)
(* bound to (oauth.js, handlers/oauth-handler.js, auth.js). Calls overlap, *)
(* Redis and the database fail, the process stops, answers are lost. Keys  *)
(* are switched off and on, or over their limit, at any time, so that each *)
(* lookup of one may say no. Redirect addresses and PKCE are taken to      *)
(* match. What the key may do is in DailyUsage and FragmentStore.          *)
(***************************************************************************)
EXTENDS Integers, Sequences, FiniteSets

CONSTANTS
  App,        \* client ids
  ApiKey,     \* keys, held by the database
  NoApiKey,
  OwnKey,     \* the key a client id spells out, if it does
  BearerKey,  \* the key with which a client is registered, if it is with one
  Poster,     \* calls of POST /token
  Secret,     \* what they bring as client_secret
  MaxGrants   \* pairs of tokens

ASSUME AppAssumption ==
  /\ NoApiKey \notin ApiKey /\ MaxGrants \in Nat /\ Secret \subseteq ApiKey \cup {NoApiKey}
  /\ OwnKey \in [App -> ApiKey \cup {NoApiKey}] /\ BearerKey \in [App -> ApiKey \cup {NoApiKey}]

VARIABLES
  code,      \* the authorization code
  grants,    \* the pairs, in the order of their first write
  poster,    \* the calls
  contested  \* history: sources that two calls had read at once, or that outlived their use

oaVars == <<code, grants, poster, contested>>

TheCode == 0
Source == 0..MaxGrants
MaybeKey == ApiKey \cup {NoApiKey}

\* what codeData and tokenData say; "shown" is history: the key that was shown last
Binding == [app : App, bound : MaybeKey, isKey : BOOLEAN, shown : MaybeKey]

PosterPhase == {"idle", "consume", "access", "refresh", "delete", "answer"}
PosterState == [at : PosterPhase, from : Source, secret : MaybeKey, to : Source]
RestingPoster == [at |-> "idle", from |-> TheCode, secret |-> NoApiKey, to |-> TheCode]

Grant == [of : Binding, from : Source, answered : BOOLEAN,
          refresh : {"unsaved", "stored", "rotated", "expired"}]

Unissued == [is |-> "unissued",
             of |-> [app |-> CHOOSE a \in App : TRUE, bound |-> NoApiKey, isKey |-> FALSE, shown |-> NoApiKey]]

OAuthGrantsTypeOK ==
  /\ code \in [is : {"stored", "gone"}, of : Binding] \cup {Unissued}
  /\ grants \in Seq(Grant) /\ Len(grants) <= MaxGrants
  /\ \A g \in DOMAIN grants : grants[g].from < g
  /\ poster \in [Poster -> PosterState]
  /\ contested \subseteq Source
----------------------------------------------------------------------------
OAuthGrantsInit ==
  /\ code = Unissued /\ grants = <<>> /\ contested = {}
  /\ poster = [p \in Poster |-> RestingPoster]

(***************************************************************************)
(* What the lookups of handleAuthorize may find. POST /register with a key *)
(* puts it into the client's name; if it comes without one, or after a GET *)
(* /authorize that has registered the client itself, the name has no key,  *)
(* for ON CONFLICT keeps the first.                                        *)
(***************************************************************************)
Found(a) ==
  {[app |-> a, bound |-> NoApiKey, isKey |-> FALSE, shown |-> NoApiKey]}
  \cup {[app |-> a, bound |-> NoApiKey, isKey |-> TRUE, shown |-> k] : k \in {OwnKey[a]} \cap ApiKey}
  \cup {[app |-> a, bound |-> k, isKey |-> TRUE, shown |-> k] : k \in {BearerKey[a]} \cap ApiKey}

\* handleAuthorize
Authorize(a) ==
  /\ code.is = "unissued"
  /\ \E of \in Found(a) : code' = [is |-> "stored", of |-> of]
  /\ UNCHANGED <<grants, poster, contested>>

\* nobody learns that a SETEX has failed: the record is as if expired at once
CodeExpires ==
  /\ code.is = "stored" /\ code' = [code EXCEPT !.is = "gone"]
  /\ UNCHANGED <<grants, poster, contested>>

----------------------------------------------------------------------------
PosterTo(p, at) == poster' = [poster EXCEPT ![p].at = at]
PosterDone(p) == poster' = [poster EXCEPT ![p] = RestingPoster]

\* calls that have read s and not yet deleted it
Using(s) == {p \in Poster : poster[p].from = s /\ poster[p].at \in {"consume", "access", "refresh", "delete"}}

Stored(s) ==
  IF s = TheCode THEN code.is = "stored" ELSE grants[s].refresh = "stored" /\ grants[s].answered

(***************************************************************************)
(* A client posts its code, or a refresh token it was answered, which is   *)
(* read (consumeOAuthCode and getOAuthToken: GET). A secret that is no     *)
(* valid key counts as none. Where there is no record, or Redis does not   *)
(* answer, the call ends with invalid_grant and changes nothing.           *)
(***************************************************************************)
Post(p, s) ==
  /\ poster[p].at = "idle" /\ Stored(s) /\ Len(grants) < MaxGrants
  /\ \E k \in Secret :
       poster' = [poster EXCEPT ![p] = [RestingPoster EXCEPT !.from = s, !.secret = k,
                                                      !.at = IF s = TheCode THEN "consume" ELSE "access"]]
  /\ contested' = IF Using(s) # {} THEN contested \cup {s} ELSE contested
  /\ UNCHANGED <<code, grants>>

\* mutant of ConsumeCode: the DEL may fail and the code is given out all the same
ConsumeCodeAnyway(p) ==
  /\ poster[p].at = "consume"
  /\ \E is \in {"gone", code.is} : code' = [code EXCEPT !.is = is]
  /\ PosterTo(p, "access")
  /\ UNCHANGED <<grants, contested>>

\* consumeOAuthCode: DEL; an error counts as no code. What was read may have expired.
ConsumeCode(p) ==
  /\ poster[p].at = "consume"
  /\ \/ code' = [code EXCEPT !.is = "gone"] /\ (PosterTo(p, "access") \/ PosterDone(p))
     \/ UNCHANGED code /\ PosterDone(p)
  /\ UNCHANGED <<grants, contested>>

\* mutant of Successor: the key of the previous pair is forgotten
SuccessorUnbound(of, secret) ==
  [of EXCEPT !.bound = secret, !.shown = IF secret = NoApiKey THEN @ ELSE secret]

\* effectiveBoundId, effectiveIsApiKey
Successor(of, secret) ==
  IF secret = NoApiKey THEN of
  ELSE [of EXCEPT !.bound = secret, !.isKey = TRUE, !.shown = secret]

\* the access token, which may be gone at any time, and nothing depends on it; then the
\* refresh token
SaveAccess(p) ==
  LET s == poster[p].from
      of == IF s = TheCode THEN code.of ELSE grants[s].of
  IN /\ poster[p].at = "access" /\ Len(grants) < MaxGrants
     /\ grants' = Append(grants, [of |-> Successor(of, poster[p].secret), from |-> s,
                                  answered |-> FALSE, refresh |-> "unsaved"])
     /\ poster' = [poster EXCEPT ![p] = [@ EXCEPT !.at = "refresh", !.to = Len(grants) + 1]]
     /\ UNCHANGED <<code, contested>>

SaveRefresh(p) ==
  /\ poster[p].at = "refresh"
  /\ grants' = [grants EXCEPT ![poster[p].to].refresh = "stored"]
  /\ PosterTo(p, IF poster[p].from = TheCode THEN "answer" ELSE "delete")
  /\ UNCHANGED <<code, contested>>

\* deleteOAuthToken of the refresh token used
DeleteOld(p) ==
  LET s == poster[p].from
  IN /\ poster[p].at = "delete" /\ PosterTo(p, "answer")
     /\ \/ /\ grants' = [grants EXCEPT ![s].refresh = IF @ = "stored" THEN "rotated" ELSE @]
           /\ UNCHANGED contested
        \/ UNCHANGED grants /\ contested' = contested \cup {s}
     /\ UNCHANGED code

AnswerTokens(p) ==
  /\ poster[p].at = "answer" /\ PosterDone(p)
  /\ grants' = [grants EXCEPT ![poster[p].to].answered = TRUE]
  /\ UNCHANGED <<code, contested>>

\* the process stops, or the connection is lost with the answer
PosterStops(p) ==
  /\ poster[p].at # "idle" /\ PosterDone(p)
  /\ contested' = IF poster[p].at \in {"refresh", "delete"} /\ poster[p].from # TheCode
                  THEN contested \cup {poster[p].from} ELSE contested
  /\ UNCHANGED <<code, grants>>

RefreshExpires(g) ==
  /\ grants[g].refresh = "stored" /\ grants' = [grants EXCEPT ![g].refresh = "expired"]
  /\ UNCHANGED <<code, poster, contested>>

----------------------------------------------------------------------------
(***************************************************************************)
(* validateAuthentication with the access token of a pair: the key it may  *)
(* act for, and the keys it has tried before. The key that the pair is     *)
(* bound to is looked up first; where that is inactive or not found, the   *)
(* one that the client id spells out. Where there is none, the request is  *)
(* rejected (unless REJECT_NONAPIKEY_OAUTH is false). It changes nothing   *)
(* here.                                                                   *)
(***************************************************************************)
MayActFor(of) ==
  {[key |-> k, tried |-> {}] : k \in {of.bound} \cap ApiKey}
  \cup {[key |-> k, tried |-> {of.bound} \cap ApiKey] : k \in IF of.isKey THEN {OwnKey[of.app]} \cap ApiKey ELSE {}}

OAuthGrantsNext ==
  \/ \E a \in App : Authorize(a)
  \/ CodeExpires
  \/ \E p \in Poster, s \in {TheCode} \cup DOMAIN grants : Post(p, s)
  \/ \E p \in Poster : \/ ConsumeCode(p) \/ SaveAccess(p)
                       \/ SaveRefresh(p) \/ DeleteOld(p) \/ AnswerTokens(p) \/ PosterStops(p)
  \/ \E g \in DOMAIN grants : RefreshExpires(g)

OAuthGrantsSpec == OAuthGrantsInit /\ [][OAuthGrantsNext]_oaVars

----------------------------------------------------------------------------
SuccessorsOf(s) == {h \in DOMAIN grants : grants[h].from = s}

(***************************************************************************)
(* A refresh token is deleted for its use only after its successor has     *)
(* been written; and a code or a refresh token has a second successor only *)
(* if two calls had read it at once, or a refresh token outlived its use   *)
(* because its DEL failed or the process stopped before it                 *)
(* (consumeOAuthCode, redis.js:324; handleToken, oauth.js:329).            *)
(***************************************************************************)
RotationAccounted ==
  /\ \A g \in DOMAIN grants :
       grants[g].refresh = "rotated" => \E h \in SuccessorsOf(g) : grants[h].refresh # "unsaved"
  /\ \A s \in Source : Cardinality(SuccessorsOf(s)) > 1 => s \in contested

(***************************************************************************)
(* Along any number of refreshes, a request acts for the key that the      *)
(* client has shown last. It acts for another, the one its client id       *)
(* spells out, only if it has found the key shown inactive, or not at all  *)
(* (auth.js:128-148).                                                      *)
(***************************************************************************)
ActsForShownKey ==
  \A g \in DOMAIN grants :
    LET of == grants[g].of
    IN \A act \in MayActFor(of) :
         \/ act.key = of.shown
         \/ act.key = OwnKey[of.app] /\ of.shown \in act.tried
=============================================================================
