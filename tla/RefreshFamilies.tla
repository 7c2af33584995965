-------------------------- MODULE RefreshFamilies ---------------------------
(* What a store of refresh tokens promises, as the in-memory store keeps it  *)
(* under one mutex: a session has a chain of tokens of which only the last   *)
(* can be exchanged, and a session that ended never comes back.              *)
EXTENDS TLAPS

CONSTANTS Sessions, Tokens, NoOne

VARIABLES
  state,  \* a session is new, live or ended
  holder, \* the session a token belongs to
  next    \* the token it was exchanged for

familyVars == <<state, holder, next>>

FamiliesInit ==
  /\ state = [s \in Sessions |-> "new"]
  /\ holder = [t \in Tokens |-> NoOne]
  /\ next = [t \in Tokens |-> NoOne]

\* issue_session: a session and its first token.
Issue(s, t) ==
  /\ state[s] = "new" /\ holder[t] = NoOne
  /\ state' = [state EXCEPT ![s] = "live"]
  /\ holder' = [holder EXCEPT ![t] = s]
  /\ UNCHANGED next

\* rotate: the last token of a live session is exchanged once.
Rotate(t, fresh) ==
  /\ holder[t] # NoOne /\ state[holder[t]] = "live"
  /\ next[t] = NoOne
  /\ holder[fresh] = NoOne /\ fresh # t
  /\ holder' = [holder EXCEPT ![fresh] = holder[t]]
  /\ next' = [next EXCEPT ![t] = fresh]
  /\ UNCHANGED state

\* revoke_family_locked: a replay, a sign-out or a change of the account ends
\* sessions for good.
Revoke(ss) ==
  /\ state' = [s \in Sessions |-> IF s \in ss /\ state[s] = "live" THEN "ended" ELSE state[s]]
  /\ UNCHANGED <<holder, next>>

FamiliesNext ==
  \/ \E s \in Sessions, t \in Tokens : Issue(s, t)
  \/ \E t, fresh \in Tokens : Rotate(t, fresh)
  \/ \E ss \in SUBSET Sessions : Revoke(ss)

FamiliesSpec == FamiliesInit /\ [][FamiliesNext]_familyVars

-----------------------------------------------------------------------------
(* Properties.                                                               *)

\* Sessions and tokens refer to each other.
FamiliesTypeOK ==
  /\ state \in [Sessions -> {"new", "live", "ended"}]
  /\ holder \in [Tokens -> Sessions \cup {NoOne}]
  /\ next \in [Tokens -> Tokens \cup {NoOne}]

\* Two devices with one token: whoever exchanges it, a session never has two
\* tokens that could be exchanged.
OneCurrentToken ==
  \A t, u \in Tokens :
    holder[t] # NoOne /\ holder[t] = holder[u] /\ next[t] = NoOne /\ next[u] = NoOne => t = u

\* A token is exchanged within its session, and no two for the same one.
ChainsAreLinear ==
  \A t \in Tokens : next[t] # NoOne =>
    /\ holder[t] # NoOne /\ holder[next[t]] = holder[t]
    /\ \A u \in Tokens : next[u] = next[t] => u = t

-----------------------------------------------------------------------------
(* A token outside a chain was not exchanged, and a session without a token  *)
(* has not begun: with these two the promises are inductive.                 *)
FamiliesInvariant ==
  /\ FamiliesTypeOK /\ OneCurrentToken /\ ChainsAreLinear
  /\ \A t \in Tokens : holder[t] # NoOne => state[holder[t]] # "new"

\* However tokens are exchanged and sessions end, a session has at most one
\* token that can be exchanged, and its tokens form one chain (rotate).
THEOREM OneTokenPerSession ==
  ASSUME NoOne \notin Sessions, NoOne \notin Tokens
  PROVE  FamiliesSpec => [](OneCurrentToken /\ ChainsAreLinear)
<1>1. FamiliesInit => FamiliesInvariant
  BY DEF FamiliesInit, FamiliesInvariant, FamiliesTypeOK, OneCurrentToken, ChainsAreLinear
<1>2. FamiliesInvariant /\ [FamiliesNext]_familyVars => FamiliesInvariant'
  <2> SUFFICES ASSUME FamiliesInvariant, [FamiliesNext]_familyVars
               PROVE  FamiliesInvariant'
    OBVIOUS
  <2>1. ASSUME NEW s \in Sessions, NEW t \in Tokens, Issue(s, t)
        PROVE  FamiliesInvariant'
    <3>1. /\ FamiliesTypeOK' /\ UNCHANGED next
          /\ holder'[t] = s /\ \A u \in Tokens : u # t => holder'[u] = holder[u]
          /\ state'[s] = "live" /\ \A z \in Sessions : z # s => state'[z] = state[z]
      BY <2>1 DEF Issue, FamiliesInvariant, FamiliesTypeOK
    <3>2. \A u \in Tokens : holder[u] # s
      BY <2>1 DEF Issue, FamiliesInvariant
    <3>3. OneCurrentToken'
      BY <3>1, <3>2 DEF FamiliesInvariant, OneCurrentToken
    <3>4. \A u \in Tokens : next[u] # NoOne => u # t /\ next[u] # t
      BY <2>1 DEF Issue, FamiliesInvariant, ChainsAreLinear
    <3>5. ChainsAreLinear'
      BY <3>1, <3>4 DEF FamiliesInvariant, FamiliesTypeOK, ChainsAreLinear
    <3> QED
      BY <3>1, <3>3, <3>5 DEF FamiliesInvariant, FamiliesTypeOK
  <2>2. ASSUME NEW t \in Tokens, NEW fresh \in Tokens, Rotate(t, fresh)
        PROVE  FamiliesInvariant'
    <3>1. /\ FamiliesTypeOK' /\ UNCHANGED state /\ fresh # t
          /\ holder'[fresh] = holder[t] /\ \A u \in Tokens : u # fresh => holder'[u] = holder[u]
          /\ next'[t] = fresh /\ \A u \in Tokens : u # t => next'[u] = next[u]
      BY <2>2 DEF Rotate, FamiliesInvariant, FamiliesTypeOK
    <3>2. next[t] = NoOne /\ holder[t] # NoOne /\ holder[fresh] = NoOne
      BY <2>2 DEF Rotate
    <3>3. next[fresh] = NoOne /\ \A u \in Tokens : next[u] # fresh
      BY <3>2 DEF FamiliesInvariant, ChainsAreLinear
    <3>4. OneCurrentToken'
      BY <3>1, <3>2, <3>3 DEF FamiliesInvariant, OneCurrentToken
    <3>5. ChainsAreLinear'
      <4> SUFFICES ASSUME NEW u \in Tokens, next'[u] # NoOne
                   PROVE  /\ holder'[u] # NoOne /\ holder'[next'[u]] = holder'[u]
                          /\ \A v \in Tokens : next'[v] = next'[u] => v = u
        BY DEF ChainsAreLinear
      <4>1. CASE u = t
        BY <4>1, <3>1, <3>2, <3>3
      <4>2. CASE u # t
        BY <4>2, <3>1, <3>2, <3>3 DEF FamiliesInvariant, FamiliesTypeOK, ChainsAreLinear
      <4> QED
        BY <4>1, <4>2
    <3> QED
      BY <3>1, <3>2, <3>4, <3>5 DEF FamiliesInvariant
  <2>3. ASSUME NEW ss \in SUBSET Sessions, Revoke(ss)
        PROVE  FamiliesInvariant'
    <3>1. UNCHANGED <<holder, next>> /\ FamiliesTypeOK'
      BY <2>3 DEF Revoke, FamiliesInvariant, FamiliesTypeOK
    <3>2. \A s \in Sessions : state'[s] = "new" => state[s] = "new"
      BY <2>3 DEF Revoke
    <3>3. OneCurrentToken' /\ ChainsAreLinear'
      BY <3>1 DEF FamiliesInvariant, OneCurrentToken, ChainsAreLinear
    <3> QED
      BY <3>1, <3>2, <3>3 DEF FamiliesInvariant, FamiliesTypeOK
  <2>4. CASE UNCHANGED familyVars
    BY <2>4 DEF familyVars, FamiliesInvariant, FamiliesTypeOK, OneCurrentToken, ChainsAreLinear
  <2> QED
    BY <2>1, <2>2, <2>3, <2>4 DEF FamiliesNext
<1>3. FamiliesInvariant => OneCurrentToken /\ ChainsAreLinear
  BY DEF FamiliesInvariant
<1> QED
  BY <1>1, <1>2, <1>3, PTL DEF FamiliesSpec
=============================================================================
