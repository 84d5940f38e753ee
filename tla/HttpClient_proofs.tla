--------------------------- MODULE HttpClient_proofs ---------------------------
(***************************************************************************)
(* Proofs about HttpClient, for any number of threads, URLs and renewals.  *)
(***************************************************************************)
EXTENDS HttpClient, TLAPS

\* What is remembered is a redirect of the URL it is remembered for.
MemoIsOwn == \A m \in memo : m[2][1] = m[1] /\ m[2][2] <= gen[m[1]]

\* A call that has moved on from its URL without a remembered target has asked.
MovedOnByAsking ==
    \A t \in Threads :
        at[t] \in {"url", "control"} /\ loc[t] # Itself(url[t]) => asked[t]

\* The inductive invariant.
HttpInv ==
    /\ HttpTypeOK
    /\ MemoIsOwn
    /\ MovedOnByAsking
    /\ OwnTarget /\ StatusIsOwn /\ BodyIsTheRange

\* The first state satisfies the invariant.
LEMMA InitHolds == Init => HttpInv
<1> SUFFICES ASSUME Init PROVE HttpInv
  OBVIOUS
<1>1. HttpTypeOK
  BY HttpAssumption
  DEF Init, HttpTypeOK, Locations, Itself, Requesting, Results
<1>2. MemoIsOwn /\ MovedOnByAsking /\ OwnTarget /\ StatusIsOwn /\ BodyIsTheRange
  BY <1>1 DEF Init, HttpTypeOK, MemoIsOwn, MovedOnByAsking, OwnTarget, StatusIsOwn,
              BodyIsTheRange, Itself, Locations
<1> QED  BY <1>1, <1>2 DEF HttpInv

\* A call under way: every step of a thread but the start of a call keeps the
\* invariant.
LEMMA CallStepKeeps ==
    ASSUME HttpInv, NEW t \in Threads, CallStep(t)
    PROVE  HttpInv'
<1> USE HttpAssumption DEF HttpInv, HttpTypeOK, Locations, Itself, Requesting, Results,
        server, callVars, bodyVars
<1>1. CASE Redirected(t)
  <2>1. /\ loc[t] \in Locations /\ loc[t][1] = url[t] /\ url[t] \in Urls
        /\ loc[t][2] = 0 /\ gen[url[t]] \in 0 .. MaxGen /\ gen[url[t]] > 0
    BY <1>1 DEF Redirected, Redirects, OwnTarget
  <2>2. loc[t] = Itself(url[t])
    BY <2>1
  <2>3. /\ asked' = [asked EXCEPT ![t] = TRUE]
        /\ loc' = [loc EXCEPT ![t] = <<url[t], gen[url[t]]>>]
        /\ UNCHANGED <<gen, memo, at, url, start, origin, remaining, result>>
    BY <1>1, <2>1, <2>2 DEF Redirected, Ask
  <2>4. HttpTypeOK'
    BY <2>1, <2>3
  <2>5. MemoIsOwn' /\ MovedOnByAsking' /\ StatusIsOwn' /\ BodyIsTheRange'
    BY <2>3 DEF MemoIsOwn, MovedOnByAsking, StatusIsOwn, BodyIsTheRange
  <2>6. OwnTarget'
    BY <2>1, <2>3 DEF OwnTarget
  <2> QED  BY <2>4, <2>5, <2>6
<1>2. ASSUME NEW whole \in BOOLEAN, Answered(t, whole) PROVE HttpInv'
  BY <1>2 DEF Answered, Serves, Ask, MemoIsOwn, MovedOnByAsking, OwnTarget, StatusIsOwn,
              BodyIsTheRange
<1>3. CASE RangeIgnored(t)
  BY <1>3 DEF RangeIgnored, Return, Ask, MemoIsOwn, MovedOnByAsking, OwnTarget,
              StatusIsOwn, BodyIsTheRange
<1>4. CASE ControlAnswered(t)
  BY <1>4 DEF ControlAnswered, Ask, MemoIsOwn, MovedOnByAsking, OwnTarget, StatusIsOwn,
              BodyIsTheRange
<1>5. CASE Refused(t)
  <2>0. loc[t] # Itself(url[t]) /\ at[t] # "remembered" => asked[t]
    BY <1>5 DEF Refused, MovedOnByAsking
  <2>1. CASE at[t] = "remembered"
    <3>1. /\ loc' = [loc EXCEPT ![t] = Itself(url[t])]
          /\ at' = [at EXCEPT ![t] = "url"]
          /\ asked' \in [Threads -> BOOLEAN]
          /\ \A s \in Threads : asked[s] => asked'[s]
          /\ UNCHANGED <<gen, memo, url, start, origin, remaining, result>>
      BY <1>5, <2>1 DEF Refused, Ask
    <3>2. Itself(url[t]) \in Locations /\ Itself(url[t])[1] = url[t]
          /\ Itself(url[t])[2] <= gen[url[t]]
      OBVIOUS
    <3>3. HttpTypeOK'
      BY <3>1, <3>2
    <3>4. MemoIsOwn' /\ StatusIsOwn' /\ BodyIsTheRange'
      BY <3>1 DEF MemoIsOwn, StatusIsOwn, BodyIsTheRange
    <3>5. MovedOnByAsking' /\ OwnTarget'
      BY <3>1, <3>2 DEF MovedOnByAsking, OwnTarget
    <3> QED  BY <3>3, <3>4, <3>5
  <2>2. CASE at[t] # "remembered"
    <3>1. asked' = [asked EXCEPT ![t] = TRUE]
      BY <1>5, <2>0, <2>2 DEF Refused, Ask
    <3>2. Return(t, "status") /\ UNCHANGED <<gen, memo, url>>
      BY <1>5, <2>2 DEF Refused
    <3> QED
      BY <3>1, <3>2 DEF Return, MemoIsOwn, MovedOnByAsking, OwnTarget, StatusIsOwn,
                        BodyIsTheRange
  <2> QED  BY <2>1, <2>2
<1>6. CASE TransportFails(t)
  BY <1>6 DEF TransportFails, Return, Ask, MemoIsOwn, MovedOnByAsking, OwnTarget,
              StatusIsOwn, BodyIsTheRange
<1>7. CASE Store(t)
  BY <1>7 DEF Store, MemoIsOwn, MovedOnByAsking, OwnTarget, StatusIsOwn, BodyIsTheRange
<1>8. CASE Read(t)
  BY <1>8 DEF Read, MemoIsOwn, MovedOnByAsking, OwnTarget, StatusIsOwn, BodyIsTheRange
<1>9. CASE ReadEnds(t)
  BY <1>9 DEF ReadEnds, Return, MemoIsOwn, MovedOnByAsking, OwnTarget, StatusIsOwn,
              BodyIsTheRange
<1>10. CASE Parse(t)
  BY <1>10 DEF Parse, Return, MemoIsOwn, MovedOnByAsking, OwnTarget, StatusIsOwn,
               BodyIsTheRange
<1> QED  BY <1>1, <1>2, <1>3, <1>4, <1>5, <1>6, <1>7, <1>8, <1>9, <1>10 DEF CallStep

\* So do the start of a call and the renewal of a target.
LEMMA CallBeginsKeeps ==
    ASSUME HttpInv, NEW t \in Threads, NEW u \in Urls,
           FetchRangeReader(t, u) \/ FetchControlFile(t, u)
    PROVE  HttpInv'
<1> USE HttpAssumption DEF HttpInv, HttpTypeOK, Locations, Itself, Requesting, Results,
        server, bodyVars
<1>1. CASE FetchRangeReader(t, u)
  <2>1. \A l \in Remembered(u) : l \in Locations /\ l[1] = u /\ l[2] <= gen[u]
    BY DEF Remembered, MemoIsOwn
  <2>2. CASE Remembered(u) = {}
    <3>1. /\ loc' = [loc EXCEPT ![t] = Itself(u)] /\ at' = [at EXCEPT ![t] = "url"]
          /\ url' = [url EXCEPT ![t] = u] /\ asked' = [asked EXCEPT ![t] = FALSE]
          /\ result' = [result EXCEPT ![t] = "none"]
          /\ UNCHANGED <<gen, memo, origin>>
      BY <1>1, <2>2 DEF FetchRangeReader
    <3>2. PICK s \in {0, 1}, n \in 1 .. MaxLen :
            start' = [start EXCEPT ![t] = s] /\ remaining' = [remaining EXCEPT ![t] = n]
      BY <1>1 DEF FetchRangeReader
    <3>3. HttpTypeOK'
      BY <3>1, <3>2
    <3>4. MemoIsOwn' /\ MovedOnByAsking' /\ StatusIsOwn' /\ BodyIsTheRange'
      BY <3>1, <3>2 DEF MemoIsOwn, MovedOnByAsking, StatusIsOwn, BodyIsTheRange
    <3>5. OwnTarget'
      BY <3>1 DEF OwnTarget
    <3> QED  BY <3>3, <3>4, <3>5
  <2>3. CASE Remembered(u) # {}
    <3>1. PICK l \in Remembered(u) :
            loc' = [loc EXCEPT ![t] = l] /\ at' = [at EXCEPT ![t] = "remembered"]
      BY <1>1, <2>3 DEF FetchRangeReader
    <3>2. l \in Locations /\ l[1] = u /\ l[2] <= gen[u]
      BY <2>1
    <3>3. PICK s \in {0, 1}, n \in 1 .. MaxLen :
            start' = [start EXCEPT ![t] = s] /\ remaining' = [remaining EXCEPT ![t] = n]
      BY <1>1 DEF FetchRangeReader
    <3>4. /\ url' = [url EXCEPT ![t] = u] /\ asked' = [asked EXCEPT ![t] = FALSE]
          /\ result' = [result EXCEPT ![t] = "none"]
          /\ UNCHANGED <<gen, memo, origin>>
      BY <1>1 DEF FetchRangeReader
    <3>5. HttpTypeOK'
      BY <3>1, <3>2, <3>3, <3>4
    <3>6. MemoIsOwn' /\ MovedOnByAsking' /\ StatusIsOwn' /\ BodyIsTheRange'
      BY <3>1, <3>2, <3>3, <3>4
      DEF MemoIsOwn, MovedOnByAsking, StatusIsOwn, BodyIsTheRange
    <3>7. OwnTarget'
      BY <3>1, <3>2, <3>4 DEF OwnTarget
    <3> QED  BY <3>5, <3>6, <3>7
  <2> QED  BY <2>2, <2>3
<1>2. CASE FetchControlFile(t, u)
  BY <1>2 DEF FetchControlFile, MemoIsOwn, MovedOnByAsking, OwnTarget, StatusIsOwn,
              BodyIsTheRange
<1> QED  BY <1>1, <1>2

LEMMA RenewKeeps ==
    ASSUME HttpInv, NEW u \in Urls, Renew(u)
    PROVE  HttpInv'
<1> USE HttpAssumption DEF HttpInv, HttpTypeOK, Locations, Itself, callVars, bodyVars
<1>1. HttpTypeOK' /\ MovedOnByAsking' /\ StatusIsOwn' /\ BodyIsTheRange'
  BY DEF Renew, MovedOnByAsking, StatusIsOwn, BodyIsTheRange
<1>2. \A v \in Urls : gen[v] \in Int /\ gen'[v] \in Int /\ gen[v] <= gen'[v]
  BY DEF Renew
<1>3. MemoIsOwn' /\ OwnTarget'
  BY <1>2 DEF Renew, MemoIsOwn, OwnTarget
<1> QED  BY <1>1, <1>3

\* HttpInv holds in every state: requests of a call stay with its URL and its
\* redirects, whatever threads store and servers renew in between.
THEOREM HttpInvHolds == Spec => []HttpInv
<1>1. Init => HttpInv
  BY InitHolds
<1>2. HttpInv /\ [Next]_vars => HttpInv'
  <2> SUFFICES ASSUME HttpInv, [Next]_vars PROVE HttpInv'
    OBVIOUS
  <2>1. CASE UNCHANGED vars
    BY <2>1 DEF HttpInv, vars, server, callVars, bodyVars, HttpTypeOK, MemoIsOwn,
                MovedOnByAsking, OwnTarget, StatusIsOwn, BodyIsTheRange
  <2>2. CASE Next
    BY <2>2, CallStepKeeps, CallBeginsKeeps, RenewKeeps DEF Next
  <2> QED  BY <2>1, <2>2
<1> QED  BY <1>1, <1>2, PTL DEF Spec

\* The one redirect remembered, shared by any number of threads that fetch from
\* any URLs, never sends a call to another URL's target (fetch_range_reader).
THEOREM RequestsStayOwn == Spec => []OwnTarget
<1> HttpInv => OwnTarget  BY DEF HttpInv
<1> QED  BY HttpInvHolds, PTL

\* An error status reaches the caller only after the URL itself was asked in
\* the same call: an expired target is never reported (fetch_range_reader).
THEOREM ExpiryIsHidden == Spec => []StatusIsOwn
<1> HttpInv => StatusIsOwn  BY DEF HttpInv
<1> QED  BY HttpInvHolds, PTL

\* A body handed over begins where the range does (open_range).
THEOREM BodiesAreRanges == Spec => []BodyIsTheRange
<1> HttpInv => BodyIsTheRange  BY DEF HttpInv
<1> QED  BY HttpInvHolds, PTL
==============================================================================
