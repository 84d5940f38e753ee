------------------------------ MODULE HttpClient ------------------------------
(***************************************************************************)
(* HttpClient (src/src/http.rs) shared by threads: range requests, the one *)
(* redirect it remembers behind a mutex, and the bodies read.  A server    *)
(* may redirect a URL to a signed one, and may renew that at any time: the *)
(* earlier target then answers every request with an error status.         *)
(*                                                                         *)
(* Left out: what a body carries other than where in the file it begins    *)
(* and how long it is, chains of redirects, and ureq's pool of connections,*)
(* for which the reader makes one more read at the end of a body.          *)
(***************************************************************************)
EXTENDS Integers

CONSTANTS
    Threads,
    Urls,
    MaxLen,     \* bound: bytes in a range asked for
    MaxGen      \* bound: times a URL's target is renewed

ASSUME HttpAssumption == MaxLen \in Nat \ {0} /\ MaxGen \in Nat

VARIABLES
    gen,        \* for each URL, the target it redirects to; 0 when to none
    memo,       \* redirect: at most one pair of a URL and where it led
    at,         \* where each thread is in its call
    url,        \* the URL of the call
    start,      \* first byte asked for: 0, or another
    loc,        \* where the next request goes, or where the body came from
    asked,      \* history: whether this call has asked its URL itself
    origin,     \* where in the file the body begins
    remaining,  \* HttpRangeReader::remaining
    result      \* what the last call returned

server   == <<gen>>
callVars == <<url, start>>
bodyVars == <<origin, remaining>>
vars == <<server, memo, at, callVars, loc, asked, bodyVars, result>>

\* <<u, 0>> is u itself, <<u, g>> the g-th target it redirected to.
Locations == Urls \X (0 .. MaxGen)
Itself(u) == <<u, 0>>

Requesting == {"remembered", "url", "control"}
Results == {"none", "ok", "short", "io", "dropped", "status", "transport", "ignored", "invalid"}

HttpTypeOK ==
    /\ gen \in [Urls -> 0 .. MaxGen]
    /\ memo \in SUBSET (Urls \X Locations)
    /\ at \in [Threads -> Requesting \cup {"idle", "store", "reading", "parsing"}]
    /\ url \in [Threads -> Urls] /\ start \in [Threads -> {0, 1}]
    /\ loc \in [Threads -> Locations]
    /\ asked \in [Threads -> BOOLEAN]
    /\ origin \in [Threads -> {0, 1}] /\ remaining \in [Threads -> 0 .. MaxLen]
    /\ result \in [Threads -> Results]

Init ==
    /\ gen \in [Urls -> 0 .. MaxGen]
    /\ memo = {}
    /\ at = [t \in Threads |-> "idle"] /\ result = [t \in Threads |-> "none"]
    /\ url \in [Threads -> Urls]
    /\ loc = [t \in Threads |-> Itself(url[t])]
    /\ asked = [t \in Threads |-> FALSE]
    /\ start = [t \in Threads |-> 0] /\ origin = start /\ remaining = start

-----------------------------------------------------------------------------
(* Calls. *)

\* The call is over and so is its reader.
Return(t, r) ==
    /\ at' = [at EXCEPT ![t] = "idle"]
    /\ result' = [result EXCEPT ![t] = r]
    /\ start' = [start EXCEPT ![t] = 0] /\ loc' = [loc EXCEPT ![t] = Itself(url[t])]
    /\ origin' = [origin EXCEPT ![t] = 0] /\ remaining' = [remaining EXCEPT ![t] = 0]

\* Mistake: whatever target is remembered is used.
RememberedForAny(u) == {m[2] : m \in memo}

\* Where the client remembers that u led.
Remembered(u) == {m[2] : m \in {n \in memo : n[1] = u}}

\* The remembered target is copied out under the lock, and used if it is u's.
FetchRangeReader(t, u) ==
    /\ at[t] = "idle"
    /\ url' = [url EXCEPT ![t] = u]
    /\ \E s \in {0, 1} : start' = [start EXCEPT ![t] = s]
    /\ \E n \in 1 .. MaxLen : remaining' = [remaining EXCEPT ![t] = n]
    /\ asked' = [asked EXCEPT ![t] = FALSE]
    /\ result' = [result EXCEPT ![t] = "none"]
    /\ \/ \E l \in Remembered(u) :
             loc' = [loc EXCEPT ![t] = l] /\ at' = [at EXCEPT ![t] = "remembered"]
       \/ /\ Remembered(u) = {}
          /\ loc' = [loc EXCEPT ![t] = Itself(u)] /\ at' = [at EXCEPT ![t] = "url"]
    /\ UNCHANGED <<server, memo, origin>>

\* The control file is asked of its URL and nothing is remembered of it.
FetchControlFile(t, u) ==
    /\ at[t] = "idle"
    /\ url' = [url EXCEPT ![t] = u]
    /\ loc' = [loc EXCEPT ![t] = Itself(u)] /\ at' = [at EXCEPT ![t] = "control"]
    /\ asked' = [asked EXCEPT ![t] = FALSE]
    /\ result' = [result EXCEPT ![t] = "none"]
    /\ UNCHANGED <<server, memo, start, bodyVars>>

-----------------------------------------------------------------------------
(* Requests, with the agent following a redirect by itself. *)

Serves(l) == l[2] = gen[l[1]]
Redirects(l) == l[2] = 0 /\ gen[l[1]] > 0

Ask(t) == asked' = [asked EXCEPT ![t] = @ \/ loc[t] = Itself(url[t])]

Redirected(t) ==
    /\ at[t] \in Requesting /\ Redirects(loc[t])
    /\ Ask(t)
    /\ loc' = [loc EXCEPT ![t] = <<@[1], gen[@[1]]>>]
    /\ UNCHANGED <<server, memo, at, callVars, bodyVars, result>>

\* Mistake: the whole file is taken for any range.
AnsweredUnchecked(t, whole) ==
    /\ at[t] \in {"remembered", "url"} /\ Serves(loc[t])
    /\ Ask(t)
    /\ origin' = [origin EXCEPT ![t] = IF whole THEN 0 ELSE start[t]]
    /\ at' = [at EXCEPT ![t] = IF @ = "remembered" THEN "reading" ELSE "store"]
    /\ UNCHANGED <<server, memo, callVars, loc, remaining, result>>

\* 206 carries the range, 200 the whole file.
Answered(t, whole) ==
    /\ at[t] \in {"remembered", "url"} /\ Serves(loc[t])
    /\ ~whole \/ start[t] = 0
    /\ Ask(t)
    /\ origin' = [origin EXCEPT ![t] = IF whole THEN 0 ELSE start[t]]
    /\ at' = [at EXCEPT ![t] = IF @ = "remembered" THEN "reading" ELSE "store"]
    /\ UNCHANGED <<server, memo, callVars, loc, remaining, result>>

\* A server that ignored Range cannot serve a range further on.
RangeIgnored(t) ==
    /\ at[t] \in {"remembered", "url"} /\ Serves(loc[t])
    /\ start[t] > 0
    /\ Ask(t)
    /\ Return(t, "ignored")
    /\ UNCHANGED <<server, memo, url>>

ControlAnswered(t) ==
    /\ at[t] = "control" /\ Serves(loc[t])
    /\ Ask(t)
    /\ at' = [at EXCEPT ![t] = "parsing"]
    /\ UNCHANGED <<server, memo, callVars, loc, bodyVars, result>>

\* Mistake: the remembered target's status is the call's.
RefusedAtOnce(t) ==
    /\ at[t] \in Requesting
    /\ Ask(t)
    /\ Return(t, "status")
    /\ UNCHANGED <<server, memo, url>>

\* Mistake: after the URL the remembered target is tried again.
RefusedInTurns(t) ==
    /\ at[t] \in Requesting
    /\ Ask(t)
    /\ \E l \in {Itself(url[t])} \cup Remembered(url[t]) :
        /\ at[t] = "remembered" <=> l = Itself(url[t])
        /\ loc' = [loc EXCEPT ![t] = l]
        /\ at' = [at EXCEPT ![t] = IF @ = "remembered" THEN "url" ELSE "remembered"]
    /\ UNCHANGED <<server, memo, callVars, bodyVars, result>>

\* An error status, from a target that has expired or from any server: after a
\* remembered target the URL itself is asked.
Refused(t) ==
    /\ at[t] \in Requesting
    /\ Ask(t)
    /\ IF at[t] = "remembered"
       THEN /\ loc' = [loc EXCEPT ![t] = Itself(url[t])]
            /\ at' = [at EXCEPT ![t] = "url"]
            /\ UNCHANGED <<start, bodyVars, result>>
       ELSE Return(t, "status")
    /\ UNCHANGED <<server, memo, url>>

\* No answer comes: returned as it is, the remembered target's too.
TransportFails(t) ==
    /\ at[t] \in Requesting
    /\ Ask(t)
    /\ Return(t, "transport")
    /\ UNCHANGED <<server, memo, url>>

\* What answered is remembered if it was not the URL itself, and otherwise
\* nothing is, whatever other threads have stored meanwhile.
Store(t) ==
    /\ at[t] = "store"
    /\ memo' = IF loc[t] # Itself(url[t]) THEN {<<url[t], loc[t]>>} ELSE {}
    /\ at' = [at EXCEPT ![t] = "reading"]
    /\ UNCHANGED <<server, callVars, loc, asked, bodyVars, result>>

-----------------------------------------------------------------------------
(* Bodies. *)

\* The reader hands over at most what remains of the range asked for.
Read(t) ==
    /\ at[t] = "reading"
    /\ \E n \in 1 .. remaining[t] : remaining' = [remaining EXCEPT ![t] = @ - n]
    /\ UNCHANGED <<server, memo, at, callVars, loc, asked, origin, result>>

\* The range has been read, or the body ends before it or drops, or the caller
\* has done with the reader.
ReadEnds(t) ==
    /\ at[t] = "reading"
    /\ \E r \in {"ok", "short", "io", "dropped"} :
        (r = "ok" <=> remaining[t] = 0) /\ Return(t, r)
    /\ UNCHANGED <<server, memo, url, asked>>

\* ControlFile.tla models the parser.
Parse(t) ==
    /\ at[t] = "parsing"
    /\ \E r \in {"ok", "invalid"} : Return(t, r)
    /\ UNCHANGED <<server, memo, url, asked>>

\* A new target: earlier ones have expired.
Renew(u) ==
    /\ gen[u] < MaxGen
    /\ gen' = [gen EXCEPT ![u] = @ + 1]
    /\ UNCHANGED <<memo, at, callVars, loc, asked, bodyVars, result>>

CallStep(t) ==
    \/ Redirected(t) \/ (\E whole \in BOOLEAN : Answered(t, whole)) \/ RangeIgnored(t)
    \/ ControlAnswered(t) \/ Refused(t) \/ TransportFails(t) \/ Store(t)
    \/ Read(t) \/ ReadEnds(t) \/ Parse(t)

Next ==
    \/ \E t \in Threads :
        CallStep(t) \/ \E u \in Urls : FetchRangeReader(t, u) \/ FetchControlFile(t, u)
    \/ \E u \in Urls : Renew(u)

Spec == Init /\ [][Next]_vars

\* Each thread runs on, and every request is answered or fails.
FairSpec == Spec /\ \A t \in Threads : WF_vars(CallStep(t))

-----------------------------------------------------------------------------
(* Properties. *)

\* Requests of a call go to its URL, or to where that URL led: the one redirect
\* remembered, shared by threads that fetch from several URLs, never sends a
\* call to another URL's target.
OwnTarget ==
    \A t \in Threads : loc[t][1] = url[t] /\ loc[t][2] <= gen[url[t]]

\* An expired target is not reported: an error status is returned only after
\* the URL itself has been asked in the same call.
StatusIsOwn ==
    \A t \in Threads : result[t] = "status" => asked[t]

\* A body read begins where the range does, from whichever location and in
\* whichever attempt it comes.
BodyIsTheRange == \A t \in Threads : at[t] \in {"store", "reading"} => origin[t] = start[t]

\* A call ends, however often its target is renewed.
CallsEnd == \A t \in Threads : at[t] # "idle" ~> at[t] = "idle"
==============================================================================
