------------------------------ MODULE RateLimit ------------------------------
(***************************************************************************)
(* The API's rate limiter: one list of admission times per client address  *)
(* and process, read and written without an await in between.  A refused   *)
(* request is not counted.                                                 *)
(***************************************************************************)
EXTENDS Naturals, FiniteSets

CONSTANTS
    Addresses,
    MaxRequests,    \* rate_limit_per_minute
    Window,         \* window_seconds
    LastSecond      \* bound: the clock stops here

ASSUME RateAssumption ==
    MaxRequests \in Nat /\ Window \in Nat \ {0} /\ LastSecond \in Nat

\* An admission [nth, at]: its number tells two of one second apart.
VARIABLES
    now,
    hits,       \* address -> the admissions in its bucket
    admitted    \* history: address -> all its admissions

rateVars == <<now, hits, admitted>>

RateInit ==
    /\ now = Window
    /\ hits = [a \in Addresses |-> {}]
    /\ admitted = [a \in Addresses |-> {}]

Second == now < LastSecond /\ now' = now + 1 /\ UNCHANGED <<hits, admitted>>

InWindowEarly(a) == {h \in hits[a] : h.at > now - Window + 1}

InWindow(a) == {h \in hits[a] : h.at >= now - Window}

Admit(a) ==
    LET new == [nth |-> Cardinality(admitted[a]), at |-> now] IN
    /\ Cardinality(InWindow(a)) < MaxRequests
    /\ hits' = [hits EXCEPT ![a] = InWindow(a) \cup {new}]
    /\ admitted' = [admitted EXCEPT ![a] = @ \cup {new}]
    /\ UNCHANGED now

\* 429; the bucket is left alone, expired entries included.
Refuse(a) ==
    /\ Cardinality(InWindow(a)) >= MaxRequests
    /\ UNCHANGED rateVars

RateNext == Second \/ \E a \in Addresses : Admit(a) \/ Refuse(a)

RateSpec == RateInit /\ [][RateNext]_rateVars

-----------------------------------------------------------------------------
RateTypeOK ==
    /\ now \in Nat
    /\ \A a \in Addresses : hits[a] \subseteq admitted[a]
    /\ \A a \in Addresses : \A h \in admitted[a] : h.at <= now

(***************************************************************************)
(* However admissions and refusals fall, no window of Window seconds that  *)
(* begins or ends anywhere admits more than MaxRequests requests of one    *)
(* address (dispatch prunes the bucket only when it admits).               *)
(***************************************************************************)
WindowsAreBounded ==
    \A a \in Addresses : \A h \in admitted[a] :
        Cardinality({g \in admitted[a] : g.at \in h.at..(h.at + Window)}) <= MaxRequests

=============================================================================
