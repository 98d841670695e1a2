------------------------------ MODULE Services ------------------------------
(***************************************************************************)
(* The parts of the API that keep their state apart from the enrichment    *)
(* jobs and from each other.  They share no variable, so one run explores  *)
(* them one at a time: component is the part that this behaviour is about, *)
(* and the others stay as they start.                                      *)
(***************************************************************************)
EXTENDS RouteBatch, Availability, BuyerProfile, RateLimit, SmartPaste,
        ModelArtifact, LeaseEstimate, FairPrice, Comparison, PublicTransport,
        Driving, MajorRoads, RouteOverlap

VARIABLE component   \* the part that is explored

Components == {"routes", "availability", "profile", "requests", "paste",
            "artifact", "lease", "price", "comparison", "buses", "rail",
            "transit", "driving", "roads", "overlap"}

vars == <<component, routeVars, availabilityVars, profileVars, rateVars,
            pasteVars, artifactVars, leaseVars, valuation, comparisonMade,
            coverage, reach, transit, drive, catalogue,
            judgement>>

Init ==
    /\ component \in Components
    /\ RoutesInit
    /\ AvailabilityInit
    /\ ProfileInit
    /\ RateInit
    /\ PasteInit
    /\ ArtifactInit
    /\ LeaseInit
    /\ FairPriceInit
    /\ ComparisonInit
    /\ CoverageInit
    /\ ReachInit
    /\ TransitInit
    /\ DriveInit
    /\ CatalogueInit
    /\ JudgeInit

\* A step of one part leaves every other part alone.
Next ==
    \/ /\ component = "routes" /\ RoutesNext
       /\ UNCHANGED <<component, availabilityVars, profileVars, rateVars,
                   pasteVars, artifactVars, leaseVars, valuation,
                   comparisonMade, coverage, reach, transit, drive, catalogue, judgement>>
    \/ /\ component = "availability" /\ AvailabilityNext
       /\ UNCHANGED <<component, routeVars, profileVars, rateVars, pasteVars,
                   artifactVars, leaseVars, valuation, comparisonMade, coverage,
                   reach, transit, drive, catalogue, judgement>>
    \/ /\ component = "profile" /\ ProfileNext
       /\ UNCHANGED <<component, routeVars, availabilityVars, rateVars,
                   pasteVars, artifactVars, leaseVars, valuation,
                   comparisonMade, coverage, reach, transit, drive, catalogue, judgement>>
    \/ /\ component = "requests" /\ RateNext
       /\ UNCHANGED <<component, routeVars, availabilityVars, profileVars,
                   pasteVars, artifactVars, leaseVars, valuation,
                   comparisonMade, coverage, reach, transit, drive, catalogue, judgement>>
    \/ /\ component = "paste" /\ PasteNext
       /\ UNCHANGED <<component, routeVars, availabilityVars, profileVars,
                   rateVars, artifactVars, leaseVars, valuation, comparisonMade,
                   coverage, reach, transit, drive, catalogue, judgement>>
    \/ /\ component = "artifact" /\ ArtifactNext
       /\ UNCHANGED <<component, routeVars, availabilityVars, profileVars,
                   rateVars, pasteVars, leaseVars, valuation, comparisonMade,
                   coverage, reach, transit, drive, catalogue, judgement>>
    \/ /\ component = "lease" /\ LeaseNext
       /\ UNCHANGED <<component, routeVars, availabilityVars, profileVars,
                   rateVars, pasteVars, artifactVars, valuation, comparisonMade,
                   coverage, reach, transit, drive, catalogue, judgement>>
    \/ /\ component = "price" /\ FairPriceNext
       /\ UNCHANGED <<component, routeVars, availabilityVars, profileVars,
                   rateVars, pasteVars, artifactVars, leaseVars, comparisonMade,
                   coverage, reach, transit, drive, catalogue, judgement>>
    \/ /\ component = "comparison" /\ ComparisonNext
       /\ UNCHANGED <<component, routeVars, availabilityVars, profileVars,
                   rateVars, pasteVars, artifactVars, leaseVars, valuation,
                   coverage, reach, transit, drive, catalogue, judgement>>
    \/ /\ component = "buses" /\ CoverageNext
       /\ UNCHANGED <<component, routeVars, availabilityVars, profileVars,
                   rateVars, pasteVars, artifactVars, leaseVars, valuation,
                   comparisonMade, reach, transit, drive, catalogue, judgement>>
    \/ /\ component = "rail" /\ ReachNext
       /\ UNCHANGED <<component, routeVars, availabilityVars, profileVars,
                   rateVars, pasteVars, artifactVars, leaseVars, valuation,
                   comparisonMade, coverage, transit, drive, catalogue, judgement>>
    \/ /\ component = "transit" /\ TransitNext
       /\ UNCHANGED <<component, routeVars, availabilityVars, profileVars,
                   rateVars, pasteVars, artifactVars, leaseVars, valuation,
                   comparisonMade, coverage, reach, drive, catalogue, judgement>>
    \/ /\ component = "driving" /\ DriveNext
       /\ UNCHANGED <<component, routeVars, availabilityVars, profileVars,
                   rateVars, pasteVars, artifactVars, leaseVars, valuation,
                   comparisonMade, coverage, reach, transit, catalogue, judgement>>
    \/ /\ component = "roads" /\ CatalogueNext
       /\ UNCHANGED <<component, routeVars, availabilityVars, profileVars,
                   rateVars, pasteVars, artifactVars, leaseVars, valuation,
                   comparisonMade, coverage, reach, transit, drive, judgement>>
    \/ /\ component = "overlap" /\ JudgeNext
       /\ UNCHANGED <<component, routeVars, availabilityVars, profileVars,
                   rateVars, pasteVars, artifactVars, leaseVars, valuation,
                   comparisonMade, coverage, reach, transit, drive, catalogue>>

Spec == Init /\ [][Next]_vars

\* Every part's variables have their types, whichever part is exploring.
ServicesTypeOK ==
    /\ component \in Components
    /\ RoutesTypeOK
    /\ AvailabilityTypeOK
    /\ ProfileTypeOK
    /\ RateTypeOK
    /\ PasteTypeOK
    /\ ArtifactTypeOK
    /\ LeaseTypeOK
    /\ FairPriceTypeOK

=============================================================================
