------------------------------ MODULE Consent ------------------------------
(***************************************************************************)
(* Consent on the marketing site (apps/web/src/components/                 *)
(* ConsentBanner.tsx): the banner, the preferences a visitor may reopen    *)
(* from the footer, and the two analytics scripts they switch.             *)
(*                                                                         *)
(* One page load of one tab, which lives through the links of the site and *)
(* ends with a reload; another tab shares the stored answer.  Which box is *)
(* ticked in the preferences is left out: each of its buttons ends in      *)
(* saving yes or no.                                                       *)
(***************************************************************************)
EXTENDS Naturals

VARIABLES
    stored,    \* localStorage da_consent_v2
    applied,   \* history: the answer this page load goes by
    bar,       \* what is shown: the banner, the preferences or neither
    posthog,   \* the PostHog script of this load; "blocked": it never comes
    optedOut,  \* PostHog was told to stop; it remembers that across loads
    ga,        \* Google Analytics: its script and its ga-disable flag
    late       \* history: the last refusal met a script still on its way

consentVars == <<stored, applied, bar, posthog, optedOut, ga, late>>

Answers == {"none", "yes", "no"}

---------------------------------------------------------------------------
\* loadPostHog, once in a load (__phLoaded): a script asked for is not retried.
posthogAfter(answer) ==
    IF answer = "yes" /\ posthog = "off" THEN "loading" ELSE posthog

\* Slip: the flag is left alone.
gaAfterYesOnly(answer) == IF answer = "yes" THEN "on" ELSE ga

gaAfter(answer) ==
    IF answer = "yes" THEN "on" ELSE IF ga = "on" THEN "disabled" ELSE ga

\* stopAnalytics: there is nothing to tell while the script is on its way, and
\* a yes never takes the word back.
optedOutAfter(answer) == optedOut \/ (answer = "no" /\ posthog = "ready")

\* The buttons of the banner and of the preferences.
save(answer) ==
    /\ bar # "none"
    /\ stored' = answer
    /\ applied' = answer
    /\ bar' = "none"
    /\ posthog' = posthogAfter(answer)
    /\ optedOut' = optedOutAfter(answer)
    /\ ga' = gaAfter(answer)
    /\ late' = (answer = "no" /\ posthog = "loading")

\* "cookie preferences" in the footer, and Manage in the banner.
openPrefs ==
    /\ bar # "prefs"
    /\ bar' = "prefs"
    /\ UNCHANGED <<stored, applied, posthog, optedOut, ga, late>>

\* A click beside the preferences; the banner does not come back.
dismiss ==
    /\ bar = "prefs"
    /\ bar' = "none"
    /\ UNCHANGED <<stored, applied, posthog, optedOut, ga, late>>

\* onload initialises PostHog whatever has been said in the meantime.
scriptEnds ==
    /\ posthog = "loading"
    /\ posthog' \in {"ready", "blocked"}
    /\ UNCHANGED <<stored, applied, bar, optedOut, ga, late>>

otherTabSaves(answer) ==
    /\ stored' = answer
    /\ UNCHANGED <<applied, bar, posthog, optedOut, ga, late>>

\* The effect on mount, after a reload.
reload ==
    /\ applied' = stored
    /\ bar' = IF stored = "none" THEN "banner" ELSE "none"
    /\ posthog' = IF stored = "yes" THEN "loading" ELSE "off"
    /\ ga' = IF stored = "yes" THEN "on" ELSE "off"
    /\ late' = FALSE
    /\ UNCHANGED <<stored, optedOut>>

---------------------------------------------------------------------------
ConsentInit ==
    /\ stored \in Answers
    /\ applied = stored
    /\ bar = IF stored = "none" THEN "banner" ELSE "none"
    /\ posthog = IF stored = "yes" THEN "loading" ELSE "off"
    /\ ga = IF stored = "yes" THEN "on" ELSE "off"
    /\ optedOut \in BOOLEAN
    /\ late = FALSE

Visitor ==
    \/ openPrefs \/ dismiss
    \/ \E a \in {"yes", "no"} : save(a) \/ otherTabSaves(a)

ConsentNext == Visitor \/ scriptEnds \/ reload

ConsentSpec == ConsentInit /\ [][ConsentNext]_consentVars

---------------------------------------------------------------------------
\* Somebody receives what the visitor does on the site.
Listening == (posthog = "ready" /\ ~optedOut) \/ ga = "on"

\* "Decline => neither loads" and "stop capturing if analytics was previously
\* on" (ConsentBanner.tsx:8, 72): nobody listens in a tab that goes by another
\* answer than yes, whatever was answered in it before, in which order the
\* preferences were reopened, and whatever an earlier load left in PostHog.  It says
\* nothing of two refusals the code does not follow (README, section 5): one given
\* while the PostHog script is on its way (late), and one given in another tab,
\* which this tab goes by only after its next reload (applied).
QuietAfterDecline == applied # "yes" /\ ~late => ~Listening
=============================================================================
