------------------------------- MODULE Funnel -------------------------------
(***************************************************************************)
(* The analytics of the dashboard: consent (components/consent-banner.tsx),*)
(* the script it loads and the events it receives (lib/analytics.ts), and  *)
(* the report of a new workspace by the bootstrap of providers.tsx.        *)
(*                                                                         *)
(* The bootstrap and the consent bar are mounted together, so the answer   *)
(* of /api/me, the person's choice and the script arrive in any order.     *)
(***************************************************************************)
EXTENDS Session

VARIABLES
    fresh,      \* the workspace is younger than a minute
    announced,  \* the bootstrap has reported this load's user
    prefs,      \* the stored answer: localStorage da_consent_v2
    banner,     \* the consent bar is shown
    posthog,    \* the script of this load; "blocked": it never comes
    captured    \* what PostHog received

funnelVars == <<fresh, announced, prefs, banner, posthog, captured>>
vars == <<sessionVars, funnelVars>>

Answers == {"none", "yes", "no"}
Scripts == {"off", "loading", "ready", "blocked"}
Reports == {"identify", "signup_completed"}

---------------------------------------------------------------------------
\* The script is asked for once in a load (__daPhLoaded), never retried.
applyPrefs(answer) == IF answer = "yes" THEN "loading" ELSE "off"

\* track and identify: lost without a trace while the script is not there.
recorded(reports) == IF posthog = "ready" THEN captured \cup reports ELSE captured

choose(answer) ==
    /\ banner
    /\ prefs' = answer
    /\ posthog' = applyPrefs(answer)
    /\ banner' = FALSE
    /\ UNCHANGED <<sessionVars, fresh, announced, captured>>

scriptEnds ==
    /\ posthog = "loading"
    /\ posthog' \in {"ready", "blocked"}
    /\ UNCHANGED <<sessionVars, fresh, announced, prefs, banner, captured>>

\* The effect of Bootstrap runs once in a load, with the first data.
announce ==
    /\ announced' = (announced \/ me'.data # NoData)
    /\ captured' = IF announced' /\ ~announced
                   THEN recorded({"identify"} \cup (IF fresh THEN {"signup_completed"} ELSE {}))
                   ELSE captured
    /\ UNCHANGED <<fresh, prefs, banner, posthog>>

\* A reload starts over from the stored answer; what PostHog has, it keeps.
startOver ==
    /\ reload
    /\ announced' = FALSE
    /\ banner' = (prefs = "none")
    /\ posthog' = applyPrefs(prefs)
    /\ UNCHANGED <<fresh, prefs, captured>>

minutePasses ==
    /\ fresh
    /\ fresh' = FALSE
    /\ UNCHANGED <<sessionVars, announced, prefs, banner, posthog, captured>>

---------------------------------------------------------------------------
Init ==
    /\ SessionInit
    /\ fresh = TRUE
    /\ announced = FALSE
    /\ prefs \in Answers
    /\ banner = (prefs = "none")
    /\ posthog = applyPrefs(prefs)
    /\ captured = {}

Next ==
    \/ Background /\ UNCHANGED funnelVars
    \/ receiveMe /\ announce
    \/ startOver \/ minutePasses \/ scriptEnds
    \/ \E a \in {"yes", "no"} : choose(a)

Spec == Init /\ [][Next]_vars

---------------------------------------------------------------------------
\* "exactly these events appear: `monitor_created`, `channel_created`,
\* `channel_tested`, `status_page_enabled` (and `signup_completed` for a new
\* workspace, ...)" (MT-18, docs/MANUAL-TESTS.md:339-341): whoever allows analytics,
\* before the page is loaded or on it, and whose script arrives within the first
\* minute of the workspace, is counted.  The code does not keep this: the report is
\* made with the first answer of /api/me (providers.tsx:26-38) and is lost if the
\* script is still on its way then (analytics.ts:95-98); README, section 5.
SignupIsRecorded ==
    posthog = "ready" /\ announced /\ fresh => "signup_completed" \in captured
=============================================================================
