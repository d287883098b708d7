----------------------------- MODULE MCDisplay -----------------------------
(* Display, on inputs at and around the boundaries of its units. *)
EXTENDS Display

Around(values, margin) == UNION {(v - margin)..(v + margin) : v \in values}

MCSpans == {1000 * s + ms : s \in Around({0, 60, 3600, 7200, 86400}, 2), ms \in {-501, -500, 0, 499, 500}}
MCWindows == Around({60, 120, 300, 3600, 7200, 86400, 172800, 604800}, 1) \cup 0..5
MCLeads == Around({0, 24, 48, 72, 96, 336, 360}, 2)
=============================================================================
