----------------------------- MODULE MCVersions -----------------------------
(* A small instance of Versions: three counted versions, one of them with   *)
(* two spellings, two dates, two literals, a padded, a signed and a garbled *)
(* value, two sources.  Counted versions are wired deepest.                 *)
EXTENDS Versions

MCRaws == {"", "  ", "1", "2", "V2", "3", "+1", "v1", "v2", "v3", " 2 ", "2024-06-01", "2025-01-15",
           "latest", "preview", "garbled"}

MCTrim == [raw \in MCRaws |-> CASE raw = "  " -> "" [] raw = " 2 " -> "2" [] OTHER -> raw]

Nothing == [v |-> FALSE, sign |-> FALSE, digits |-> 0, date |-> 0]

MCSpells ==
    [raw \in MCRaws |->
        CASE raw = "1" -> [Nothing EXCEPT !.digits = 1]
          [] raw = "2" -> [Nothing EXCEPT !.digits = 2]
          [] raw = "3" -> [Nothing EXCEPT !.digits = 3]
          [] raw = "+1" -> [Nothing EXCEPT !.digits = 1, !.sign = TRUE]
          [] raw = "v1" -> [Nothing EXCEPT !.digits = 1, !.v = TRUE]
          [] raw \in {"v2", "V2"} -> [Nothing EXCEPT !.digits = 2, !.v = TRUE]
          [] raw = "v3" -> [Nothing EXCEPT !.digits = 3, !.v = TRUE]
          [] raw = "2024-06-01" -> [Nothing EXCEPT !.date = 1]
          [] raw = "2025-01-15" -> [Nothing EXCEPT !.date = 2]
          [] OTHER -> Nothing]

MCFormats ==
    [sequential |-> <<"v1", "v2", "v3">>, dates |-> <<"2024-06-01", "2025-01-15">>,
     ordered |-> <<"1", "2", "3">>]

MCDeclarable ==
    [a |-> {"1", "2", "V2", "3", "+1", "2024-06-01", "2025-01-15", "preview"}, b |-> {"2", "2025-01-15", "preview"}]

\* A blank, a padded, a garbled one, one that a scheme parses.
MCOptions == {"", " 2 ", "1", "2024-06-01", "latest", "preview", "garbled"}

MCMaxCalls == [sequential |-> 5, dates |-> 4, ordered |-> 3]

\* The header decides before the query; a blank header is a miss.
MCRequests ==
    {<<h, "">> : h \in MCRaws} \cup {<<"  ", q>> : q \in {"1", "2", "2024-06-01", "latest"}}
        \cup {<<"garbled", "1">>, <<"3", "1">>}
=============================================================================
