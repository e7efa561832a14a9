------------------------------- MODULE MCScan -------------------------------
(***************************************************************************)
(* Lists of up to five hosts under three names, two records to a page, a   *)
(* ceiling of six records, three changes during the scan; a listing tool   *)
(* returns three at most, and asks the server for no more than four.       *)
(***************************************************************************)
EXTENDS Scan

CONSTANTS h1, h2, h3, h4, h5, srv, srv2, nas

MCHosts == {h1, h2, h3, h4, h5}
MCNames == {srv, srv2, nas}
MCNamesIn == [n \in MCNames |-> IF n = srv2 THEN {srv, srv2} ELSE {n}]
MCInitialName ==
    [h \in MCHosts |-> IF h = h1 THEN srv ELSE IF h = h2 THEN srv2 ELSE nas]
MCSelectors ==
    [by : {"id"}, key : {h1}] \union [by : {"name"}, key : MCNames]
MCReading ==
    MCSelectors
      \union [by : {"search"}, key : {srv}, limit : {0, 2, 9}, start : {-2, 0, 1}]
      \union [by : {"page"}, limit : {-1, 0, 2, 9}, start : {-2, 0, 1}]
MCListings == {<<h1, h2>>, <<h3, h1, h2>>, <<h3, h4, h2, h1>>, <<h2, h3, h4, h5, h1>>}
MCRetired == {<<h2, h3>>}
=============================================================================
