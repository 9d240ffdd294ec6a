------------------------------ MODULE Audience ------------------------------
(* The stations, and the browsers that show one of them each.                *)

CONSTANTS
    Stations,       \* ids of radio_stations
    Viewers,
    Watches         \* the station of each viewer's page

ASSUME WatchesAssumption == Watches \in [Viewers -> Stations]

=============================================================================
