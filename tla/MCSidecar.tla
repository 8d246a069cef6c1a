------------------------------ MODULE MCSidecar ------------------------------
(* Instances of SidecarClients for TLC.                                     *)
EXTENDS SidecarClients

CONSTANTS t1, t2

TwoThreads == {t1, t2}

\* Sidecars and operations around a station profile.
ProfileSidecars == {"lookup_counts", "photo_catalog"}
ProfileOperations == {Call("profile_from_report"),
                      Call("asset_catalog_diagnostics")}

\* One sidecar that two threads contend for.
CountSidecars == {"lookup_counts"}
CountOperations == {Call("lookup_count")}

\* The plans of the operations that walk through many sidecars.
WalkSidecars == MapSidecars \cup {"photo_catalog"}
WalkOperations == {Call("statistics"), Call("map_svg"), Call("sidecar_stats")}
OneThread == {t1}
=============================================================================
