---------------------------- MODULE SidecarClients ----------------------------
(***************************************************************************)
(* The operations of CallBook, of the C interface and of the command line   *)
(* that go through lazy sidecars, as the plans LazySidecar executes: which  *)
(* accessors each one calls, in which order, and which errors it passes on. *)
(***************************************************************************)
EXTENDS LazySidecar

Required(s) == [sidecar |-> s, required |-> TRUE]
Tolerated(s) == [sidecar |-> s, required |-> FALSE]

\* An operation of the library; layers are the optional layers of
\* StationMapRenderOptions and empty for every other operation.
Call(name) == [name |-> name, layers |-> {}]
Render(layers) == [name |-> "render_svg_with_options", layers |-> layers]

OptionalLayers ==
    <<"county_boundaries", "us_county_boundaries", "state_vectors">>

MapSidecars == {"world_boundaries", "county_boundaries",
                "us_county_boundaries", "state_vectors"}

\* world_boundaries()? and then each layer the options ask for, with `?`.
RenderPlan(layers) ==
    LET chosen == SelectSeq(OptionalLayers, LAMBDA s : s \in layers)
    IN  <<Required("world_boundaries")>>
            \o [i \in 1..Len(chosen) |-> Required(chosen[i])]

\* render_svg() renders with the default options: no optional layer.
RenderSvgPlan == RenderPlan({})

StatisticsPlan ==
    <<Required("world_boundaries"), Required("county_boundaries"),
      Required("us_county_boundaries"), Required("state_vectors")>>

\* lookup_count(&report.query)? and then profile_assets, which drops the error
\* of the photo manifest with ok().flatten().
ProfilePlan == <<Required("lookup_counts"), Tolerated("photo_catalog")>>

\* map_for_callsign (profile_assets only) followed by render_svg, as the C
\* interface runs them for one callsign.
MapSvgPlan == <<Tolerated("photo_catalog")>> \o RenderSvgPlan

\* The command line's sidecar statistics: the four layers, then the manifest.
SidecarStatsPlan == StatisticsPlan \o <<Required("photo_catalog")>>

PlanOf(o) ==
    CASE o.name = "lookup_count" -> <<Required("lookup_counts")>>
      [] o.name = "asset_catalog_diagnostics" -> <<Required("photo_catalog")>>
      [] o.name = "profile_from_report" -> ProfilePlan
      [] o.name = "statistics" -> StatisticsPlan
      [] o.name = "map_svg" -> MapSvgPlan
      [] o.name = "sidecar_stats" -> SidecarStatsPlan
      [] o.name = "render_svg" -> RenderSvgPlan
      [] o.name = "render_svg_with_options" -> RenderPlan(o.layers)

ClientPlan == [o \in Operations |-> PlanOf(o)]
=============================================================================
