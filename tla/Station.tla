-------------------------------- MODULE Station --------------------------------
(***************************************************************************)
(* A database is opened (OpenDb) and asked about stations: their country,  *)
(* their assets, profiles and maps, and the coverage of the photo manifest *)
(* (db.rs).  The manifest is read once and kept; the directories are read  *)
(* for every question, in any order, and may change in between.            *)
(*                                                                          *)
(* The lookup of the callsign's records is the module Lookup's: a report   *)
(* is one of Reports here.  So are the lookup counts, which fail a profile *)
(* or do not.                                                               *)
(***************************************************************************)
EXTENDS OpenDb, Assets

CONSTANTS
    Callsigns,      \* callsigns that are asked for
    Lines,          \* the lines of each country table's file
    Centroids,      \* the places of countries by name (countrys.nam)
    Trees,          \* what the asset directories may become
    Reports         \* answers of lookup_report

ASSUME CallsignsAssumption == Callsigns \subseteq AsciiText
ASSUME LinesAssumption ==
    /\ DOMAIN Lines = {"countrys", "gcmcountrys", "COUNTRYS.PC"}
    /\ \A f \in DOMAIN Lines :
          /\ Len(Lines[f]) \in Nat
          /\ \A i \in 1..Len(Lines[f]) :
                Lines[f][i].start \in AsciiText /\ Lines[f][i].end \in AsciiText

\* Directories hold files under names, and the manifest lines of the forms that it may have.
Part == [is : {"Normal", "CurDir", "ParentDir", "RootDir"}, name : Text]
ManifestLine == [comment : BOOLEAN, callsign : Text, file : Seq(Seq(Part))]
ASSUME TreesAssumption ==
    \A t \in Trees \cup {b.tree : b \in Beginnings} :
        /\ IsFiniteSet(t.files)
        /\ \A f \in t.files : f.path \in Seq(Text) /\ f.path # <<>>
        /\ t.manifest \in Seq(ManifestLine)
        /\ \A i \in DOMAIN t.manifest : Len(t.manifest[i].file) <= 1

Manifest == "photos/PHOTOS.TXT"

VARIABLES
    tree,       \* the files of the asset directories, and the lines of the manifest
    catalog,    \* the manifest, once it is read
    answer,     \* what was asked last and the answer
    changes     \* number of changes of the directories that are still to come

stationVars == <<supplied, disk, opening, opened, left, disks, tree, catalog, answer, changes>>

Nothing == [asked |-> "nothing", call |-> <<>>, value |-> None]

-----------------------------------------------------------------------------
(* Countries *)

\* The tables that the files hold, which are labelled as what they are.
CountryTables == [name \in DOMAIN Lines |-> parse_with_source(Lines[name], name)]
Table(t) ==
    IF opened[t] = NoTable THEN None ELSE Some(CountryTables[Alternatives[t][opened[t]][1]])

InTable(t, call) == IF Table(t) = None THEN None ELSE lookup_info(Table(t)[1], call)

\* A place from countrys.nam, by the country's name in capital letters, when a part of the
\* country's own is missing.
enrich_country_info(info) ==
    IF /\ info.latitude = None \/ info.longitude = None
       /\ opened["country_names"] # NoTable
       /\ info.name \in DOMAIN Centroids
    THEN LET place == Centroids[info.name] IN
         [info EXCEPT !.latitude = IF @ = None THEN Some(place.latitude) ELSE @,
                      !.longitude = IF @ = None THEN Some(place.longitude) ELSE @]
    ELSE info

\* CountryCatalog::lookup_info: the primary table and then COUNTRYS.PC.
country_info(call) ==
    LET primary == InTable("countries", call)
        found == IF primary # None THEN primary ELSE InTable("pc_countries", call)
    IN IF found = None THEN None ELSE Some(enrich_country_info(found[1]))

\* V2Shard::classify_callsign, for the records of the callsign.
classify_callsign(call) ==
    LET primary == InTable("countries", call)
        found == IF primary # None THEN primary ELSE InTable("pc_countries", call)
    IN IF found = None THEN "Unknown" ELSE found[1].jurisdiction

CatalogRecords ==
    LET all(t) == IF Table(t) = None THEN <<>> ELSE records(Table(t)[1])
        listed == all("countries") \o all("pc_countries")
    IN [i \in DOMAIN listed |-> enrich_country_info(listed[i])]

CountryStatistics ==
    [primary_rules |-> IF Table("countries") = None THEN 0 ELSE Len(Table("countries")[1]),
     fallback_rules |-> IF Table("pc_countries") = None THEN 0 ELSE Len(Table("pc_countries")[1]),
     name_centroids |-> IF opened["country_names"] = NoTable THEN 0
                        ELSE Cardinality(DOMAIN Centroids),
     raw_labels |-> Cardinality({r.name : r \in ToSet(CatalogRecords)}),
     cleaned_labels |-> Cardinality({r.cleaned_name : r \in ToSet(CatalogRecords)})]

-----------------------------------------------------------------------------
(* Questions *)

\* read_dir answers in any order.
Orders(root) == SetToSeqs({f \in tree.files : f.root = root})
Listings ==
    {[bios |-> bios, photos |-> photos, flags |-> flags, maps |-> maps] :
        bios \in Orders("bios"), photos \in Orders("photos"),
        flags \in Orders("flags"), maps \in Orders("maps")}

\* photo_catalog(): the file must be there, also when it has been read.
PhotoCatalog ==
    IF disk[Manifest] = "absent" THEN [ok |-> TRUE, value |-> None]
    ELSE IF catalog # None THEN [ok |-> TRUE, value |-> catalog]
    ELSE IF disk[Manifest] = "broken" THEN [ok |-> FALSE, value |-> None]
    ELSE [ok |-> TRUE, value |-> Some(parse_photo_manifest(tree.manifest))]
Remembered == IF PhotoCatalog.value # None THEN PhotoCatalog.value ELSE catalog

Answered(asked, call, value) == answer' = [asked |-> asked, call |-> call, value |-> value]
Asking ==
    /\ IsOpen /\ answer = Nothing
    /\ UNCHANGED <<openVars, tree, changes>>

\* CallBook::assets, for any text.
AskAssets ==
    /\ Asking
    /\ \E call \in Callsigns \cup {<<>>}, listing \in Listings :
          Answered("assets", call,
                   Some(callsign_assets(listing, call) \o country_assets(listing, country_info(call))))
    /\ UNCHANGED catalog

Vintages(report) ==
    LET known == {report.history[i].vintage : i \in DOMAIN report.history} \ {None}
    IN SetToSortSeq({v[1] : v \in known}, <)

\* profile_from_report: an error of the counts fails it, one of the manifest does not.
AskProfile ==
    /\ Asking
    /\ \E call \in Callsigns, report \in Reports, listing \in Listings, counts_fail \in BOOLEAN :
          IF counts_fail THEN Answered("profile", call, None) /\ UNCHANGED catalog
          ELSE /\ Answered("profile", call, Some(
                     [country |-> country_info(call), snapshot_count |-> Len(report.history),
                      vintages |-> Vintages(report),
                      assets |-> profile_assets(listing, call, country_info(call),
                                                PhotoCatalog.value)]))
               /\ catalog' = Remembered

\* The current snapshot if it has a place, else the last one of the history that has.
best_mappable_snapshot(report) ==
    LET current == SelectSeq(report.current, LAMBDA s : s.location # None)
        located == SelectSeq(report.history, LAMBDA s : s.location # None)
    IN IF current # <<>> THEN current
       ELSE IF located = <<>> THEN None ELSE Some(located[Len(located)])

\* map_for_callsign: no map of what is not found.
AskMap ==
    /\ Asking
    /\ \E call \in Callsigns, report \in Reports, listing \in Listings :
          IF report.current = None /\ report.history = <<>>
          THEN Answered("map", call, None) /\ UNCHANGED catalog
          ELSE /\ Answered("map", call, Some(
                     [report |-> report, mappable |-> best_mappable_snapshot(report),
                      country |-> country_info(call),
                      assets |-> profile_assets(listing, call, country_info(call),
                                                PhotoCatalog.value)]))
               /\ catalog' = Remembered

\* asset_catalog_diagnostics; here the manifest must be readable.
AskDiagnostics ==
    /\ Asking
    /\ \E listing \in Listings :
          IF ~PhotoCatalog.ok THEN Answered("diagnostics", <<>>, None)
          ELSE LET entries == IF PhotoCatalog.value = None THEN <<>> ELSE PhotoCatalog.value[1]
                   files == SelectSeq(entries, LAMBDA e : e.file # None)
                   found == SelectSeq(files, LAMBDA e :
                                manifest_photo_exists(listing, e.callsign, e.file[1]))
               IN Answered("diagnostics", <<>>, Some(
                     [sidecar_files |-> {f \in File : disk[f] # "absent"} \ {"hamcall.idx",
                                            "hamcall.dat", "hci.idx", "hci.dat"},
                      roots |-> {r \in Roots : tree.dirs[r]},
                      entries |-> Len(entries), found |-> found,
                      missing |-> Len(files) - Len(found)]))
    /\ catalog' = Remembered

\* CountryCatalog::records and statistics.
AskCountries ==
    /\ Asking
    /\ Answered("countries", <<>>, Some([records |-> CatalogRecords,
                                         statistics |-> CountryStatistics]))
    /\ UNCHANGED catalog

\* The client has seen the answer.
Seen ==
    /\ answer # Nothing /\ answer' = Nothing
    /\ UNCHANGED <<openVars, tree, catalog, changes>>

\* Photos come and go, the manifest is edited.
ChangeTree ==
    /\ IsOpen /\ answer = Nothing
    /\ changes > 0 /\ changes' = changes - 1
    /\ tree' \in Trees \ {tree}
    /\ UNCHANGED <<openVars, catalog, answer>>

\* The manifest is removed, broken or written.
ChangeManifest ==
    /\ IsOpen /\ answer = Nothing
    /\ changes > 0 /\ changes' = changes - 1
    /\ \E now \in FileState \ {disk[Manifest]} : disk' = [disk EXCEPT ![Manifest] = now]
    /\ UNCHANGED <<supplied, opening, opened, left, disks, tree, catalog, answer>>

StationInit ==
    /\ \E b \in Beginnings : OpenInit(b) /\ tree = b.tree /\ changes = b.tree_changes
    /\ catalog = None /\ answer = Nothing

StationNext ==
    \/ OpenNext /\ UNCHANGED <<tree, catalog, answer, changes>>
    \/ AskAssets \/ AskProfile \/ AskMap \/ AskDiagnostics \/ AskCountries \/ Seen
    \/ ChangeTree \/ ChangeManifest

StationSpec == StationInit /\ [][StationNext]_stationVars

-----------------------------------------------------------------------------
(* Properties *)

\* The country of a callsign is one of the catalog's records; the jurisdiction that its
\* records are given is that of the same country, and the index of first bytes leads to
\* the rule that a walk through the whole table finds.
OneCountry ==
    IsOpen /\ answer = Nothing =>
        \A call \in Callsigns \cup {<<>>} :
            LET info == country_info(call) IN
            /\ \A t \in {"countries", "pc_countries"} :
                  Table(t) # None => InTable(t, call) = lookup_linear(Table(t)[1], call)
            /\ IF info = None THEN classify_callsign(call) = "Unknown"
               ELSE /\ info[1] \in ToSet(CatalogRecords)
                    /\ classify_callsign(call) = info[1].jurisdiction

Pictured == answer.asked \in {"profile", "map"} /\ answer.value # None
Shown == answer.value[1].assets
Named == IF PhotoCatalog.value = None THEN <<>> ELSE PhotoLookup(PhotoCatalog.value[1], answer.call)

\* In whatever order the directories are read, a profile shows the same assets: each photo
\* once, although the walk and several lines of the manifest may find it, and those that the
\* manifest names first.
AssetsInOneOrder ==
    Pictured =>
        /\ \A listing \in Listings :
              Shown = profile_assets(listing, answer.call, answer.value[1].country,
                                     PhotoCatalog.value)
        /\ \A i, j \in DOMAIN Shown.photos :
              i < j => /\ Shown.photos[i].path # Shown.photos[j].path
                       /\ photo_manifest_rank(Shown.photos[i], Named)
                             <= photo_manifest_rank(Shown.photos[j], Named)

\* What the diagnostics count as found, the profile of its callsign shows, although one looks
\* the manifest's files up and the other collects them; and the manifest that is kept is the
\* same for both when the file has changed.
FoundPhotosAreShown ==
    Pictured =>
        \A i \in DOMAIN Named : \A listing \in Listings :
            /\ Named[i].file # None
            /\ manifest_photo_exists(listing, Named[i].callsign, Named[i].file[1])
            => \E k \in DOMAIN Shown.photos :
                  photo_manifest_rank(Shown.photos[k], <<Named[i]>>) = 1
=============================================================================
