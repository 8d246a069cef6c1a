-------------------------------- MODULE Assets --------------------------------
(***************************************************************************)
(* The files about a station and its country: biographies, photos, flags   *)
(* and maps in directories of the database, and the photo manifest         *)
(* photos/PHOTOS.TXT (db.rs, PhotoCatalog of sidecar.rs).                  *)
(*                                                                         *)
(* A name is its bytes, which are a text (the walks pass over names that   *)
(* are not); a file is the path under one of the roots, a sequence of      *)
(* names, and `link' tells whether it is a symbolic link, or lies in a     *)
(* directory that is one.  A listing gives the files of each root in the   *)
(* order in which read_dir happens to answer.                              *)
(***************************************************************************)
EXTENDS CountryTable

CONSTANT Base   \* the names on the way to the directory of the database

ASSUME BaseAssumption == Base \in Seq(Text)

Roots == {"bios", "photos", "flags", "maps"}
Dot == 46
Dash == 45

SameName(left, right) == to_ascii_uppercase(left) = to_ascii_uppercase(right)
FileName(path) == path[Len(path)]

\* The name up to its last dot, unless it begins with it.
file_stem(name) ==
    LET dots == {i \in DOMAIN name : i > 1 /\ name[i] = Dot}
    IN IF dots = {} THEN name ELSE Take(name, Max(dots) - 1)

Below(left, right) == left # right /\ AtMost(left, right)
\* The order of paths goes component by component.
PathBelow(left, right) ==
    \/ \E i \in DOMAIN left \cap DOMAIN right :
          /\ \A j \in 1..(i - 1) : left[j] = right[j]
          /\ Below(left[i], right[i])
    \/ Len(left) < Len(right) /\ Take(right, Len(left)) = left

cmp_rank == [Biography |-> 0, Photo |-> 1, Flag |-> 2, Map |-> 3, SidecarData |-> 4]
RootOf == [Biography |-> "bios", Photo |-> "photos", Flag |-> "flags", Map |-> "maps"]
asset_metadata(kind, key, path) == [kind |-> kind, key |-> key, path |-> path]

\* Deviation: assets of a kind stay in the order in which they were found.
ByRank(left, right) == cmp_rank[left.kind] < cmp_rank[right.kind]

ByRankAndPath(left, right) ==
    \/ cmp_rank[left.kind] < cmp_rank[right.kind]
    \/ cmp_rank[left.kind] = cmp_rank[right.kind] /\ PathBelow(left.path, right.path)

\* What s has at the chosen places, each behind what is at the places ahead of its own.
Arranged(s, chosen, ahead) ==
    LET place == [i \in chosen |-> Cardinality({j \in chosen : <<j, i>> \in ahead})]
    IN [n \in 1..Cardinality(chosen) |-> s[CHOOSE i \in chosen : place[i] = n - 1]]

Kept(s, chosen) == Arranged(s, chosen, {p \in chosen \X chosen : p[1] < p[2]})

\* A stable sort, where `less' has the pairs of places of which the first has the lesser.
Sorted(s, less) ==
    Arranged(s, DOMAIN s,
             {p \in (DOMAIN s) \X (DOMAIN s) :
                 p \in less \/ (<<p[2], p[1]>> \notin less /\ p[1] < p[2])})
SortedByRankAndPath(assets) ==
    Sorted(assets, {p \in (DOMAIN assets) \X (DOMAIN assets) :
                       ByRankAndPath(assets[p[1]], assets[p[2]])})

Flattened(lists) ==
    LET places == UNION {{i} \X (DOMAIN lists[i]) : i \in DOMAIN lists}
    IN Arranged([p \in places |-> lists[p[1]][p[2]]], places,
                {q \in places \X places :
                    \/ q[1][1] < q[2][1]
                    \/ q[1][1] = q[2][1] /\ q[1][2] < q[2][2]})

\* The chosen files as assets.
Collect(files, chosen, kind, key) ==
    LET found == Kept(files, chosen)
    IN [i \in DOMAIN found |-> asset_metadata(kind, key, found[i].path)]

\* The walks through the directories leave links alone, of files and of directories.
Walked(file) == file.link = "no"
StemOf(file) == to_ascii_uppercase(file_stem(FileName(file.path)))

OfCallsign(file, kind, callsign) ==
    /\ Walked(file)
    /\ StemOf(file) = callsign \/ (kind = "Photo" /\ StartsWith(StemOf(file), callsign))
collect_callsign_assets(listing, kind, callsign) ==
    LET files == listing[RootOf[kind]]
    IN Collect(files, {i \in DOMAIN files : OfCallsign(files[i], kind, callsign)}, kind, callsign)

\* Flags and maps are not looked for in directories; a dash ends the code.
OfCountry(file, code) ==
    LET stem == StemOf(file)
        dashes == {i \in DOMAIN stem : stem[i] = Dash}
    IN /\ Walked(file) /\ Len(file.path) = 1
       /\ to_ascii_uppercase(code) =
             IF dashes = {} THEN stem ELSE Take(stem, Min(dashes) - 1)
collect_country_assets(listing, kind, code) ==
    LET files == listing[RootOf[kind]]
    IN Collect(files, {i \in DOMAIN files : OfCountry(files[i], code)}, kind, code)

callsign_assets(listing, callsign) ==
    IF callsign = <<>> THEN <<>>    \* Callsign::parse refuses it
    ELSE SortedByRankAndPath(collect_callsign_assets(listing, "Biography", callsign)
                                 \o collect_callsign_assets(listing, "Photo", callsign))

CountryFiles(listing, country) ==
    IF country = None \/ country[1].code = None THEN <<>>
    ELSE collect_country_assets(listing, "Flag", country[1].code[1])
             \o collect_country_assets(listing, "Map", country[1].code[1])
country_assets(listing, country) == SortedByRankAndPath(CountryFiles(listing, country))

-----------------------------------------------------------------------------
(* The photo manifest *)

\* A line is blank, a comment, or a callsign with the parts of a path or none.
parse_photo_manifest(lines) ==
    LET kept == Kept(lines, {i \in DOMAIN lines : ~lines[i].comment /\ lines[i].callsign # <<>>})
    IN [i \in DOMAIN kept |-> [callsign |-> to_ascii_uppercase(kept[i].callsign),
                               file |-> kept[i].file]]

PhotoLookup(entries, callsign) ==
    Kept(entries, {i \in DOMAIN entries : entries[i].callsign = to_ascii_uppercase(callsign)})

\* A part of a path: a name, or a step to the root, up or nowhere.
Parts(file) == Kept(file, {i \in DOMAIN file : file[i].is # "CurDir"})

\* None unless the path leads downwards to a file.
safe_manifest_photo_path(file) ==
    LET parts == Parts(file)
    IN IF parts = <<>> \/ \E i \in DOMAIN parts : parts[i].is # "Normal"
       THEN None ELSE Some([i \in DOMAIN parts |-> parts[i].name])

\* A link is no photo, but a photo may be in a directory that is one.
IsPhoto(listing, path) ==
    \E i \in DOMAIN listing["photos"] :
        listing["photos"][i].path = path /\ listing["photos"][i].link # "file"

path_ends_with_components_ignore_ascii_case(path, suffix) ==
    /\ Len(suffix) <= Len(path)
    /\ \A i \in DOMAIN suffix : SameName(path[Len(path) - Len(suffix) + i], suffix[i])

PhotosDirectory == Base \o <<<<112, 104, 111, 116, 111, 115>>>>

\* A mere name is looked for in all directories, a longer path as the end of one.
Meant(file, relative) ==
    /\ Walked(file)
    /\ IF Len(relative) = 1 THEN SameName(FileName(file.path), relative[1])
       ELSE path_ends_with_components_ignore_ascii_case(PhotosDirectory \o file.path, relative)
collect_manifest_photo_fallback(listing, callsign, relative) ==
    LET files == listing["photos"]
    IN Collect(files, {i \in DOMAIN files : Meant(files[i], relative)}, "Photo", callsign)

\* Deviation: only the place that the manifest gives is looked at.
DirectOnly(listing, callsign, file) ==
    LET relative == safe_manifest_photo_path(file)
    IN IF relative # None /\ IsPhoto(listing, relative[1])
       THEN <<asset_metadata("Photo", callsign, relative[1])>> ELSE <<>>

\* The photos of one entry.
EntryPhotos(listing, callsign, file) ==
    LET relative == safe_manifest_photo_path(file)
    IN IF relative = None THEN <<>>
       ELSE IF IsPhoto(listing, relative[1])
       THEN <<asset_metadata("Photo", callsign, relative[1])>>
       ELSE collect_manifest_photo_fallback(listing, callsign, relative[1])

collect_manifest_photos(listing, callsign, entries) ==
    LET mine == PhotoLookup(entries, callsign)
        named == Kept(mine, {i \in DOMAIN mine : mine[i].file # None})
    IN Flattened([i \in DOMAIN named |-> EntryPhotos(listing, callsign, named[i].file[1])])

manifest_photo_exists(listing, callsign, file) ==
    LET relative == safe_manifest_photo_path(file)
    IN /\ relative # None
       /\ \/ IsPhoto(listing, relative[1])
          \/ collect_manifest_photo_fallback(listing, callsign, relative[1]) # <<>>

-----------------------------------------------------------------------------
(* The assets of a profile *)

dedup_assets_by_path(assets) ==
    Kept(assets, {i \in DOMAIN assets : \A j \in 1..(i - 1) : assets[j].path # assets[i].path})

\* The first entry of the manifest with the file's name; whoever it does not name comes last.
photo_manifest_rank(asset, manifest) ==
    LET naming == {i \in DOMAIN manifest :
                      /\ manifest[i].file # None
                      /\ LET parts == Parts(manifest[i].file[1])
                         IN /\ parts # <<>> /\ FileName(parts).is = "Normal"
                            /\ SameName(FileName(parts).name, FileName(asset.path))}
    IN Min(naming \cup {Len(manifest) + 1})

OfKind(assets, kind) == Kept(assets, {i \in DOMAIN assets : assets[i].kind = kind})
FirstOf(assets, kind) ==
    LET places == {i \in DOMAIN assets : assets[i].kind = kind}
    IN IF places = {} THEN None ELSE Some(assets[Min(places)])

\* In the order of the manifest.
ByManifest(photos, manifest) ==
    LET rank == [i \in DOMAIN photos |-> photo_manifest_rank(photos[i], manifest)]
    IN Sorted(photos, {p \in (DOMAIN photos) \X (DOMAIN photos) :
                          \/ rank[p[1]] < rank[p[2]]
                          \/ /\ rank[p[1]] = rank[p[2]]
                             /\ PathBelow(photos[p[1]].path, photos[p[2]].path)})

\* `catalog' is None without a manifest, or when it cannot be read.
Collected(listing, callsign, country, catalog) ==
    callsign_assets(listing, callsign)
        \o (IF catalog = None THEN <<>>
            ELSE collect_manifest_photos(listing, callsign, catalog[1]))
        \o CountryFiles(listing, country)

profile_assets(listing, callsign, country, catalog) ==
    LET collected == Collected(listing, callsign, country, catalog)
        assets == SortedByRankAndPath(collected)
        photos == dedup_assets_by_path(OfKind(assets, "Photo"))
        manifest == IF catalog = None THEN <<>> ELSE PhotoLookup(catalog[1], callsign)
    IN [photos |-> ByManifest(photos, manifest),
        bio |-> FirstOf(assets, "Biography"),
        country_flag |-> FirstOf(assets, "Flag"),
        country_map |-> FirstOf(assets, "Map")]
=============================================================================
