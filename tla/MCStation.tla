------------------------------ MODULE MCStation ------------------------------
(* A small directory for Station.                                           *)
EXTENDS Station

\* The bytes of the letters and digits that the callsigns and names are made of.
A == 65  B == 66  G == 71  K == 75  N == 78  Z == 90  One == 49  Two == 50
lower(text) == [i \in DOMAIN text |-> IF text[i] \in 65..90 THEN text[i] + 32 ELSE text[i]]
K1A == <<K, One, A>>
K1AB == <<K, One, A, B>>
N1 == <<N, One>>
MCCallsigns == {K1A, K1AB, N1, <<G>>, <<A>>}

-----------------------------------------------------------------------------
\* Country tables: a prefix, a range within a letter, one over several letters and two that are
\* written backwards (the one matches A alone, the other nothing), lines that are no rules, countries with and without a code and a place.
Rest(label, code, latitude) ==
    [label |-> label, code |-> code, latitude |-> latitude, longitude |-> None]
Line(start, end, rest) == [usable |-> TRUE, start |-> start, end |-> end, rest |-> rest]
UnitedStates == <<"UNITED STATES">>
England == <<"ENGLAND", "UK">>

MCLines ==
    [countrys |->
        <<Line(<<A, A>>, <<A, Z>>, Rest(UnitedStates, Some(US), None)),
          Line(<<A, Two>>, <<A, Two>>, Rest(<<"BOTSWANA">>, Some(<<B, A>>), Some("bw"))),
          Line(lower(<<K>>), lower(<<K>>), Rest(UnitedStates, Some(US), None)),
          Line(<<K, A>>, <<N, Z>>, Rest(UnitedStates, None, None)),
          Line(<<A, One>>, <<A>>, Rest(<<"FIJI">>, Some(<<G, A>>), None)),
          Line(<<N, Z>>, <<B>>, Rest(England, None, None)),
          Line(<<>>, <<K>>, Rest(England, None, None)),
          [Line(<<K>>, <<K>>, Rest(England, None, None)) EXCEPT !.usable = FALSE]>>,
     gcmcountrys |->
        <<Line(<<K, One>>, <<K, One>>, Rest(<<"CANADA">>, None, None)),
          Line(<<N>>, <<N>>, Rest(<<>>, Some(CA), None))>>] @@
    ("COUNTRYS.PC" :>
        <<Line(<<K, One>>, <<K, One>>, Rest(<<"GUAM">>, Some(<<G>>), None)),
          Line(<<G>>, <<G>>, Rest(England, Some(<<G, B>>), None))>>)
MCCentroids == England :> [latitude |-> "53", longitude |-> "-2"]

-----------------------------------------------------------------------------
\* Files, by the walk that finds them.
N_(stem) == stem \o <<Dot, 106>>
Smith == lower(<<Z>>)
Sub == N_(<<B>>)
File_(root, path, link) == [root |-> root, path |-> path, link |-> link]
Photo(path) == File_("photos", path, "no")

Few == {File_("bios", <<N_(lower(K1A))>>, "no"), File_("flags", <<N_(US)>>, "no")}
Many == {File_("bios", <<N_(K1A)>>, "no"), File_("bios", <<Sub, N_(lower(K1A))>>, "no"),
         File_("bios", <<N_(N1)>>, "file"),
         File_("flags", <<N_(US \o <<Dash, Two>>)>>, "no"), File_("flags", <<N_(lower(US))>>, "no"),
         File_("maps", <<Sub, N_(US)>>, "no")}
PhotoSets ==
    {{}, {Photo(<<N_(K1A)>>), Photo(<<Sub, N_(Smith)>>)},
     {Photo(<<N_(K1AB)>>), Photo(<<N_(Smith)>>), Photo(<<Sub, N_(Smith)>>)},
     {Photo(<<Sub, N_(K1A)>>), Photo(<<N_(lower(K1AB))>>), Photo(<<N_(N1)>>)},
     {File_("photos", <<Sub, N_(Smith)>>, "dir"), File_("photos", <<N_(K1A)>>, "file"),
      Photo(<<Sub, Sub, N_(N1)>>)}}

Normal(name) == [is |-> "Normal", name |-> name]
Entry(call, file) == [comment |-> FALSE, callsign |-> call, file |-> file]
Step_(is) == [is |-> is, name |-> Sub]
ToSmith == Some(<<Normal(N_(Smith))>>)
ToSubSmith == Some(<<Step_("CurDir"), Normal(Sub), Normal(N_(<<Z>>))>>)
Manifests ==
    {<<>>,
     <<Entry(lower(K1A), ToSmith), Entry(K1AB, None), Entry(K1A, ToSubSmith)>>,
     <<Entry(K1A, ToSubSmith), Entry(K1A, Some(<<Normal(N_(K1AB))>>)), Entry(<<>>, ToSmith),
       [Entry(N1, ToSmith) EXCEPT !.comment = TRUE]>>,
     <<Entry(N1, Some(<<Step_("ParentDir"), Normal(N_(N1))>>)), Entry(N1, Some(<<Normal(N_(K1A))>>)),
       Entry(K1AB, ToSmith)>>}

Present(files) == [r \in Roots |-> \E f \in files : f.root = r]
Tree(files, manifest) == [files |-> files, manifest |-> manifest, dirs |-> Present(files)]
RichTrees == {Tree(photos \cup Many, lines) : photos \in PhotoSets, lines \in Manifests}

-----------------------------------------------------------------------------
MCOtherFiles == {Manifest, "wc.dat"}
Intact == [f \in File |-> "intact"]
\* One file is missing or broken, or both country tables or both lesser ones are.
MCDisks ==
    {Intact} \cup {[Intact EXCEPT ![f] = state] : f \in OpenedFiles, state \in {"absent", "broken"}}
        \cup {[Intact EXCEPT !["countrys"] = state, !["gcmcountrys"] = "absent"] :
                  state \in {"absent", "broken"}}

Path(is_dir, named, children) == [is_dir |-> is_dir, named |-> named, children |-> children]
Root == Path(TRUE, FALSE, {"ham0"})
Paths == {Root, Path(TRUE, TRUE, {}), Path(TRUE, FALSE, {"Ham0"}), Path(FALSE, FALSE, {})}

Beginning(path, d, n, t, m) ==
    [supplied |-> path, disk |-> d, changes |-> n, tree |-> t, tree_changes |-> m]
\* Either the files change while they are opened, or the directories do afterwards.
MCBeginnings ==
    {Beginning(path, d, 1, Tree(Few, <<>>), 0) : path \in Paths, d \in MCDisks}
        \cup {Beginning(Root, Intact, 0, t, 1) : t \in RichTrees}

Snapshot(vintage, location) == [vintage |-> vintage, location |-> location]
MCReports ==
    {[current |-> None, history |-> <<>>],
     [current |-> Some(Snapshot(None, None)),
      history |-> <<Snapshot(None, Some("x")), Snapshot(Some(1990), Some("y")),
                    Snapshot(Some(2000), Some("z")), Snapshot(Some(2000), None)>>]}
MCBase == <<<<104>>>>
=============================================================================
