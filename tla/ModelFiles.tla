----------------------------- MODULE ModelFiles -----------------------------
(***************************************************************************)
(* From the command line to the data models a run of the tool works with:  *)
(* suns_app_getopt(), which loads the files of -m, -X and -M as it meets   *)
(* them, the model search path, and main() up to the check (-c), the       *)
(* export (-x) or the point where the tool turns to its devices.           *)
(*                                                                         *)
(* The bison parser is not reentrant and the scanner keeps its buffer from *)
(* one call to the next: after an error the rest of the file waits in it   *)
(* and is parsed before anything of the file opened next.  A file is taken *)
(* to fit in that buffer.                                                  *)
(***************************************************************************)
EXTENDS ModelText

CONSTANTS
    Runs,           \* the runs of the tool looked at: see given
    Files           \* model files: names to suffix and contents

ASSUME FilesAssumption == \A f \in DOMAIN Files : IsFile(Files[f])

\* The options there are, the formats of -x; a directory has each file once.
IsRun(r) ==
    /\ IsSequence(r.args) /\ IsSequence(r.path)
    /\ \A k \in DOMAIN r.args :
          /\ r.args[k].opt \in {"m", "X", "M", "c", "x", "bad", "h"}
          /\ r.args[k].opt = "x" => r.args[k].value \in {"slang", "xml", "other"}
    /\ \A dir \in DOMAIN r.dirs :
          /\ IsSequence(r.dirs[dir])
          /\ \A n \in DOMAIN r.dirs[dir] : r.dirs[dir][n] \in DOMAIN Files
          /\ \A n, k \in DOMAIN r.dirs[dir] : r.dirs[dir][n] = r.dirs[dir][k] => n = k

ASSUME RunsAssumption == \A r \in Runs : IsRun(r)

VARIABLES
    given,          \* what a run finds, a record of
                    \*   args: the options on its command line,
                    \*   path: the directories of the model search path,
                    \*   dirs: readable directories, each the sequence of its
                    \*         file names in the order of alphasort
    args,           \* options still to parse
    app,            \* the options parsed so far
    path,           \* directories of the search path still to search
    todo,           \* files of the current directory still to load
    sps,            \* the global parser state
    leftover,       \* items left in the scanner's buffer
    phase,          \* where main() is
    output          \* what was exported

vars == <<given, args, app, path, todo, sps, leftover, phase, output>>

Final == {"success", "failure", "crashed"}

-----------------------------------------------------------------------------
(* Files and directories *)

\* suns_app_model_search_dir_filter() and its twin for XML.  The test for
\* .mdl looks at other letters for its upper case.
SlangSuffixes == {".model", ".MODEL", ".mdl"}
XmlSuffixes   == {".smdx", ".SMDX", ".xml", ".XML"}

Filtered(list, name, suffixes) ==
    IF Files[name].suffix \in suffixes
    THEN Append(list, [name |-> name, xml |-> suffixes = XmlSuffixes]) ELSE list

\* scandir(): the files the filter takes, in their order.
FilesOf(names, suffixes) ==
    LET taken[k \in 0 .. Len(names)] ==
            IF k = 0 THEN <<>> ELSE Filtered(taken[k - 1], names[k], suffixes)
    IN taken[Len(names)]

Opens(name) == name \in DOMAIN Files /\ Files[name].readable

\* Slip: XML before slang.
SearchDir_XmlFirst(dirs, dir) ==
    IF dir \in DOMAIN dirs
    THEN FilesOf(dirs[dir], XmlSuffixes) \o FilesOf(dirs[dir], SlangSuffixes)
    ELSE <<>>

\* suns_app_model_search_dir(): one pass for slang, one for XML; a directory
\* that cannot be scanned is passed over.
SearchDir(dirs, dir) ==
    IF dir \in DOMAIN dirs
    THEN FilesOf(dirs[dir], SlangSuffixes) \o FilesOf(dirs[dir], XmlSuffixes)
    ELSE <<>>

-----------------------------------------------------------------------------
(* suns_parse_model_file() and suns_parse_xml_model_file() *)

\* The result of yyparse() is not looked at.
LoadSlang ==
    /\ phase \in {"options", "search"} /\ todo # <<>> /\ ~ Head(todo).xml
    /\ \E name \in {Head(todo).name} :
        IF ~Opens(name)
        THEN UNCHANGED <<sps, leftover, phase>>                 \* fopen fails
        ELSE LET waiting == FirstError(leftover) # 0
                 items   == IF waiting THEN leftover
                            ELSE leftover \o Files[name].items
             IN IF ParseCrashes(sps, items)
                THEN phase' = "crashed" /\ UNCHANGED <<sps, leftover>>
                ELSE /\ \E s \in {Parse(sps, items, name)} : sps' = s
                     /\ leftover' = SubSeq(items, Taken(items) + 1, Len(items))
                     /\ UNCHANGED phase
    /\ todo' = Tail(todo)
    /\ UNCHANGED <<given, args, app, path, output>>

LoadXml ==
    /\ phase \in {"options", "search"} /\ todo # <<>> /\ Head(todo).xml
    /\ \E name \in {Head(todo).name} :
        IF ~Opens(name)
        THEN UNCHANGED sps                          \* ezxml returned NULL
        ELSE \E s \in {ParseXml(sps, Files[name].xml, name)} : sps' = s
    /\ todo' = Tail(todo)
    /\ UNCHANGED <<given, args, app, path, leftover, phase, output>>

-----------------------------------------------------------------------------
(* suns_app_getopt() *)

NextOption(opt) ==
    /\ phase = "options" /\ todo = <<>> /\ args # <<>>
    /\ Head(args).opt = opt
    /\ args' = Tail(args)
    /\ UNCHANGED <<given, path, sps, leftover, output>>

\* -m, -X: a file; -M: a directory.
OptFile ==
    /\ \E opt \in {"m", "X"} :
        /\ NextOption(opt)
        /\ todo' = <<[name |-> Head(args).value, xml |-> opt = "X"]>>
    /\ app' = [app EXCEPT !.override_model_searchpath = TRUE]
    /\ UNCHANGED phase

OptDir ==
    /\ NextOption("M")
    /\ \E files \in {SearchDir(given.dirs, Head(args).value)} : todo' = files
    /\ app' = [app EXCEPT !.override_model_searchpath = TRUE]
    /\ UNCHANGED phase

OptCheck ==
    /\ NextOption("c")
    /\ app' = [app EXCEPT !.check_only = TRUE]
    /\ UNCHANGED <<todo, phase>>

OptExport ==
    /\ NextOption("x")
    /\ app' = [app EXCEPT !.export_fmt = Head(args).value]
    /\ UNCHANGED <<todo, phase>>

\* An argument that cannot be converted.
OptError ==
    /\ NextOption("bad")
    /\ app' = [app EXCEPT !.option_error = TRUE]
    /\ UNCHANGED <<todo, phase>>

\* -h, -V and options that do not exist.
OptHelp ==
    /\ NextOption("h")
    /\ phase' = "success"
    /\ UNCHANGED <<todo, app>>

EndOfOptions ==
    /\ phase = "options" /\ todo = <<>> /\ args = <<>>
    /\ phase' = IF app.option_error THEN "failure" ELSE "search"
    /\ path' = IF app.override_model_searchpath THEN <<>> ELSE path
    /\ UNCHANGED <<given, args, app, todo, sps, leftover, output>>

-----------------------------------------------------------------------------
(* main() *)

\* suns_app_model_search_path(): errors are ignored.
SearchPath ==
    /\ phase = "search" /\ todo = <<>> /\ path # <<>>
    /\ \E files \in {SearchDir(given.dirs, Head(path))} : todo' = files
    /\ path' = Tail(path)
    /\ UNCHANGED <<given, args, app, sps, leftover, phase, output>>

Loaded == phase = "search" /\ todo = <<>> /\ path = <<>>

NothingLoaded ==
    sps.model_list = <<>> /\ sps.data = 0 /\ sps.define_list = <<>>

GiveUp ==
    /\ Loaded /\ NothingLoaded
    /\ phase' = "failure"
    /\ UNCHANGED <<given, args, app, path, todo, sps, leftover, output>>

\* -c: every model of the list is checked.
CheckModels ==
    /\ Loaded /\ ~NothingLoaded /\ app.check_only
    /\ phase' = IF \A k \in DOMAIN sps.model_list : Consistent(sps, sps.model_list[k])
                THEN "success" ELSE "failure"
    /\ UNCHANGED <<given, args, app, path, todo, sps, leftover, output>>

\* Slip: by way of the did_list, where a model may stand twice.
FilledModels_ByDid ==
    FoldLeft(LAMBDA models, d : [models EXCEPT ![d.model] = FillOffsets(@)],
             sps.models, sps.did_list)

FilledModels == [i \in DOMAIN sps.models |->
    IF Contains(sps.model_list, i) THEN FillOffsets(sps.models[i]) ELSE sps.models[i]]

FillModels ==
    /\ Loaded /\ ~NothingLoaded /\ ~app.check_only
    /\ \E models \in {FilledModels} : sps' = [sps EXCEPT !.models = models]
    /\ phase' = "filled"
    /\ UNCHANGED <<given, args, app, path, todo, leftover, output>>

\* -x: the result of the export, of an unknown format too, is not looked at.
Export ==
    /\ phase = "filled" /\ app.export_fmt # NULL
    /\ \E slang \in {IF app.export_fmt = "slang" THEN ExportSlang(sps) ELSE <<>>},
          xml \in {IF app.export_fmt = "xml" THEN ExportXml(sps)
                   ELSE [models |-> <<>>, strings |-> <<>>]} :
            output' = [slang |-> slang, xml |-> xml]
    /\ phase' = "success"
    /\ UNCHANGED <<given, args, app, path, todo, sps, leftover>>

\* On to the logger host, the test server or the client.
Work ==
    /\ phase = "filled" /\ app.export_fmt = NULL
    /\ phase' = "work"
    /\ UNCHANGED <<given, args, app, path, todo, sps, leftover, output>>

-----------------------------------------------------------------------------
\* suns_app_init(), suns_parser_init()
Init ==
    /\ given \in Runs
    /\ args = given.args
    /\ app = [override_model_searchpath |-> FALSE, check_only |-> FALSE,
              export_fmt |-> NULL, option_error |-> FALSE]
    /\ path = given.path
    /\ todo = <<>>
    /\ sps = EmptyState
    /\ leftover = <<>>
    /\ phase = "options"
    /\ output = [slang |-> <<>>, xml |-> [models |-> <<>>, strings |-> <<>>]]

\* The tool has ended, or is at work with its models.
Ended == phase \in Final \union {"work"} /\ UNCHANGED vars

Next ==
    \/ LoadSlang \/ LoadXml
    \/ OptFile \/ OptDir \/ OptCheck \/ OptExport \/ OptError \/ OptHelp
    \/ EndOfOptions \/ SearchPath
    \/ GiveUp \/ CheckModels \/ FillModels \/ Export \/ Work
    \/ Ended

Spec == Init /\ [][Next]_vars

-----------------------------------------------------------------------------
(* Properties *)

\* The models lie where the lists say, none is listed twice, and only items
\* behind an error wait in the scanner.
TypeOK ==
    /\ given \in Runs
    /\ app \in [override_model_searchpath : BOOLEAN, check_only : BOOLEAN,
                 export_fmt : {NULL, "slang", "xml", "other"}, option_error : BOOLEAN]
    /\ phase \in Final \union {"options", "search", "filled", "work"}
    /\ \A d \in DOMAIN sps.did_list : sps.did_list[d].model \in DOMAIN sps.models
    /\ \A k \in DOMAIN sps.model_list : sps.model_list[k] \in DOMAIN sps.models
    /\ \A k, n \in DOMAIN sps.model_list : sps.model_list[k] = sps.model_list[n] => k = n
    /\ \A i \in DOMAIN sps.models : \A b \in DOMAIN sps.models[i].dp_blocks :
          sps.models[i].dp_blocks[b].len \in Nat
    /\ leftover # <<>> => \E f \in DOMAIN Files :
          \E k \in DOMAIN Files[f].items : IsError(Files[f].items[k])

\* The places a run looks for models, most important first: its options when
\* there are any that name files, or else its search path.
FileOptions == {"m", "X", "M"}
NamesFiles(r) == \E k \in DOMAIN r.args : r.args[k].opt \in FileOptions
Sources(r) ==
    IF NamesFiles(r) THEN r.args
    ELSE [k \in DOMAIN r.path |-> [opt |-> "M", value |-> r.path[k]]]

Listings(r) == {0} \union UNION {DOMAIN r.dirs[d] : d \in DOMAIN r.dirs}

\* Where a file stands: its source, slang or XML, its place in the directory.
StandsAt(r, f, source, language, n) ==
    \/ /\ source.opt = "M"
       /\ source.value \in DOMAIN r.dirs
       /\ n \in DOMAIN r.dirs[source.value]
       /\ r.dirs[source.value][n] = f
       /\ Files[f].suffix \in IF language = 1 THEN SlangSuffixes ELSE XmlSuffixes
    \/ /\ source.opt = IF language = 1 THEN "m" ELSE "X"
       /\ source.value = f /\ n = 0

Positions(r, f) ==
    { p \in (DOMAIN Sources(r)) \X {1, 2} \X Listings(r) :
        StandsAt(r, f, Sources(r)[p[1]], p[2], p[3]) }

PlacesOf(r, f, language) == {p \in Positions(r, f) : p[2] = language}

Before(p, q) ==
    \/ p[1] < q[1]
    \/ p[1] = q[1] /\ p[2] < q[2]
    \/ p[1] = q[1] /\ p[2] = q[2] /\ p[3] < q[3]

FoundIn(r) == {f \in DOMAIN Files : Files[f].readable /\ Positions(r, f) # {}}
Found == FoundIn(given)

Erroneous(f) == FirstError(Files[f].items) # 0

\* The dids in items that are parsed.
DidsParsed(items) ==
    UNION {{items[k].elmts[n].did :
               n \in {e \in DOMAIN items[k].elmts : items[k].elmts[e].kind = "did"}} :
           k \in {i \in 1..Taken(items) : items[i].kind \in {"model", "broken"}}}

\* The dids a file declares when it is read as slang, before its first error,
\* or as XML.
DeclaredIn(f, language) ==
    IF language = 1 THEN DidsParsed(Files[f].items)
    ELSE {Files[f].xml.models[k].id : k \in DOMAIN Files[f].xml.models} \ {NoId}

Declared(f) == DeclaredIn(f, 1) \union DeclaredIn(f, 2)

Complete == Loaded \/ phase \in {"filled", "work"}

ModelFor(d) == sps.models[sps.did_list[FindDid(sps, d)].model]

\* A slang file with an error comes before all of these places.
Spoilt(r, places) ==
    \E e \in FoundIn(r) :
        Erroneous(e) /\ \E p \in PlacesOf(r, e, 1) : \A q \in places : Before(p, q)

\* A did leads to a model of this file, or of one with a place before all these.
WonBy(r, s, d, f, places) ==
    /\ FindDid(s, d) # 0
    /\ LET winner == s.models[s.did_list[FindDid(s, d)].model].file
       IN \/ winner = f
          \/ \E p \in Positions(r, winner) : \A q \in places : Before(p, q)

\* A did belongs to the file that comes first among those that declare it: the
\* order of the options or of the search path, slang before XML in a directory
\* (suns_app.c:1054-1112), the first entry of the did_list (suns_model.c:1467).
\* Files that cannot be opened change nothing; only a slang file with an error
\* may cost the files behind it their models.
WhoWins ==
    Complete => \A f \in Found : \A language \in {1, 2} :
        LET places == PlacesOf(given, f, language)
        IN places # {} /\ ~Spoilt(given, places) =>
              \A d \in DeclaredIn(f, language) : WonBy(given, sps, d, f, places)

\* Whatever a did leads to is a model of the model_list whose offsets were
\* filled in once (suns_app.c:830): one left out has offsets of -1, one filled
\* twice has twice the length.  A block with an error in it is the exception.
IndexedIsReady ==
    phase \in {"filled", "work"} /\ (\A f \in Found : ~Erroneous(f)) =>
        \A d \in DOMAIN sps.did_list :
            LET m == sps.models[sps.did_list[d].model]
            IN /\ m.fills = 1
               /\ \A k \in DOMAIN PointsOf(m) : PointsOf(m)[k].offset >= 0

\* The strings of an XML file reach the models of that file, wherever in the
\* file they stand (suns_parser.c:338-353), unless another model has the did;
\* a model that lost its did to another gets no strings at all.
StringsReachTheirModel ==
    Complete => \A f \in Found : \A k \in DOMAIN Files[f].xml.strings :
        LET x == Files[f].xml.strings[k]
        IN x.locale = "en" /\ x.model /\ x.id \in Declared(f) =>
            \A i \in DOMAIN sps.models : sps.models[i].file = f =>
                LET won == sps.did_list[FindDid(sps, x.id)].model = i
                    mine == \E d \in DOMAIN sps.did_list :
                               sps.did_list[d].model = i /\ sps.did_list[d].did = x.id
                    points == PointsOf(sps.models[i])
                IN mine =>
                    /\ (sps.models[i].name # NULL) = won
                    /\ \A n \in DOMAIN x.points : x.points[n].label # NULL =>
                         \A j \in DOMAIN points :
                            points[j].name = x.points[n].id
                              /\ (\A h \in 1..(j - 1) : points[h].name # points[j].name)
                            => (points[j].label # NULL) = won

-----------------------------------------------------------------------------
(* What is exported and loaded again *)

Reloaded(s) ==
    [s EXCEPT !.models = [i \in DOMAIN @ |-> FillOffsets(@[i])]]

Listed == {i \in DOMAIN sps.models : Contains(sps.model_list, i)}
DidsListed == {d \in {sps.did_list[k].did : k \in DOMAIN sps.did_list} :
                 sps.did_list[FindDid(sps, d)].model \in Listed}

\* What both languages keep of a point.
Essence(dp) == [dp EXCEPT !.define = NULL]

\* What XML keeps: no name of a define block, no label of a point that shares
\* its name with an earlier one or its model's did with another model.
XmlEssence(dp, labelled) ==
    [dp EXCEPT !.define = NULL,
               !.label = IF labelled THEN @ ELSE NULL,
               !.ref = IF IsSymbolic(dp.type) THEN NULL ELSE @]

\* Models XML can express: offsets as they are implied, strings of whole registers.
Implied(m) ==
    /\ \A b \in DOMAIN m.dp_blocks :
          m.dp_blocks[b] = FillBlock([m.dp_blocks[b] EXCEPT !.dps =
                              [k \in DOMAIN @ |-> [@[k] EXCEPT !.offset = -1]]])
    /\ \A k \in DOMAIN PointsOf(m) : PointsOf(m)[k].len % 2 = 0

\* What a strings element holds as text, and what is written as attributes.
TextsOf(m) == {m.name} \union {PointsOf(m)[k].label : k \in DOMAIN PointsOf(m)}
AttributesOf(m) ==
    UNION {{dp.name, dp.ref, dp.units} : dp \in {PointsOf(m)[k] : k \in DOMAIN PointsOf(m)}}

\* Models an XML export keeps although it escapes nothing ("FIXME: need to make
\* sure all these strings are escaped", suns_output.c:1230): their words read as
\* they stand, and no text of a model before them ends the file for the parser.
Unharmed(i) ==
    /\ \A w \in TextsOf(sps.models[i]) : Text(w) = w
    /\ \A w \in AttributesOf(sps.models[i]) : Attribute(w) = w
    /\ \A k, n \in DOMAIN sps.model_list :
          k < n /\ sps.model_list[n] = i =>
              \A w \in TextsOf(sps.models[sps.model_list[k]]) : ~Stops(w)

SlangReloads ==
    LET s == Reloaded(Parse(EmptyState, output.slang, "exported"))
    IN \A d \in DidsListed :
        LET m == ModelFor(d)
            n == s.models[s.did_list[FindDid(s, d)].model]
        IN /\ FindDid(s, d) # 0
           /\ n.name = m.name /\ n.base_len = m.base_len
           /\ [k \in DOMAIN PointsOf(n) |-> Essence(PointsOf(n)[k])]
                 = [k \in DOMAIN PointsOf(m) |-> Essence(PointsOf(m)[k])]
           /\ \A k \in DOMAIN PointsOf(m) :
                 PointsOf(m)[k].define = "own" => PointsOf(n)[k].define = "own"

XmlReloads ==
    LET s == Reloaded(ParseXml(EmptyState, ReadBack(output.xml), "exported"))
    IN \A d \in DidsListed :
        Implied(ModelFor(d)) /\ Unharmed(sps.did_list[FindDid(sps, d)].model) =>
        LET m == ModelFor(d)
            n == s.models[s.did_list[FindDid(s, d)].model]
            alone == \A k \in DOMAIN sps.did_list :
                        sps.did_list[k].did = d => k = FindDid(sps, d)
            first(k) == \A h \in 1..(k - 1) : PointsOf(m)[h].name # PointsOf(m)[k].name
        IN /\ FindDid(s, d) # 0
           /\ n.base_len = m.base_len
           /\ alone => n.name = Printed(m.name)
           /\ [k \in DOMAIN PointsOf(n) |-> XmlEssence(PointsOf(n)[k], alone /\ first(k))]
                = [k \in DOMAIN PointsOf(m) |-> XmlEssence(PointsOf(m)[k], alone /\ first(k))]

\* Points that both languages can express.
Expressible == \A i \in Listed : \A k \in DOMAIN PointsOf(sps.models[i]) :
                  ~Unreadable(PointsOf(sps.models[i])[k])

\* Models that are exported and loaded again have the same layout, scale
\* factors, units and labels (suns_output.c:610-691, 1171-1390).  Left out are
\* points the scanner would not take back, the length of the model, which
\* a slang file gives and suns_model_fill_offsets() adds to, and in XML the
\* models that a word harms which should have been escaped.
ExportReloads ==
    phase = "success" /\ Expressible =>
        /\ output.slang # <<>> => SlangReloads
        /\ output.xml.models # <<>> => XmlReloads

\* "keep parsing files even if one generates an error" (suns_app.c:1080): what
\* a file without errors declares is there, complete, in the end.
KeepsParsing ==
    phase \in {"filled", "work"} =>
        \A f \in Found : ~Erroneous(f) => \A d \in Declared(f) :
            FindDid(sps, d) # 0 /\ ModelFor(d).fills = 1
=============================================================================
