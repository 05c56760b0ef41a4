------------------------------- MODULE Config -------------------------------
(***************************************************************************)
(* The configuration (src/src/modules/config): files that are parsed,      *)
(* merged and put below a profile, and the writable file on top of them,   *)
(* which is saved.  Files hold text, in the form that StoreText reads and  *)
(* writes.                                                                 *)
(***************************************************************************)
EXTENDS StoreText, Schema, LuaStore

CONSTANTS
  FileSets,   \* what the files may be at first: functions from Names to texts
  Profiles,   \* profile paths that may be given; None if none is
  Paths,      \* paths that callers set and delete
  Values,     \* values that they set
  Leaves,     \* paths to leaves and lists in the files
  SchemaText, \* a schema for the configuration
  MaxSize     \* bound on the size of the writable configuration that callers change

None == "no such file"
Names == {"command line", "profiles", "user", "global", "extra", "more", "override"}

ASSUME ConfigAssumption ==
  /\ \A f \in FileSets : DOMAIN f = Names
  /\ MaxSize \in Nat

VARIABLES
  files,      \* contents of the files; None for a file that does not exist
  profile,    \* profilePath
  pathExists, \* writableConfigPathExists: the directory is there or can be made
  readOnly, writable, config,   \* readOnlyConfig, writableConfig, config
  running,    \* the module is loaded
  loaded,     \* auxiliary: the read-only files and the profile when they were read; Null if
              \* the configuration does not come from files
  merged,     \* auxiliary: the writable configuration when it was merged last
  saved       \* auxiliary: what has been saved last; Null if that is not known

stores == <<readOnly, writable, config, merged>>
vars == <<files, profile, pathExists, stores, running, loaded, saved>>

\* What the texts of the files at first are parsed to, once.
Parsed == [t \in UNION {Range(f) : f \in FileSets} |-> IF t = None THEN Null ELSE ParseStore(t)]

\* parseStoreFile, for a file that users write, and for the one that the program writes.
ParseFile(name) == Parsed[files[name]]
ParseWritable == IF files["override"] = None THEN Null ELSE ParseStore(files["override"])

RECURSIVE Size(_), SizeOf(_, _)
SizeOf(f, S) == IF S = {} THEN 0 ELSE LET k == CHOOSE x \in S : TRUE IN Size(f[k]) + SizeOf(f, S \ {k})
Size(v) ==
  CASE Is(v, "array") -> 1 + SizeOf(v.array, DOMAIN v.array)
    [] Is(v, "list") -> 1 + SizeOf(v.list, DOMAIN v.list)
    [] OTHER -> 1

-----------------------------------------------------------------------------
(* Loading *)

Wild == [wild |-> TRUE]   \* what follows the use of a freed store, or of none

OrEmpty(store) == IF store = Null THEN EmptyArray ELSE store

\* What is read from a file, with the files that it merges in, is used as a whole or from
\* the profile down, where again files may be merged in; Null if there is no such profile.
RECURSIVE CheckFilesMerge(_), MergeFrom(_, _, _)
Chosen(whole) == IF profile = None THEN whole ELSE CheckFilesMerge(GetStorePath(whole, profile))
BelowProfile(store) == Chosen(CheckFilesMerge(store))

MergeOver(store, import, otherwise) == IF import = Null THEN otherwise ELSE MergeStore(store, import)

\* checkFilesMerge: the files that a store names under "merge" are merged into it, each
\* below the profile.  A list is walked while what is merged may append to it.  A store
\* without the profile is freed and used, if it is named alone.
MergeNamed(store, names) ==
  CASE Is(names, "list") -> MergeFrom(store, names, 1)
    [] Is(names, "string") /\ ParseFile(names.string) # Null ->
         MergeOver(store, BelowProfile(ParseFile(names.string)), Wild)
    [] OTHER -> store

CheckFilesMerge(store) == MergeNamed(store, Child(store, "merge"))

MergeNext(store, name) ==
  IF ~ Is(name, "string") THEN store ELSE MergeOver(store, BelowProfile(ParseFile(name.string)), store)

MergeFrom(store, names, i) ==
  LET Go(next) == MergeFrom(next, Child(next, "merge"), i + 1)
  IN  CASE ~ Is(names, "list") -> Wild
        [] Is(names, "list") /\ i > Len(names.list) -> store
        [] OTHER -> Go(MergeNext(store, names.list[i]))

\* A file given on the command line must be there and have the profile.
LoadCommandLine == BelowProfile(ParseFile("command line"))

\* The user's file over the profiles, below the profile, over the global file.
OverGlobal(chosen) ==
  CASE files["global"] = None -> chosen
    [] OTHER -> IF ParseFile("global") = Null THEN Wild ELSE MergeStore(ParseFile("global"), chosen)
LoadDefaults ==
  OverGlobal(OrEmpty(BelowProfile(MergeStore(OrEmpty(ParseFile("profiles")), OrEmpty(ParseFile("user"))))))

LoadReadOnlyConfigs == IF files["command line"] = None THEN LoadDefaults ELSE LoadCommandLine

\* loadWritableConfig: a file that cannot be parsed is taken for an empty one.
LoadWritableConfig == OrEmpty(ParseWritable)

\* internalReloadConfig: without a read-only configuration there is none at all.
Reload ==
  /\ readOnly' = LoadReadOnlyConfigs
  /\ writable' = IF readOnly' = Null THEN Null ELSE LoadWritableConfig
  /\ config' = IF readOnly' = Null THEN Null ELSE MergeStore(CloneStore(readOnly'), writable')
  /\ merged' = writable' /\ loaded' = [files |-> [files EXCEPT !["override"] = None], profile |-> profile]
  /\ UNCHANGED pathExists

ReloadConfig == running /\ Reload /\ UNCHANGED <<files, profile, running, saved>>

-----------------------------------------------------------------------------
(* Saving *)

\* saveWritableConfig, with the writable configuration given.
Saves(w) ==
  /\ files' = IF pathExists THEN [files EXCEPT !["override"] = WriteStore(w)] ELSE files
  /\ saved' = IF pathExists THEN w ELSE saved

\* mutant: the read-only configuration goes over the writable one
SaveUnder(w) ==
  /\ Saves(w) /\ writable' = w
  /\ config' = MergeStore(CloneStore(w), readOnly) /\ merged' = w

SaveWritableConfig(w) ==
  /\ Saves(w) /\ writable' = w
  /\ config' = MergeStore(CloneStore(readOnly), w) /\ merged' = w

Save ==
  /\ running /\ writable # Null /\ SaveWritableConfig(writable)
  /\ UNCHANGED <<profile, pathExists, readOnly, running, loaded>>

\* Callers change the store that getWritableConfig gives them.
Change(result) ==
  /\ running /\ writable # Null /\ Size(result) <= MaxSize /\ result # writable
  /\ writable' = result
  /\ UNCHANGED <<files, profile, pathExists, readOnly, config, merged, running, loaded, saved>>

Set(path, value) == Change(SetStorePath(writable, path, value).store)
Delete(path) == Change(DeleteStorePath(writable, path).store)

\* injectReadOnlyConfig, injectWritableConfig and injectConfigProfile
InjectReadOnly(v) ==
  /\ running /\ writable # Null /\ readOnly' = v /\ v # readOnly
  /\ config' = MergeStore(CloneStore(v), writable) /\ merged' = writable /\ loaded' = Null
  /\ UNCHANGED <<files, profile, pathExists, writable, running, saved>>

InjectWritable(v, update) ==
  /\ running /\ writable # Null /\ writable' = v /\ v # writable
  /\ IF update THEN config' = MergeStore(CloneStore(readOnly), v) /\ merged' = v
     ELSE UNCHANGED <<config, merged>>
  /\ UNCHANGED <<files, profile, pathExists, readOnly, running, loaded, saved>>

InjectProfile(p) ==
  /\ running /\ profile' = p /\ p # profile
  /\ UNCHANGED <<files, pathExists, stores, running, loaded, saved>>

-----------------------------------------------------------------------------
(* The program starts, ends, or crashes; somebody edits a file *)

ConfigInit ==
  /\ files \in FileSets /\ profile \in Profiles
  /\ pathExists \in BOOLEAN /\ (files["override"] # None => pathExists)
  /\ readOnly = Null /\ writable = Null /\ config = Null /\ merged = Null
  /\ running = FALSE /\ loaded = Null
  /\ saved = ParseWritable

\* MODULE_INIT; it fails without a read-only configuration.
Load ==
  /\ ~ running /\ Reload /\ running' = (readOnly' # Null)
  /\ UNCHANGED <<files, profile, saved>>

Forget ==
  /\ running' = FALSE /\ readOnly' = Null /\ writable' = Null /\ config' = Null /\ merged' = Null
  /\ loaded' = Null /\ UNCHANGED pathExists

\* MODULE_FINALIZE: what has been changed is saved.
Finalize ==
  /\ running
  /\ IF writable = Null THEN UNCHANGED <<files, saved>> ELSE Saves(writable)
  /\ profile' \in Profiles /\ Forget

Crash == running /\ Forget /\ UNCHANGED <<files, profile, saved>>

\* writeStoreFile has opened the file, which empties it, and not written it to its end.
CrashWhileSaving ==
  /\ running /\ writable # Null /\ pathExists
  /\ LET whole == WriteStore(writable)
     IN  files' = [files EXCEPT !["override"] = SubSeq(whole, 1, Len(whole) \div 2)]
  /\ saved' = Null /\ Forget /\ UNCHANGED profile

\* The read-only files are edited while the program does not run.
Edit(set) ==
  /\ ~ running /\ files' = [set EXCEPT !["override"] = files["override"]] /\ files' # files
  /\ UNCHANGED <<profile, pathExists, stores, running, loaded, saved>>

-----------------------------------------------------------------------------
(* Properties *)

\* saveWritableConfig, writeStoreFile, parseStoreFile: whatever was saved last is what is
\* read the next time, its strings, numbers and nesting included, unless the program
\* crashed while it wrote the file.
SavedIsRead == saved # Null => ParseWritable = saved

\* The file as a layer: below the profile, but for the global one.
Layer(n) ==
  LET file == Parsed[loaded.files[n]]
  IN  OrEmpty(IF loaded.profile = None \/ n = "global" THEN file ELSE GetStorePath(file, loaded.profile))

NamesIn(data) ==
  CASE Is(data, "string") -> {data.string} [] Is(data, "list") -> {v.string : v \in Range(data.list)}
    [] OTHER -> {}
Including(names) == names \cup UNION {NamesIn(Child(Layer(n), "merge")) : n \in names}

\* The layers from the lowest to the highest.
Layers ==
  LET first == IF loaded.files["command line"] = None THEN <<"global", "profiles", "user">>
               ELSE <<"command line">>
      all == Including(Including(Range(first) \ {"global"}))
      order == first \o SelectSeq(<<"extra", "more">>, LAMBDA n : n \in all)
  IN  Append([i \in DOMAIN order |-> Layer(order[i])], merged)

\* What a layer makes of the value v that the lower ones have at a path.
Over(v, layer, path) ==
  LET parts == SplitStorePath(path)
      w == GetStorePath(layer, path)
  IN  CASE w # Null -> IF Is(v, "list") /\ Is(w, "list") THEN List(v.list \o w.list) ELSE w
        [] \E n \in 1 .. (Len(parts) - 1) :
             LET above == GetStorePath(layer, JoinPath(SubSeq(parts, 1, n)))
             IN  above # Null /\ ~ Is(above, "array") -> Null
        [] OTHER -> v

\* loadReadOnlyConfigs, checkFilesMerge, saveWritableConfig: the writable configuration
\* has precedence over the files that are merged in, those over the user's, the user's
\* over the profiles and these over the global ones, at every path, whatever the order in
\* which they were loaded, merged, saved and reloaded.
Precedence ==
  config # Null /\ loaded # Null =>
    \E layers \in {Layers} : \A path \in Leaves :
      GetStorePath(config, path) = FoldLeft(LAMBDA v, layer : Over(v, layer, path), Null, layers)

Schema0 == ParseSchema(ParseStore(SchemaText))
Valid(store) == ValidateStore(store, Schema0)

\* mergeStore, validateStore: if the layers satisfy a schema (one whose variants are
\* leaves) so does the configuration they are merged to.
MergeKeepsValid ==
  config # Null /\ Valid(readOnly) /\ Valid(merged) => Valid(config)

\* parseStoreToLua, parseLuaToStore: a configuration that is given to Lua and taken back
\* is the same, as far as Lua can tell its parts from others.
LuaKeeps ==
  config # Null /\ LuaKnows(config, TRUE) => FromLua(ToLua(config), FALSE) = config
=============================================================================
