------------------------------- MODULE LuaIde -------------------------------
(***************************************************************************)
(* The Lua IDE (src/src/modules/lua_ide), which keeps its scripts in the   *)
(* writable configuration.  Questions it asks are answered by the user's   *)
(* choice of the action; the tree it shows is refreshed whenever the       *)
(* folders change, so it is read off the configuration.                    *)
(***************************************************************************)
EXTENDS Config

CONSTANTS
  Texts,       \* what the user writes
  ScriptNames, \* names given to new scripts and folders
  MaxTotal,    \* bound on the size of the writable configuration with the scripts
  Liberties    \* what the user may do besides: see `Bold`

VARIABLES script, text, changed   \* current_script (None at first), the buffer, script_changed

ide == <<script, text, changed>>
allVars == <<vars, ide>>

IdeConfig == GetStorePath(writable, "lua_ide")
WithIde(v) == Array(With(writable.array, "lua_ide", v))

Bold(liberty) == liberty \in Liberties

\* fillScriptTreeStore: the paths of the scripts, and of the folders.
RECURSIVE TreeBelow(_, _)
TreeBelow(v, path) ==
  UNION {LET sub == path \o "/" \o k IN
         CASE Is(v.array[k], "array") -> {[path |-> sub, folder |-> TRUE]} \cup TreeBelow(v.array[k], sub)
           [] Is(v.array[k], "string") -> {[path |-> sub, folder |-> FALSE]}
           [] OTHER -> {} : k \in DOMAIN v.array}
Tree == IF script = None THEN {} ELSE TreeBelow(GetStorePath(IdeConfig, "scripts"), "scripts")
ScriptPaths == {t.path : t \in {u \in Tree : ~ u.folder}}
FolderPaths == (IF script = None THEN {} ELSE {"scripts"}) \cup {t.path : t \in {u \in Tree : u.folder}}

\* refreshScriptTree
Refreshed(v) == IF Child(v, "scripts") = Null THEN Array(With(v.array, "scripts", EmptyArray)) ELSE v

\* openScript creates the folders of a path that is not there; Null if a part is a script.
RECURSIVE WithScript(_, _)
WithScript(v, parts) ==
  LET below == IF Child(v, Head(parts)) = Null THEN EmptyArray ELSE Child(v, Head(parts))
      made == WithScript(below, Tail(parts))
  IN  CASE ~ Is(v, "array") -> Null
        [] Len(parts) = 1 -> Array(With(v.array, parts[1], Str("")))
        [] OTHER -> IF made = Null THEN Null ELSE Array(With(v.array, Head(parts), made))

\* saveScript: a script that is not there any more is not saved.
IsSaved(v) == Is(GetStorePath(v, script), "string")
SavedIn(v) == IF IsSaved(v) THEN Replace(v, Steps(script), Str(text)) ELSE v

\* Whether the configuration is saved, and what the IDE has in it then.
Keep(v, save) ==
  /\ Size(WithIde(v)) <= MaxTotal
  /\ IF save THEN SaveWritableConfig(WithIde(v))
     ELSE writable' = WithIde(v) /\ UNCHANGED <<files, saved, config, merged>>
  /\ UNCHANGED <<profile, pathExists, readOnly, running, loaded>>

\* openScript, with what the IDE has in the configuration before; save: whether that has
\* to be saved anyway.  `left` is script_changed if the path cannot be opened.
Open(v, path, save, left) ==
  LET found == GetStorePath(v, path)
      made == WithScript(v, SplitStorePath(path))
  IN  CASE Is(found, "string") ->
             Keep(v, save) /\ script' = path /\ text' = found.string /\ changed' = FALSE
        [] found = Null /\ made # Null ->
             Keep(Refreshed(made), TRUE) /\ script' = path /\ text' = "" /\ changed' = FALSE
        [] OTHER -> Keep(v, save) /\ UNCHANGED <<script, text>> /\ changed' = left

-----------------------------------------------------------------------------

IdeInit == script = None /\ text = "" /\ changed = FALSE
Init == ConfigInit /\ IdeInit

\* MODULE_INIT; it fails, and leaves what it made, if scripts/default is no script.
LoadIde ==
  /\ running /\ writable # Null /\ script = None
  /\ Open(Refreshed(IF IdeConfig = Null THEN EmptyArray ELSE IdeConfig), "scripts/default", FALSE, FALSE)

\* The user writes, or undoes and redoes what was written.
Write(t) == script # None /\ t # text /\ text' = t /\ changed' = TRUE /\ UNCHANGED <<vars, script>>

SaveScript ==
  /\ script # None /\ Keep(SavedIn(IdeConfig), IsSaved(IdeConfig))
  /\ changed' = FALSE /\ UNCHANGED <<script, text>>

\* A script of the tree, or a new one below a folder of it (createScript), is opened; the
\* user first saves what has been changed, or not.
OpenScript(path, save) ==
  /\ script # None /\ (save => changed)
  /\ Open(IF save THEN SavedIn(IdeConfig) ELSE IdeConfig, path, save /\ IsSaved(IdeConfig),
          changed /\ ~ save)

CreateFolder(parent, name) ==
  LET at == GetStorePath(IdeConfig, parent) IN
  /\ script # None /\ Child(at, name) = Null
  /\ name = "default" => Bold("folder default")
  /\ Keep(Replace(IdeConfig, Steps(parent), Array(With(at.array, name, EmptyArray))), TRUE)
  /\ UNCHANGED ide

\* mutant: the script that is open stays open
DeleteOpenScript(path) ==
  /\ script # None
  /\ LET left == Refreshed(DeleteStorePath(IdeConfig, path).store) IN
     Keep(left, TRUE) /\ UNCHANGED ide

\* deleteScript opens the default script if the one that is open is deleted.
DeleteScript(path) ==
  /\ script # None
  /\ LET left == Refreshed(DeleteStorePath(IdeConfig, path).store) IN
     IF path = script THEN Open(left, "scripts/default", TRUE, FALSE)
     ELSE Keep(left, TRUE) /\ UNCHANGED ide

\* deleteFolder does not look whether the open script is in it.
DeleteFolder(path) ==
  /\ script # None /\ path # "scripts"
  /\ SubSeq(script, 1, Len(path) + 1) = path \o "/" => Bold("delete open folder")
  /\ Keep(Refreshed(DeleteStorePath(IdeConfig, path).store), TRUE) /\ UNCHANGED ide

\* The IDE ends with the program and does not ask whether to save.
CloseIde == script' = None /\ text' = "" /\ changed' = FALSE

-----------------------------------------------------------------------------

\* reloadConfig frees the configuration that the IDE still points to.
ConfigNext ==
  \/ Load
  \/ (script # None => Bold("reload")) /\ ReloadConfig
  \/ Save
  \/ \E path \in Paths, value \in Values : Set(path, value)
  \/ \E path \in Paths : Delete(path)
  \/ script = None /\ InjectReadOnly(EmptyArray)
  \/ script = None /\ \E update \in BOOLEAN : InjectWritable(EmptyArray, update)
  \/ script = None /\ \E p \in Profiles : InjectProfile(p)
  \/ \E set \in FileSets : Edit(set)

IdeNext ==
  \/ LoadIde
  \/ \E t \in Texts : Write(t)
  \/ SaveScript
  \/ \E path \in ScriptPaths, save \in BOOLEAN : OpenScript(path, save)
  \/ \E parent \in FolderPaths, name \in ScriptNames, save \in BOOLEAN :
       OpenScript(parent \o "/" \o name, save)
  \/ \E parent \in FolderPaths, name \in ScriptNames : CreateFolder(parent, name)
  \/ \E path \in ScriptPaths : DeleteScript(path)
  \/ \E path \in FolderPaths : DeleteFolder(path)

Next ==
  \/ ConfigNext /\ UNCHANGED ide
  \/ IdeNext
  \/ (Finalize \/ Crash \/ CrashWhileSaving) /\ CloseIde

Spec == Init /\ [][Next]_allVars

-----------------------------------------------------------------------------
(* Properties *)

\* saveScript, openScript, deleteScript: what the window shows as unchanged is what the
\* configuration holds for the script in its title.
ScriptKept == script # None /\ ~ changed => GetStorePath(IdeConfig, script) = Str(text)
=============================================================================
