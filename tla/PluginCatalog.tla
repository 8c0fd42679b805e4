--------------------------- MODULE PluginCatalog ---------------------------
(***************************************************************************)
(* The custom plugins on disk and in the registry: the service of          *)
(* backend/services/plugins.py that installs, updates, uploads, edits,     *)
(* clones, imports and removes them, over the static loader of             *)
(* tg_signer/core/plugins.py.                                              *)
(*                                                                         *)
(* A plugin can lie on disk twice, as the directory "p" (market, template, *)
(* bundle) and as the file "p.py" (upload, remote, clone, bundle).  Every  *)
(* handler runs on the event loop and does not await after its download,   *)
(* so handlers do not interleave; but the process may stop between any two *)
(* of their file operations, and the market update has several.            *)
(* Contents are versions, numbers that grow with each text that is written.*)
(***************************************************************************)
EXTENDS Naturals, FiniteSets

CONSTANTS
  Plugins,     \* plugin names
  MaxVersion   \* texts that are written (a bound)

ASSUME CatalogAssumption == IsFiniteSet(Plugins) /\ MaxVersion \in Nat \ {0}

VARIABLES
  dirOf,     \* the content of the directory of each plugin
  fileOf,    \* the content of its single file
  backups,   \* the contents of its .bak_ directories
  source,    \* where the registry took the plugin from
  installing,\* the market update under way: its plugin, its step, its backup
  displaced, \* the version that a market update has taken away from its plugin
  texts      \* the texts written so far
catalogVars == <<dirOf, fileOf, backups, source, installing, displaced, texts>>

None == [version |-> 0, whole |-> FALSE]
\* A text registers its plugin (loads and carries the decorator) or does not.
Contents == [version : 0..MaxVersion, whole : BOOLEAN]
Idle == [plugin |-> "none", step |-> "idle", backup |-> None]

Fresh(w) == [version |-> texts + 1, whole |-> w]
NewText == texts < MaxVersion /\ texts' = texts + 1

\* load_plugins_from_dir over the sorted directory: "p.py" comes after "p" and
\* replaces what the directory registered.
SourceOf(d, f) == IF f.whole THEN "file" ELSE IF d.whole THEN "dir" ELSE "none"
\* reload_all_plugins: everything is dropped and read again.
Reload == source' = [p \in Plugins |-> SourceOf(dirOf'[p], fileOf'[p])]

CatalogInit ==
  /\ dirOf = [p \in Plugins |-> None]
  /\ fileOf = [p \in Plugins |-> None]
  /\ backups = [p \in Plugins |-> {}]
  /\ source = [p \in Plugins |-> "none"]
  /\ installing = Idle
  /\ displaced = [p \in Plugins |-> None]
  /\ texts = 0

Free == installing = Idle
Quietly == UNCHANGED <<backups, installing, displaced>>

-----------------------------------------------------------------------------
(* Install and update from the market, one file operation at a time *)

\* _do_install_market_plugin, after the archive was downloaded and checked: the
\* directory that exists is renamed to .bak_.
SetAside(p) ==
  /\ Free
  /\ installing' = [plugin |-> p, step |-> "copy", backup |-> dirOf[p]]
  /\ backups' = [backups EXCEPT ![p] = @ \cup ({dirOf[p]} \ {None})]
  /\ dirOf' = [dirOf EXCEPT ![p] = None]
  /\ displaced' = IF source[p] = "dir" THEN [displaced EXCEPT ![p] = dirOf[p]]
                  ELSE displaced
  /\ UNCHANGED <<fileOf, source, texts>>

Updating(p, s) == installing.plugin = p /\ installing.step = s

\* copytree succeeds.
CopyIn(p) ==
  /\ Updating(p, "copy")
  /\ NewText
  /\ \E w \in BOOLEAN : dirOf' = [dirOf EXCEPT ![p] = Fresh(w)]
  /\ installing' = [installing EXCEPT !.step = "reload"]
  /\ UNCHANGED <<fileOf, backups, source, displaced>>

\* (seeded fault) the backup is removed, not renamed back
RestoreNothing(d) == d

\* A version that is in place again is not displaced any more.
Displaced(p) == [displaced EXCEPT ![p] = IF dirOf'[p] = @ THEN None ELSE @]

\* backup_dir.rename(target): over a partial copy, which is not empty, the rename
\* raises and the backup stays where it is.
RestoreInto(d) == IF d = None THEN installing.backup ELSE d

\* copytree fails, with nothing or part of the new directory on disk.
CopyFails(p) ==
  /\ Updating(p, "copy")
  /\ NewText
  /\ \E part \in {None, Fresh(FALSE)} :
       /\ dirOf' = [dirOf EXCEPT ![p] = RestoreInto(part)]
       /\ backups' = IF part = None THEN [backups EXCEPT ![p] = @ \ {installing.backup}]
                     ELSE backups
  /\ displaced' = Displaced(p)
  /\ installing' = Idle
  /\ UNCHANGED <<fileOf, source>>

Registered(p) == SourceOf(dirOf[p], fileOf[p]) # "none"

\* The reload after the copy: the backup is deleted if the plugin is registered, by
\* whichever of its two forms; otherwise the new directory is deleted, the backup
\* renamed back and the registry loaded again.
Settle(p) ==
  /\ Updating(p, "reload")
  /\ IF Registered(p)
     THEN /\ displaced' = [displaced EXCEPT ![p] = IF dirOf[p].whole THEN None ELSE @]
          /\ UNCHANGED dirOf
     ELSE /\ dirOf' = [dirOf EXCEPT ![p] = installing.backup]
          /\ displaced' = Displaced(p)
  /\ backups' = [backups EXCEPT ![p] = @ \ {installing.backup}]
  /\ installing' = Idle
  /\ UNCHANGED <<fileOf, texts>>
  /\ Reload

-----------------------------------------------------------------------------
(* The other operations: each is one stretch of the event loop *)

\* uninstall_market_plugin: the directory if there is one, else the file.
Uninstall(p) ==
  /\ Free
  /\ dirOf[p] # None \/ fileOf[p] # None \/ source[p] # "none"
  /\ dirOf' = [dirOf EXCEPT ![p] = None]
  /\ fileOf' = IF dirOf[p] # None THEN fileOf ELSE [fileOf EXCEPT ![p] = None]
  /\ UNCHANGED texts /\ Quietly
  /\ Reload

\* delete_plugin: what the registry says the plugin was loaded from.
Delete(p) ==
  /\ Free /\ source[p] # "none"
  /\ \/ /\ source[p] = "dir" /\ dirOf[p] # None
        /\ dirOf' = [dirOf EXCEPT ![p] = None] /\ UNCHANGED fileOf
     \/ /\ source[p] = "file" /\ fileOf[p] # None
        /\ fileOf' = [fileOf EXCEPT ![p] = None] /\ UNCHANGED dirOf
  /\ UNCHANGED texts /\ Quietly
  /\ Reload

\* A text that is written into the file and unlinked again when, after the reload,
\* the registry does not have the plugin.
WriteFile(p) ==
  /\ NewText
  /\ \E w \in BOOLEAN :
       fileOf' = [fileOf EXCEPT ![p] =
                    IF SourceOf(dirOf[p], Fresh(w)) # "none" THEN Fresh(w) ELSE None]
  /\ UNCHANGED dirOf /\ Quietly
  /\ Reload

\* install_remote_plugin (its match is by the file name: a directory does not
\* count) and upload_plugin write over a file that exists.
InstallRemote(p) ==
  /\ Free /\ NewText
  /\ \E w \in BOOLEAN :
       fileOf' = [fileOf EXCEPT ![p] = IF w THEN Fresh(w) ELSE None]
  /\ UNCHANGED dirOf /\ Quietly
  /\ Reload
Upload(p) == Free /\ WriteFile(p)

\* clone_plugin: only onto a name that is neither registered nor on disk.
Clone(p) == Free /\ source[p] = "none" /\ fileOf[p] = None /\ WriteFile(p)

\* create_plugin: a directory of its own, from a template that registers.
Create(p) ==
  /\ Free /\ source[p] = "none" /\ dirOf[p] = None /\ NewText
  /\ dirOf' = [dirOf EXCEPT ![p] = Fresh(TRUE)]
  /\ UNCHANGED fileOf /\ Quietly
  /\ Reload

\* update_plugin_source: the text the plugin was loaded from is replaced, and put
\* back when the plugin is not registered afterwards; the process may stop between.
EditSource(p) ==
  /\ Free /\ NewText
  /\ \E w \in BOOLEAN, stops \in BOOLEAN :
       LET keep(old, d, f) == IF SourceOf(d, f) # "none" \/ stops THEN Fresh(w) ELSE old
       IN \/ /\ source[p] = "dir" /\ dirOf[p] # None
             /\ dirOf' = [dirOf EXCEPT ![p] = keep(dirOf[p], Fresh(w), fileOf[p])]
             /\ UNCHANGED fileOf
          \/ /\ source[p] = "file" /\ fileOf[p] # None
             /\ fileOf' = [fileOf EXCEPT ![p] = keep(fileOf[p], dirOf[p], Fresh(w))]
             /\ UNCHANGED dirOf
  /\ Quietly
  /\ Reload

\* import_bundle: members are written in either layout, nothing is taken back.
ImportBundle(p) ==
  /\ Free /\ NewText
  /\ \E w \in BOOLEAN :
       \/ dirOf' = [dirOf EXCEPT ![p] = Fresh(w)] /\ UNCHANGED fileOf
       \/ fileOf' = [fileOf EXCEPT ![p] = Fresh(w)] /\ UNCHANGED dirOf
  /\ Quietly
  /\ Reload

\* The process stops, and on_startup loads what it finds; .bak_ directories begin
\* with a dot and are skipped.
StopAndStart ==
  /\ ~Free
  /\ installing' = Idle
  /\ UNCHANGED <<dirOf, fileOf, backups, displaced, texts>>
  /\ Reload

CatalogNext ==
  \/ \E p \in Plugins :
       \/ SetAside(p) \/ CopyIn(p) \/ CopyFails(p) \/ Settle(p)
       \/ Uninstall(p) \/ Delete(p) \/ InstallRemote(p) \/ Upload(p) \/ Clone(p)
       \/ Create(p) \/ EditSource(p) \/ ImportBundle(p)
  \/ StopAndStart

CatalogSpec == CatalogInit /\ [][CatalogNext]_catalogVars

-----------------------------------------------------------------------------
(* Properties *)

\* Every content is a text that was written; the market update under way is of a
\* plugin, and what it set aside is kept in a backup.
CatalogTypeOK ==
  /\ {dirOf, fileOf, displaced} \subseteq [Plugins -> Contents]
  /\ texts \in 0 .. MaxVersion
  /\ \A p \in Plugins : /\ source[p] \in {"none", "dir", "file"}
                         /\ \A c \in backups[p] \cup {dirOf[p], fileOf[p]} : c.version <= texts
  /\ installing # Idle => installing.plugin \in Plugins /\
       installing.backup \in backups[installing.plugin] \cup {None}

\* Only after the new version was loaded and registered is the old one deleted: a
\* registered version that a market update took away from its place is whole in a
\* backup until a newer one registers or it is back, whatever failed and wherever
\* the process stopped.
OldVersionKept ==
  \A p \in Plugins : displaced[p] # None => displaced[p] \in backups[p]

\* (does not hold) after an update that failed the old version is in place again:
\* a copy that failed half-way, and a stop, leave it in a .bak_ directory that
\* nothing reads.
FailedUpdateRestores ==
  \A p \in Plugins : Free => displaced[p] = None
=============================================================================
