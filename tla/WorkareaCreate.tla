--------------------------- MODULE WorkareaCreate ---------------------------
(***************************************************************************)
(* create_workarea, and the parts of archive and restore that touch the    *)
(* disk (crates/core/src/workspace_manager).  Three stores have to agree   *)
(* and no transaction spans them: the rows, the directories under          *)
(* workspaces/<slug>/<composer>/, and git's own list of worktrees, which   *)
(* refuses a path it knows even when the directory is gone.                *)
(***************************************************************************)
EXTENDS Naturals, FiniteSetsExt

CONSTANTS
  Creators,            \* concurrent create_workarea calls of one workspace
  RepoCount,           \* repositories attached to the workspace, by position
  Composers,           \* composer names are 1..Composers, tried in this order
  MaxCreates,          \* calls made in all
  MaxDamage,           \* failures of git, files and the database, dropped calls
  MaxWcCrashes         \* Core crashes

ASSUME CreateAssumption ==
  /\ IsFiniteSet(Creators)
  /\ RepoCount \in Nat \ {0} /\ Composers \in Nat \ {0}
  /\ MaxCreates \in Nat /\ MaxDamage \in Nat /\ MaxWcCrashes \in Nat

VARIABLES
  rows,                \* composer -> its workareas row
  root,                \* composers whose worktree_root is on disk
  trees,               \* <<composer, repo>>: worktree directories
  known,               \* <<composer, repo>>: worktrees git has registered
  op,                  \* creator -> its call in flight
  disk,                \* the archive or restore in flight
  torn,                \* history: composers whose directories went from under a
                       \* row, by an archive cut short or another call's cleanup
  ncreates, damage, wcrashes

stores == <<root, trees, known>>
wcVars == <<rows, stores, op, disk, torn, ncreates, damage, wcrashes>>

Name == 1..Composers
Repos == 1..RepoCount
Site == Name \X Repos
NoRow == [status |-> "none", repos |-> {}]
NoOp == [pc |-> "idle", name |-> 1, left |-> {}, built |-> {}, hurt |-> FALSE]
NoDisk == [kind |-> "none", name |-> 1, left |-> {}]

CreateInit ==
  /\ rows = [n \in Name |-> NoRow]
  /\ root = {} /\ trees = {} /\ known = {}
  /\ op = [c \in Creators |-> NoOp]
  /\ disk = NoDisk
  /\ torn = {}
  /\ ncreates = 0 /\ damage = 0 /\ wcrashes = 0

Hurt == damage < MaxDamage /\ damage' = damage + 1
Used == {n \in Name : rows[n].status # "none"}

-----------------------------------------------------------------------------
(* create_workarea                                                         *)

\* allocate_composer: the first name that no row carries, archived rows
\* included.  .context/ is laid down with the root.
Allocate(c, call) ==
  /\ call
  /\ Used # Name
  /\ LET n == Min(Name \ Used)
     IN  /\ op' = [op EXCEPT ![c] = [NoOp EXCEPT !.pc = "add", !.name = n,
                                                 !.left = Repos, !.hurt = op[c].hurt]]
         /\ root' = root \cup {n}
  /\ UNCHANGED <<rows, trees, known, disk, torn, damage, wcrashes>>

BeginCreate(c) ==
  /\ op[c].pc = "idle" /\ ncreates < MaxCreates
  /\ ncreates' = ncreates + 1
  /\ Allocate(c, TRUE)

RetryCreate(c) == Allocate(c, op[c].pc = "retry") /\ UNCHANGED ncreates

\* `git worktree add -B` refuses a directory that exists and a path it has
\* registered, whatever became of the directory.
CanAdd(n, r) == <<n, r>> \notin trees \cup known

\* The repository a call is at, in position order.
At(c, r) == op[c].pc = "add" /\ op[c].left # {} /\ r = Min(op[c].left)

AddRepo(c, r) ==
  LET n == op[c].name
  IN  /\ At(c, r)
      /\ IF CanAdd(n, r)
           THEN /\ op' = [op EXCEPT ![c].left = @ \ {r}, ![c].built = @ \cup {r}]
                /\ trees' = trees \cup {<<n, r>>}
                /\ known' = known \cup {<<n, r>>}
                /\ root' = root \cup {n}
           ELSE /\ op' = [op EXCEPT ![c].left = @ \ {r}]
                /\ UNCHANGED stores
      /\ UNCHANGED <<rows, disk, torn, ncreates, damage, wcrashes>>

\* git fails for a reason of its own, or the exclude file or the copied files
\* fail and remove_worktree_best_effort undoes the worktree.
AddFails(c, r) ==
  /\ At(c, r) /\ CanAdd(op[c].name, r)
  /\ Hurt
  /\ op' = [op EXCEPT ![c].left = @ \ {r}, ![c].hurt = TRUE]
  /\ UNCHANGED <<rows, stores, disk, torn, ncreates, wcrashes>>

\* cleanup_worktrees: git removes what this call has built, then the whole
\* root goes, with whatever is below it.
Cleanup(c) ==
  LET n == op[c].name
  IN  /\ known' = known \ {<<n, r>> : r \in op[c].built}
      /\ trees' = {t \in trees : t[1] # n}
      /\ root' = root \ {n}
      /\ torn' = IF rows[n] # NoRow \/ \E d \in Creators \ {c} : op[d].pc = "add" /\ op[d].name = n
                   THEN torn \cup {n} ELSE torn

\* A copied file escapes the project: everything is undone, for any repo.
AddEscapes(c, r) ==
  /\ At(c, r) /\ CanAdd(op[c].name, r)
  /\ Hurt
  /\ Cleanup(c)
  /\ op' = [op EXCEPT ![c] = NoOp]
  /\ UNCHANGED <<rows, disk, ncreates, wcrashes>>

Added(c) == op[c].pc = "add" /\ op[c].left = {}

NothingBuilt(c) ==
  /\ Added(c) /\ op[c].built = {}
  /\ Cleanup(c)
  /\ op' = [op EXCEPT ![c] = [@ EXCEPT !.pc = "failed"]]
  /\ UNCHANGED <<rows, disk, ncreates, damage, wcrashes>>

CreateFails(c) ==
  /\ op[c].pc = "failed"
  /\ op' = [op EXCEPT ![c] = NoOp]
  /\ UNCHANGED <<rows, stores, disk, torn, ncreates, damage, wcrashes>>

\* A slip that lists every attached repo, and the ones a new row lists.
ListedAll(c) == Repos
Listed(c) == op[c].built

\* One transaction: the row, a workarea_repos row per materialized repo, and
\* the status.
CommitRow(c) ==
  LET n == op[c].name
  IN  /\ Added(c) /\ op[c].built # {}
      /\ rows[n] = NoRow
      /\ rows' = [rows EXCEPT ![n] = [repos |-> Listed(c),
                    status |-> IF op[c].built = Repos THEN "active" ELSE "partial"]]
      /\ op' = [op EXCEPT ![c] = NoOp]
      /\ UNCHANGED <<stores, disk, torn, ncreates, damage, wcrashes>>

\* UNIQUE(workspace_id, composer_name): another call took the name first.
NameTaken(c) ==
  /\ Added(c) /\ op[c].built # {}
  /\ rows[op[c].name] # NoRow
  /\ Cleanup(c)
  /\ op' = [op EXCEPT ![c].pc = "retry"]
  /\ UNCHANGED <<rows, disk, ncreates, damage, wcrashes>>

\* The INSERT fails otherwise and is cleaned up; a later statement of the
\* transaction, or its commit, returns through `?` and is not.
DatabaseFails(c, atInsert) ==
  /\ Added(c) /\ op[c].built # {}
  /\ Hurt
  /\ IF atInsert THEN Cleanup(c) ELSE UNCHANGED <<stores, torn>>
  /\ op' = [op EXCEPT ![c] = NoOp]
  /\ UNCHANGED <<rows, disk, ncreates, wcrashes>>

-----------------------------------------------------------------------------
(* archive_workarea with remove_worktree, restore_workarea.                *)

Archive(n) ==
  /\ disk = NoDisk /\ rows[n].status \in {"active", "partial", "crashed"}
  /\ \/ /\ disk' = [kind |-> "archive", name |-> n, left |-> rows[n].repos]
        /\ UNCHANGED rows
     \/ /\ rows' = [rows EXCEPT ![n].status = "archived"]      \* keeps the trees
        /\ UNCHANGED disk
  /\ UNCHANGED <<stores, op, torn, ncreates, damage, wcrashes>>

\* `git worktree remove`, where there is a directory; its refusal is ignored.
RemoveWorktree(r, refused) ==
  LET gone == IF refused THEN {} ELSE trees \cap {<<disk.name, r>>}
  IN  /\ disk.kind = "archive" /\ r \in disk.left
      /\ IF refused THEN Hurt ELSE UNCHANGED damage
      /\ disk' = [disk EXCEPT !.left = @ \ {r}]
      /\ trees' = trees \ gone /\ known' = known \ gone
      /\ UNCHANGED <<rows, root, op, torn, ncreates, wcrashes>>

RemoveRoot ==
  /\ disk.kind = "archive" /\ disk.left = {}
  /\ root' = root \ {disk.name}
  /\ trees' = {t \in trees : t[1] # disk.name}
  /\ disk' = [disk EXCEPT !.kind = "row"]
  /\ UNCHANGED <<rows, known, op, torn, ncreates, damage, wcrashes>>

ArchivedRow ==
  /\ disk.kind = "row"
  /\ rows' = [rows EXCEPT ![disk.name].status = "archived"]
  /\ disk' = NoDisk
  /\ UNCHANGED <<stores, op, torn, ncreates, damage, wcrashes>>

\* git that cannot be spawned, remove_dir_all that stops halfway, a failed row
\* transaction or a dropped call ends an archive or a restore through `?`: what
\* is gone stays gone, and an archive's row stays as it was.
DiskStops ==
  /\ disk.kind # "none" /\ Hurt
  /\ \E gone \in SUBSET {t \in trees : t[1] = disk.name} :
       /\ gone # {} => disk.kind = "archive" /\ disk.left = {}
       /\ trees' = trees \ gone
  /\ torn' = IF disk.kind = "restore" THEN torn ELSE torn \cup {disk.name}
  /\ disk' = NoDisk
  /\ UNCHANGED <<rows, root, known, op, ncreates, wcrashes>>

Restore(n) ==
  /\ disk = NoDisk /\ rows[n].status \in {"archived", "crashed"}
  /\ disk' = [kind |-> "restore", name |-> n,
              left |-> {r \in rows[n].repos : <<n, r>> \notin trees}]
  /\ root' = root \cup {n}
  /\ UNCHANGED <<rows, trees, known, op, torn, ncreates, damage, wcrashes>>

\* recreate_worktrees gives up at the first repo that cannot be added.
RestoreRepo(r) ==
  LET n == disk.name
  IN  /\ disk.kind = "restore" /\ r \in disk.left
      /\ IF CanAdd(n, r)
           THEN /\ disk' = [disk EXCEPT !.left = @ \ {r}]
                /\ trees' = trees \cup {<<n, r>>}
                /\ known' = known \cup {<<n, r>>}
           ELSE disk' = NoDisk /\ UNCHANGED <<trees, known>>
      /\ UNCHANGED <<rows, root, op, torn, ncreates, damage, wcrashes>>

RestoredRow ==
  /\ disk.kind = "restore" /\ disk.left = {}
  /\ rows' = [rows EXCEPT ![disk.name].status = "active"]
  /\ disk' = NoDisk
  /\ UNCHANGED <<stores, op, torn, ncreates, damage, wcrashes>>

-----------------------------------------------------------------------------
\* A crash between any two steps, and the boot's sweep: a row whose root is
\* gone is 'crashed'.  Nothing looks for directories without a row.
Crash ==
  /\ wcrashes < MaxWcCrashes
  /\ wcrashes' = wcrashes + 1
  /\ op' = [c \in Creators |-> NoOp]
  /\ rows' = [n \in Name |->
                IF rows[n].status \in {"active", "partial"} /\ n \notin root
                  THEN [rows[n] EXCEPT !.status = "crashed"] ELSE rows[n]]
  /\ torn' = IF disk.kind \in {"archive", "row"} THEN torn \cup {disk.name} ELSE torn
  /\ disk' = NoDisk
  /\ UNCHANGED <<stores, ncreates, damage>>

CreateStep(c) ==
  \/ BeginCreate(c) \/ RetryCreate(c)
  \/ \E r \in Repos : AddRepo(c, r) \/ AddFails(c, r) \/ AddEscapes(c, r)
  \/ NothingBuilt(c) \/ CreateFails(c) \/ CommitRow(c) \/ NameTaken(c)
  \/ \E atInsert \in BOOLEAN : DatabaseFails(c, atInsert)

DiskStep ==
  \/ \E n \in Name : Archive(n) \/ Restore(n)
  \/ \E r \in Repos : RestoreRepo(r) \/ \E refused \in BOOLEAN : RemoveWorktree(r, refused)
  \/ RemoveRoot \/ ArchivedRow \/ RestoredRow \/ DiskStops

CreateNext == (\E c \in Creators : CreateStep(c)) \/ DiskStep \/ Crash

CreateSpec == CreateInit /\ [][CreateNext]_wcVars

-----------------------------------------------------------------------------
CreateTypeOK ==
  /\ rows \in [Name -> [status : {"none", "active", "partial", "crashed", "archived"},
                        repos : SUBSET Repos]]
  /\ root \subseteq Name /\ trees \subseteq Site /\ known \subseteq Site
  /\ op \in [Creators -> [pc : {"idle", "add", "failed", "retry"}, name : Name,
                          left : SUBSET Repos, built : SUBSET Repos, hurt : BOOLEAN]]
  /\ disk \in [kind : {"none", "archive", "row", "restore"}, name : Name,
               left : SUBSET Repos]
  /\ torn \subseteq Name

\* A row the user can work in lists only repositories whose worktree is on
\* disk and in git's list, after partial creates, archives that removed the
\* trees, restores and crashes between any two of their steps.  The exceptions
\* are in torn: an archive with remove_worktree that did not end, by a crash,
\* an error or a dropped call, and a name two concurrent calls chose, where the
\* cleanup of the loser removes the winner's directories
\* (workarea.rs:817-1065, 2518-2546, archive.rs:143-190).
ListedIsMaterialized ==
  \A n \in Name :
    rows[n].status \in {"active", "partial"} /\ n \notin torn
      /\ (disk = NoDisk \/ disk.name # n) =>
      \A r \in rows[n].repos : <<n, r>> \in trees \cap known

\* A call that nothing external hurt and no other call raced does not fail:
\* "If a prior failed attempt left stuff behind we'll discover and remove it
\* before re-trying" (workarea.rs:810-812).
LeftoversAreRemoved ==
  \A c \in Creators : op[c].pc = "failed" => op[c].hurt
=============================================================================
