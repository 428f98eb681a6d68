----------------------------- MODULE CommandLine -----------------------------
(***************************************************************************)
(* The options of a command line, taken one after the other (rsync-cli/src *)
(* /options.rs), and what the plan makes of them (plan/mod.rs).            *)
(*                                                                         *)
(* A Cli is the set of its Boolean fields that are true.  A field that     *)
(* holds a value (--chown=U:G, --compress-level=N) counts as true when a   *)
(* value was given; delete_mode is one of DeleteModes or none of them.     *)
(* Options with no bearing on what two ends have to agree about (output,   *)
(* logging, limits, destination layout) leave the modelled fields alone    *)
(* and are not in the tables.                                              *)
(***************************************************************************)
EXTENDS Naturals, SequencesExt

CONSTANTS
    Vocabulary, \* the options that a command line is put together from
    MaxOptions  \* bound: options on a command line

VARIABLES
    args,       \* the options taken so far
    cli         \* the Cli they have led to

DeleteModes == {"delete-before", "delete-during", "delete-delay", "delete-after"}
LinkModes == {"copy_links", "copy_dirlinks", "copy_unsafe_links", "safe_links", "munge_links"}
NoFields ==
    {"no_recursive", "no_times", "no_permissions", "no_owner", "no_group", "no_devices",
     "no_specials", "no_links"}
Compression == {"compress", "compress_choice", "compress_level", "skip_compress"}

Field ==
    NoFields \cup LinkModes \cup DeleteModes \cup Compression \cup
    {"archive", "recursive", "preserve_times", "preserve_permissions", "preserve_owner",
     "preserve_group", "devices", "specials", "links", "acls", "xattrs", "fake_super", "atimes",
     "crtimes", "checksum", "size_only", "ignore_times", "append_verify", "whole_file",
     "inplace", "partial", "partial_dir", "dry_run", "delete", "user_maps", "chown_user",
     "chown_group", "numeric_ids", "secluded_args", "old_args"}

\* What an option does to the fields.
Turn(on, off) == [on |-> on, off |-> off]

\* The options that say what to update and how files are written.
UpdateOptions ==
    "--checksum" :> Turn({"checksum"}, {}) @@
    "--size-only" :> Turn({"size_only"}, {}) @@
    "--ignore-times" :> Turn({"ignore_times"}, {}) @@
    "--append-verify" :> Turn({"append_verify"}, {}) @@
    "--whole-file" :> Turn({"whole_file"}, {}) @@
    "--inplace" :> Turn({"inplace"}, {}) @@
    "--partial-dir=D" :> Turn({"partial", "partial_dir"}, {}) @@
    "--dry-run" :> Turn({"dry_run"}, {}) @@
    "--delete" :> Turn({"delete", "delete-during"}, DeleteModes) @@
    "--delete-before" :> Turn({"delete", "delete-before"}, DeleteModes) @@
    "--delete-delay" :> Turn({"delete", "delete-delay"}, DeleteModes) @@
    "--delete-after" :> Turn({"delete", "delete-after"}, DeleteModes)

\* The options that say what to preserve: each takes back its own negation.
PreserveOptions ==
    "--archive" :> Turn({"archive"}, NoFields) @@
    "--recursive" :> Turn({"recursive"}, {"no_recursive"}) @@
    "--times" :> Turn({"preserve_times"}, {"no_times"}) @@
    "--perms" :> Turn({"preserve_permissions"}, {"no_permissions"}) @@
    "--owner" :> Turn({"preserve_owner"}, {"no_owner"}) @@
    "--group" :> Turn({"preserve_group"}, {"no_group"}) @@
    "--devices" :> Turn({"devices"}, {"no_devices"}) @@
    "--specials" :> Turn({"specials"}, {"no_specials"}) @@
    "--links" :> Turn({"links"}, {"no_links"}) @@
    "--copy-links" :> Turn({"copy_links"}, {"no_links"}) @@
    "--safe-links" :> Turn({"safe_links"}, {"no_links"}) @@
    "--acls" :> Turn({"acls", "preserve_permissions"}, {}) @@
    "--xattrs" :> Turn({"xattrs"}, {}) @@
    "--fake-super" :> Turn({"fake_super"}, {}) @@
    "--atimes" :> Turn({"atimes"}, {}) @@
    "--crtimes" :> Turn({"crtimes"}, {})

\* The options with a mapping of owners, with compression or with a say in
\* how arguments are sent.
WireOptions ==
    "--numeric-ids" :> Turn({"numeric_ids"}, {}) @@
    "--usermap=M" :> Turn({"user_maps"}, {}) @@
    "--chown=U" :> Turn({"chown_user", "preserve_owner"}, {"no_owner", "chown_group"}) @@
    "--chown=:G" :> Turn({"chown_group", "preserve_group"}, {"no_group", "chown_user"}) @@
    "--compress" :> Turn({"compress"}, {}) @@
    "--compress-choice=zlib" :> Turn({"compress", "compress_choice"}, {}) @@
    "--compress-level=N" :> Turn({"compress_level"}, {}) @@
    "--skip-compress=S" :> Turn({"skip_compress"}, {}) @@
    "--secluded-args" :> Turn({"secluded_args"}, {"old_args"}) @@
    "--old-args" :> Turn({"old_args"}, {"secluded_args"})

\* The letters do what the long options do; -D stands for two of them.
ShortOptions ==
    "-a" :> PreserveOptions["--archive"] @@
    "-r" :> PreserveOptions["--recursive"] @@
    "-t" :> PreserveOptions["--times"] @@
    "-c" :> UpdateOptions["--checksum"] @@
    "-n" :> UpdateOptions["--dry-run"] @@
    "-D" :> Turn({"devices", "specials"}, {"no_devices", "no_specials"}) @@
    "-z" :> WireOptions["--compress"] @@
    "-s" :> WireOptions["--secluded-args"]

NegatedOptions ==
    "--no-archive" :> Turn({}, {"archive"}) @@
    "--no-recursive" :> Turn({"no_recursive"}, {"recursive"}) @@
    "--no-times" :> Turn({"no_times"}, {"preserve_times"}) @@
    "--no-perms" :> Turn({"no_permissions"}, {"preserve_permissions"}) @@
    "--no-owner" :> Turn({"no_owner"}, {"preserve_owner"}) @@
    "--no-group" :> Turn({"no_group"}, {"preserve_group"}) @@
    "--no-D" :> Turn({"no_devices", "no_specials"}, {"devices", "specials"}) @@
    "--no-devices" :> Turn({"no_devices"}, {"devices"}) @@
    "--no-links" :> Turn({"no_links"}, LinkModes \cup {"links"}) @@
    "--no-checksum" :> Turn({}, {"checksum"}) @@
    "--no-partial" :> Turn({}, {"partial", "partial_dir"}) @@
    "--no-compress" :> Turn({}, Compression) @@
    "--no-delete" :> Turn({}, DeleteModes \cup {"delete"})

OptionTable == UpdateOptions @@ PreserveOptions @@ WireOptions @@ ShortOptions @@ NegatedOptions

Applied(c, o) == (c \ OptionTable[o].off) \cup OptionTable[o].on

\* The plan of a Cli.
\* Mutant: --no-times is forgotten when -a is given.
PreserveTimesArchive(c) ==
    ("preserve_times" \in c /\ "no_times" \notin c) \/ "archive" \in c

Recursive(c) == ("recursive" \in c \/ "archive" \in c) /\ "no_recursive" \notin c
PreserveTimes(c) == ("preserve_times" \in c \/ "archive" \in c) /\ "no_times" \notin c
PreservePermissions(c) ==
    ("preserve_permissions" \in c \/ "archive" \in c) /\ "no_permissions" \notin c
PreserveOwner(c) == "preserve_owner" \in c \/ ("archive" \in c /\ "no_owner" \notin c)
PreserveGroup(c) == "preserve_group" \in c \/ ("archive" \in c /\ "no_group" \notin c)
PreserveDevices(c) == ("devices" \in c \/ "archive" \in c) /\ "no_devices" \notin c
PreserveSpecials(c) == ("specials" \in c \/ "archive" \in c) /\ "no_specials" \notin c

SymlinkMode(c) ==
    CASE "no_links" \in c -> "Skip"
      [] "no_links" \notin c /\ "copy_links" \in c -> "CopyAll"
      [] {"no_links", "copy_links"} \cap c = {} /\ "safe_links" \in c -> "SafeOnly"
      [] {"no_links", "copy_links", "safe_links"} \cap c = {} /\ {"links", "archive"} \cap c # {} ->
           "Preserve"
      [] OTHER -> "Skip"

UpdateMode(c) ==
    CASE "ignore_times" \in c -> "IgnoreTimes"
      [] "ignore_times" \notin c /\ "checksum" \in c -> "Checksum"
      [] {"ignore_times", "checksum"} \cap c = {} /\ "size_only" \in c -> "SizeOnly"
      [] OTHER -> "QuickCheck"

PlanDelete(c) == "delete" \in c \/ c \cap DeleteModes # {}

\* Combinations that the plan reports as errors; nothing is executed then.
Conflict(c) == {"inplace", "partial_dir"} \subseteq c

-----------------------------------------------------------------------------

ParseInit ==
    /\ args = <<>>
    /\ cli = {}

\* parse_cli_impl: the next option of the command line is applied
ParseOption(o) ==
    /\ Len(args) < MaxOptions
    /\ args' = Append(args, o)
    /\ cli' = Applied(cli, o)

-----------------------------------------------------------------------------
\* Properties

\* delete_mode has one value, whatever options named it.
CliTypeOK ==
    /\ args \in Seq(Vocabulary)
    /\ cli \subseteq Field
    /\ \A m, n \in cli \cap DeleteModes : m = n

(***************************************************************************)
(* What the order of the options ought to mean, told from the command line *)
(* and not from the fields: a feature is on when the last option that      *)
(* speaks of it asks for it.  -a asks for all of them; --no-archive takes  *)
(* back the -a's before it and nothing else.                               *)
(***************************************************************************)
ArchiveFeatures == {"recursive", "times", "owner", "group", "devices", "specials"}

AsksFor(f) ==
    CASE f = "recursive" -> {"--recursive", "-r"}
      [] f = "times" -> {"--times", "-t"}
      [] f = "owner" -> {"--owner", "--chown=U"}
      [] f = "group" -> {"--group", "--chown=:G"}
      [] f = "devices" -> {"--devices", "-D"}
      [] f = "specials" -> {"--specials", "-D"}

SpeaksAgainst(f) ==
    CASE f = "recursive" -> {"--no-recursive"}
      [] f = "times" -> {"--no-times"}
      [] f = "owner" -> {"--no-owner"}
      [] f = "group" -> {"--no-group"}
      [] f = "devices" -> {"--no-D", "--no-devices"}
      [] f = "specials" -> {"--no-D"}

Withdrawn(i) ==
    /\ args[i] \in {"--archive", "-a"}
    /\ \E j \in i + 1 .. Len(args) : args[j] = "--no-archive"

Wanted(f) ==
    \E i \in 1 .. Len(args) :
      /\ args[i] \in AsksFor(f) \cup {"--archive", "-a"}
      /\ ~Withdrawn(i)
      /\ \A j \in i + 1 .. Len(args) : args[j] \notin SpeaksAgainst(f)

Planned(f) ==
    CASE f = "recursive" -> Recursive(cli)
      [] f = "times" -> PreserveTimes(cli)
      [] f = "owner" -> PreserveOwner(cli)
      [] f = "group" -> PreserveGroup(cli)
      [] f = "devices" -> PreserveDevices(cli)
      [] f = "specials" -> PreserveSpecials(cli)

\* Whatever the order of -a, the options it stands for, their negations and
\* --no-archive: the plan preserves what the last word on it says
\* (apply_short_option, apply_long_option, apply_negated_option and the
\* fields of TransferPlan::from_cli).
LastWordDecides == \A f \in ArchiveFeatures : Planned(f) <=> Wanted(f)
=============================================================================
