--------------------------- MODULE FileListCodec ---------------------------
(***************************************************************************)
(* The file list on the wire: Rsync27FileListWriter, Rsync31FileListWriter *)
(* and their readers in rsync-protocol/src/flist.rs.  Both sides remember  *)
(* the previous entry; flags say which fields repeat it and are left out.  *)
(* An item of the wire is <<encoding, value>>; its encoding is what its    *)
(* reader must expect, or the rest of the stream is read out of step.      *)
(***************************************************************************)
EXTENDS Integers, Sequences, FiniteSets

CONSTANTS
    Entries,      \* entries that a list may hold; hard-linked names share
                  \* their inode, and so everything but the path
    Settings,     \* sets of options; "p27" stands for protocol 27
    U8Max,        \* the largest value of the byte that counts a name
    MaxPathLen,   \* the reader's limit on a path
    MaxEntries    \* bound: entries of a list, and the reader's limit

None == -1
NoName == ""

VARIABLES
    opts,     \* RsyncFileListOptions, the same on both sides
    sent,     \* entries written
    wlast,    \* the writer's last_* values
    wire,     \* items under way
    rlast,    \* the reader's
    got,      \* entries read
    writer,   \* "writing", "finished" or "refused"
    reader    \* "reading", "done" or "refused"

vars == <<opts, sent, wlast, wire, rlast, got, writer, reader>>

If(c, item) == IF c THEN <<item>> ELSE <<>>

NoLast == [path |-> <<>>, mode |-> <<>>, mtime |-> None, uid |-> None, gid |-> None,
           user |-> NoName, grp |-> NoName, atime |-> None]

-----------------------------------------------------------------------------
(* Paths: the elements of a path are characters; "CON" is a reserved name. *)
wire_path_bytes(p) == [i \in DOMAIN p |-> IF p[i] = "\\" THEN "/" ELSE p[i]]

Components(p) ==
    LET cuts == {0, Len(p) + 1} \cup {i \in DOMAIN p : p[i] = "/"}
    IN  {SubSeq(p, i + 1, j - 1) : <<i, j>> \in
            {c \in cuts \X cuts : c[1] < c[2] /\ ~ \E k \in cuts : c[1] < k /\ k < c[2]}}

is_reserved_windows_name(c) == c[1] = "CON" /\ (Len(c) = 1 \/ c[2] = ".")

validate_wire_path(p) ==
    \/ p = <<".">>
    \/ \A c \in Components(p) :
        /\ c # <<>> /\ c[Len(c)] \notin {" ", "."}
        /\ \A i \in DOMAIN c : c[i] \notin {":", "\\"}
        /\ ~ is_reserved_windows_name(c)

file_type_from_mode(mode) == mode[1]

-----------------------------------------------------------------------------
(* Protocol 27.                                                            *)
Status27(e, last) ==
    {"LONG_NAME"} \cup
    (IF last.mode = e.mode THEN {"SAME_MODE"} ELSE {}) \cup
    (IF last.mtime = e.mtime THEN {"SAME_TIME"} ELSE {}) \cup
    (IF e.path = <<".">> THEN {"TOP_DIR"} ELSE {})

Items27(e, last, o) ==
    LET f == Status27(e, last)
        path == wire_path_bytes(e.path)
    IN  << <<"flags", f>>, <<"i32", Len(path)>>, <<"bytes", path>>, <<"long", e.len>> >> \o
        If("SAME_TIME" \notin f, <<"i32", e.mtime>>) \o
        If("SAME_MODE" \notin f, <<"i32", e.mode>>) \o
        If("checksum" \in o /\ file_type_from_mode(e.mode) = "file", <<"checksum", e.checksum>>)

(* The reader: the fields that the flags announce, in order, by encoding.  *)
Layout27(f, kind, o) ==
    << <<"flags", "flags">> >> \o
    If("SAME_NAME" \in f, <<"inherited", "u8">>) \o
    << <<"suffix_len", IF "LONG_NAME" \in f THEN "i32" ELSE "u8">>, <<"suffix", "bytes">>, <<"len", "long">> >> \o
    If("SAME_TIME" \notin f, <<"mtime", "i32">>) \o
    If("SAME_MODE" \notin f, <<"mode", "i32">>) \o
    If("checksum" \in o /\ kind = "file", <<"checksum", "checksum">>)

-----------------------------------------------------------------------------
(* Protocol 31, the writer.                                                *)

\* Mutant: a prefix longer than its length byte.
common_prefix_lenUncapped(a, b) ==
    LET same == {n \in 0 .. Len(a) : n <= Len(b) /\ SubSeq(a, 1, n) = SubSeq(b, 1, n)}
    IN  CHOOSE n \in same : \A m \in same : m <= n

common_prefix_len(a, b) ==
    LET same == {n \in 0 .. Len(a) : n <= Len(b) /\ n <= U8Max /\ SubSeq(a, 1, n) = SubSeq(b, 1, n)}
    IN  CHOOSE n \in same : \A m \in same : m <= n

First(list, group) == CHOOSE i \in DOMAIN list :
    list[i].group = group /\ \A j \in 1 .. i - 1 : list[j].group # group

Grouped(e) == file_type_from_mode(e.mode) = "file" /\ e.group # None
Repeats(e) == Grouped(e) /\ \E i \in DOMAIN sent : sent[i].group = e.group

Uid(e) == IF e.uid = None THEN 0 ELSE e.uid
Atime(e) == IF e.atime = None THEN e.mtime ELSE e.atime
Crtime(e) == IF e.crtime = None THEN e.mtime ELSE e.crtime
HasAtime(kind, o) == "atimes" \in o /\ kind # "dir"

Flags31(e, last, o) ==
    LET path == wire_path_bytes(e.path)
        prefix == common_prefix_len(last.path, path)
        kind == file_type_from_mode(e.mode)
        Flag(c, f) == IF c THEN {f} ELSE {}
        owner == "owner" \in o /\ last.uid # Uid(e)
        group == "group" \in o /\ last.gid # e.gid
    IN  {"MOD_NSEC"} \cup
        Flag(e.path = <<".">> /\ kind = "dir", "TOP_DIR") \cup
        Flag(Grouped(e), "HLINKED") \cup
        Flag(Grouped(e) /\ ~ Repeats(e), "HLINK_FIRST") \cup
        Flag(last.mode = e.mode, "SAME_MODE") \cup
        Flag(last.mtime = e.mtime, "SAME_TIME") \cup
        Flag(~ owner, "SAME_UID") \cup
        Flag(owner /\ "numeric" \notin o /\ e.user # NoName, "USER_NAME_FOLLOWS") \cup
        Flag(~ group, "SAME_GID") \cup
        Flag(group /\ "numeric" \notin o /\ e.grp # NoName, "GROUP_NAME_FOLLOWS") \cup
        Flag(HasAtime(kind, o) /\ last.atime = Atime(e), "SAME_ATIME") \cup
        Flag("crtimes" \in o /\ Crtime(e) = e.mtime, "CRTIME_EQ_MTIME") \cup
        Flag(prefix > 0, "SAME_NAME") \cup
        Flag(Len(path) - prefix > U8Max, "LONG_NAME")

Payloads(e, o) ==
    LET kind == file_type_from_mode(e.mode)
    IN  If("acls" \in o /\ kind # "link", <<"acl", 0>>) \o
        If("acls" \in o /\ kind = "dir", <<"acl", 0>>) \o
        If("xattrs" \in o, <<"xattrs", e.xattrs>>)

Items31(e, last, o) ==
    LET f == Flags31(e, last, o)
        path == wire_path_bytes(e.path)
        prefix == common_prefix_len(last.path, path)
        n == Len(path) - prefix
        kind == file_type_from_mode(e.mode)
    IN  << <<"flags", f>> >> \o
        If("SAME_NAME" \in f, <<"u8", prefix % (U8Max + 1)>>) \o
        << IF "LONG_NAME" \in f THEN <<"varint", n>> ELSE <<"u8", n % (U8Max + 1)>>,
           <<"bytes", SubSeq(path, prefix + 1, Len(path))>> >> \o
        (IF Repeats(e)
         THEN << <<"varint", First(sent, e.group) - 1>> >>
         ELSE << <<"varlong", e.len>> >> \o
              If("SAME_TIME" \notin f, <<"varlong", e.mtime>>) \o
              << <<"varint", 0>> >> \o
              If("SAME_MODE" \notin f, <<"i32", e.mode>>) \o
              If("crtimes" \in o /\ "CRTIME_EQ_MTIME" \notin f, <<"varlong", Crtime(e)>>) \o
              If(HasAtime(kind, o) /\ "SAME_ATIME" \notin f, <<"varlong", Atime(e)>>) \o
              If("SAME_UID" \notin f, <<"varint", Uid(e)>>) \o
              If("USER_NAME_FOLLOWS" \in f, <<"name", e.user>>) \o
              If("SAME_GID" \notin f, <<"varint", e.gid>>) \o
              If("GROUP_NAME_FOLLOWS" \in f, <<"name", e.grp>>) \o
              If("checksum" \in o /\ kind = "file", <<"checksum", e.checksum>>)) \o
        Payloads(e, o)

\* Mutant: an entry that refers to a hard link is not remembered.
record_entry_stateNotLinks(e, last, o) ==
    IF Repeats(e) THEN last
    ELSE [path |-> wire_path_bytes(e.path), mode |-> e.mode, mtime |-> e.mtime,
          uid |-> IF "owner" \in o THEN Uid(e) ELSE last.uid,
          gid |-> IF "group" \in o THEN e.gid ELSE last.gid,
          user |-> NoName, grp |-> NoName,
          atime |-> IF HasAtime(file_type_from_mode(e.mode), o) THEN Atime(e) ELSE last.atime]

(* record_entry_state, also after a reference to a hard link.              *)
record_entry_state(e, last, o) ==
    [path |-> wire_path_bytes(e.path), mode |-> e.mode, mtime |-> e.mtime,
     uid |-> IF "owner" \in o THEN Uid(e) ELSE last.uid,
     gid |-> IF "group" \in o THEN e.gid ELSE last.gid,
     user |-> NoName, grp |-> NoName,
     atime |-> IF HasAtime(file_type_from_mode(e.mode), o) THEN Atime(e) ELSE last.atime]

(* The writer's own errors: times that the form cannot hold.               *)
Unwritable(e, o) ==
    /\ "p27" \notin o /\ ~ Repeats(e)
    /\ \/ e.mtime < 0 /\ wlast.mtime # e.mtime
       \/ "crtimes" \in o /\ Crtime(e) < 0 /\ Crtime(e) # e.mtime
       \/ HasAtime(file_type_from_mode(e.mode), o) /\ Atime(e) < 0 /\ wlast.atime # Atime(e)

End27 == << <<"flags", {}>> >>

End31(o) ==
    << <<"flags", {}>>, <<"varint", 0>> >> \o
    (IF "numeric" \in o THEN <<>>
     ELSE If("owner" \in o \/ "acls" \in o, <<"id", 0>>) \o If("group" \in o \/ "acls" \in o, <<"id", 0>>))

-----------------------------------------------------------------------------
(* Protocol 31, the reader.                                                *)
Refers(f) == "HLINKED" \in f /\ "HLINK_FIRST" \notin f

ReadPayloads(kind, o) ==
    If("acls" \in o /\ kind # "link", <<"acl", "acl">>) \o
    If("acls" \in o /\ kind = "dir", <<"acl", "acl">>) \o
    If("xattrs" \in o \/ "fake_super" \in o, <<"xattrs", "xattrs">>)

Head31(f) ==
    << <<"flags", "flags">> >> \o
    If("SAME_NAME" \in f, <<"inherited", "u8">>) \o
    << <<"suffix_len", IF "LONG_NAME" \in f THEN "varint" ELSE "u8">>, <<"suffix", "bytes">> >> \o
    (IF Refers(f) THEN << <<"ref", "varint">> >>
     ELSE << <<"len", "varlong">> >> \o
          If("SAME_TIME" \notin f, <<"mtime", "varlong">>) \o
          If("MOD_NSEC" \in f, <<"nsec", "varint">>) \o
          If("SAME_MODE" \notin f, <<"mode", "i32">>))

Tail31(f, kind, o) ==
    (IF Refers(f) THEN <<>>
     ELSE If("crtimes" \in o /\ "CRTIME_EQ_MTIME" \notin f, <<"crtime", "varlong">>) \o
          If(HasAtime(kind, o) /\ "SAME_ATIME" \notin f, <<"atime", "varlong">>) \o
          If("SAME_UID" \notin f, <<"uid", "varint">>) \o
          If("SAME_UID" \notin f /\ "USER_NAME_FOLLOWS" \in f, <<"user", "name">>) \o
          If("SAME_GID" \notin f, <<"gid", "varint">>) \o
          If("SAME_GID" \notin f /\ "GROUP_NAME_FOLLOWS" \in f, <<"grp", "name">>) \o
          If("checksum" \in o /\ kind = "file", <<"checksum", "checksum">>)) \o
    ReadPayloads(kind, o)

Layout31(f, kind, o) == Head31(f) \o Tail31(f, kind, o)

Has(layout, field) == \E i \in DOMAIN layout : layout[i][1] = field
Take(layout, field) == wire[CHOOSE i \in DOMAIN layout : layout[i][1] = field][2]
Fits(layout) == Len(layout) <= Len(wire) /\ \A i \in DOMAIN layout : wire[i][1] = layout[i][2]

(* Anything else that stands where flags belong is not the end of a list.  *)
Flags == IF wire[1][1] = "flags" THEN wire[1][2] ELSE {"garbled"}
Layout(f, kind) == IF "p27" \in opts THEN Layout27(f, kind, opts) ELSE Layout31(f, kind, opts)

(* The mode lies before all fields whose presence depends on the kind.     *)
ModeRead(f) ==
    LET head == Layout(f, "link")
    IN  IF Refers(f) THEN got[Take(head, "ref") + 1].mode
        ELSE IF Has(head, "mode") THEN Take(head, "mode") ELSE rlast.mode

KindRead(f) == file_type_from_mode(ModeRead(f))

PathRead(layout) ==
    SubSeq(rlast.path, 1, IF Has(layout, "inherited") THEN Take(layout, "inherited") ELSE 0)
        \o Take(layout, "suffix")

(* What stops the reader with an error at an entry.                        *)
HeadBroken(f) ==
    LET head == IF "p27" \in opts THEN Layout27(f, "link", opts) ELSE Head31(f)
    IN  \/ ~ Fits(head)
        \/ Has(head, "inherited") /\ Take(head, "inherited") > Len(rlast.path)
        \/ Take(head, "suffix_len") # Len(Take(head, "suffix"))
        \/ Refers(f) /\ Take(head, "ref") >= Len(got)
        \/ ~ Refers(f) /\ "SAME_TIME" \in f /\ got = <<>>
        \/ ~ Refers(f) /\ "SAME_MODE" \in f /\ got = <<>>

Bad(f) ==
    \/ Len(got) >= MaxEntries
    \/ HeadBroken(f)
    \/ LET layout == Layout(f, KindRead(f))
       IN  \/ ~ Fits(layout)
           \/ Len(PathRead(layout)) > MaxPathLen
           \/ ~ validate_wire_path(PathRead(layout))

EntryRead(f) ==
    LET kind == KindRead(f)
        layout == Layout(f, kind)
        Or(field, other) == IF Has(layout, field) THEN Take(layout, field) ELSE other
        mtime == Or("mtime", rlast.mtime)
        owner == "owner" \in opts
        group == "group" \in opts
    IN  IF Refers(f)
        THEN [got[Take(layout, "ref") + 1] EXCEPT
                !.path = PathRead(layout),
                !.group = IF @ = None THEN Take(layout, "ref") ELSE @,
                !.xattrs = Or("xattrs", 0)]
        ELSE [path |-> PathRead(layout), mode |-> ModeRead(f), len |-> Take(layout, "len"), mtime |-> mtime,
              checksum |-> Or("checksum", None),
              group |-> IF "HLINKED" \in f THEN Len(got) ELSE None,
              uid |-> IF owner THEN Or("uid", rlast.uid) ELSE None,
              user |-> IF ~ owner THEN NoName
                       ELSE IF "SAME_UID" \in f THEN rlast.user ELSE Or("user", NoName),
              gid |-> IF group THEN Or("gid", rlast.gid) ELSE None,
              grp |-> IF ~ group THEN NoName
                      ELSE IF "SAME_GID" \in f THEN rlast.grp ELSE Or("grp", NoName),
              atime |-> IF HasAtime(kind, opts) THEN Or("atime", rlast.atime) ELSE None,
              crtime |-> IF "crtimes" \in opts THEN Or("crtime", mtime) ELSE None,
              xattrs |-> Or("xattrs", 0)]

(* A name is kept until another name arrives.                              *)
RememberName(new, old) == IF new # NoName THEN new ELSE old

Remember(e, last) ==
    [path |-> e.path, mode |-> e.mode, mtime |-> e.mtime,
     uid |-> IF "owner" \in opts THEN e.uid ELSE last.uid,
     gid |-> IF "group" \in opts THEN e.gid ELSE last.gid,
     user |-> IF "owner" \in opts THEN RememberName(e.user, last.user) ELSE last.user,
     grp |-> IF "group" \in opts THEN RememberName(e.grp, last.grp) ELSE last.grp,
     atime |-> IF HasAtime(file_type_from_mode(e.mode), opts) THEN e.atime ELSE last.atime]

-----------------------------------------------------------------------------
Init ==
    /\ opts \in Settings
    /\ sent = <<>> /\ wire = <<>> /\ got = <<>>
    /\ wlast = NoLast /\ rlast = NoLast
    /\ writer = "writing" /\ reader = "reading"

Items(e) == IF "p27" \in opts THEN Items27(e, wlast, opts) ELSE Items31(e, wlast, opts)

write_batch(e) ==
    /\ writer = "writing" /\ Len(sent) < MaxEntries
    /\ ~ Unwritable(e, opts)
    /\ wire' = wire \o Items(e)
    /\ sent' = Append(sent, e)
    /\ wlast' = record_entry_state(e, wlast, opts)
    /\ UNCHANGED <<opts, rlast, got, writer, reader>>

WriterFails(e) ==
    /\ writer = "writing" /\ Len(sent) < MaxEntries
    /\ Unwritable(e, opts)
    /\ writer' = "refused"
    /\ UNCHANGED <<opts, sent, wlast, wire, rlast, got, reader>>

finish ==
    /\ writer = "writing"
    /\ writer' = "finished"
    /\ wire' = wire \o (IF "p27" \in opts THEN End27 ELSE End31(opts))
    /\ UNCHANGED <<opts, sent, wlast, rlast, got, reader>>

ReadEntry ==
    /\ reader = "reading" /\ wire # <<>>
    /\ Flags # {} /\ ~ Bad(Flags)
    /\ LET e == EntryRead(Flags)
           took == Len(Layout(Flags, KindRead(Flags)))
       IN  /\ got' = Append(got, e)
           /\ rlast' = Remember(e, rlast)
           /\ wire' = SubSeq(wire, took + 1, Len(wire))
    /\ UNCHANGED <<opts, sent, wlast, writer, reader>>

ReadRefused ==
    /\ reader = "reading" /\ wire # <<>>
    /\ Flags # {} /\ Bad(Flags)
    /\ reader' = "refused"
    /\ UNCHANGED <<opts, sent, wlast, wire, rlast, got, writer>>

ReadEnd ==
    /\ reader = "reading" /\ wire # <<>> /\ Flags = {}
    /\ LET n == IF "p27" \in opts THEN 1
                ELSE 2 + (IF "numeric" \in opts THEN 0
                          ELSE Cardinality({id \in {"owner", "group"} : id \in opts \/ "acls" \in opts}))
       IN  /\ reader' = IF Len(wire) >= n THEN "done" ELSE "refused"
           /\ wire' = SubSeq(wire, n + 1, Len(wire))
    /\ UNCHANGED <<opts, sent, wlast, rlast, got, writer>>

Next ==
    \/ \E e \in Entries : write_batch(e) \/ WriterFails(e)
    \/ finish \/ ReadEntry \/ ReadRefused \/ ReadEnd

Spec == Init /\ [][Next]_vars

-----------------------------------------------------------------------------
(* Type invariant: the reader is never ahead of the writer.                *)
TypeOK ==
    /\ opts \in Settings
    /\ sent \in UNION {[1 .. n -> Entries] : n \in 0 .. MaxEntries}
    /\ Len(got) <= Len(sent)
    /\ writer \in {"writing", "finished", "refused"}
    /\ reader \in {"reading", "done", "refused"}

(* What the reader should make of entry i.                                 *)
Expected(i) ==
    LET e == sent[i]
        kind == file_type_from_mode(e.mode)
        p31 == "p27" \notin opts
        names == "numeric" \notin opts
    IN  [path |-> wire_path_bytes(e.path), mode |-> e.mode, len |-> e.len, mtime |-> e.mtime,
         checksum |-> IF "checksum" \in opts /\ kind = "file" THEN e.checksum ELSE None,
         group |-> IF p31 /\ Grouped(e) THEN First(sent, e.group) - 1 ELSE None,
         uid |-> IF "owner" \in opts THEN Uid(e) ELSE None,
         user |-> IF "owner" \in opts /\ names THEN e.user ELSE NoName,
         gid |-> IF "group" \in opts THEN e.gid ELSE None,
         grp |-> IF "group" \in opts /\ names THEN e.grp ELSE NoName,
         atime |-> IF p31 /\ HasAtime(kind, opts) THEN Atime(e) ELSE None,
         crtime |-> IF p31 /\ "crtimes" \in opts THEN Crtime(e) ELSE None,
         xattrs |-> IF p31 /\ "xattrs" \in opts THEN e.xattrs ELSE 0]

(* Every entry that read_rsync27_file_list or read_rsync31_file_list       *)
(* returns is the entry that was written, whatever came before it: shared  *)
(* prefixes at the limit of a byte, repeated modes, times and owners, hard *)
(* links, and the fields that the options leave out.  (Only the name of an *)
(* owner without a name is not safe: one that came earlier may stand in.)  *)
RoundTrip ==
    \A i \in DOMAIN got :
        IF sent[i].user = NoName THEN [got[i] EXCEPT !.user = NoName] = Expected(i)
        ELSE got[i] = Expected(i)

(* The reader refuses a list of this project's writer only for a path that *)
(* cannot exist on Windows or is too long, and it ends when the list ends, *)
(* with nothing left on the wire.  (With fake_super and without xattrs the *)
(* reader waits for a payload that the writer does not write; the plans of *)
(* this project set both.)                                                 *)
RefusesOnlyPaths ==
    ("fake_super" \in opts => "xattrs" \in opts) =>
        /\ reader = "refused" =>
            LET p == wire_path_bytes(sent[Len(got) + 1].path)
            IN  ~ validate_wire_path(p) \/ Len(p) > MaxPathLen
        /\ reader = "done" => writer = "finished" /\ Len(got) = Len(sent) /\ wire = <<>>
=============================================================================
