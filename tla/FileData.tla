------------------------------- MODULE FileData -------------------------------
(***************************************************************************)
(* What ctguard-diskscan knows of an object of the file system: how it is  *)
(* read (file_data_factory::construct), how it is compared with its row of *)
(* the database, what the row becomes, and what an alert tells its reader. *)
(*                                                                         *)
(* user, group, size and mode are one attribute.  inode, mtime and ctime   *)
(* are left out: they are stored but never cause an alert.  The diff of an *)
(* alert is left out, too.                                                 *)
(***************************************************************************)
EXTENDS Naturals

\* An object: its type, its attributes, its content (of a file) or target (of a
\* link), and whether the daemon may read it.  Gone: there is no such object, or
\* lstat fails for another reason, which the code does not tell apart.
Gone == [type |-> "unknown", attr |-> "null", content |-> "", readable |-> TRUE]
Exists(object) == object # Gone

NotComputed == "not computed"
\* m_sha256 of an object that is no readable file is never set.
Unset == "unset"

\* Whether content_checked() holds after construct: lstat failed, or a file
\* could be opened and read, or a link could be read.
ContentChecked(object, check) ==
  \/ ~Exists(object)
  \/ check /\ object.type \in {"file", "link"} /\ object.readable

\* file_data_factory::construct
Construct(object, check) ==
  LET checked == ContentChecked(object, check)
      has(type) == checked /\ object.type = type
  IN  [exists  |-> Exists(object),
       checked |-> checked,
       type    |-> object.type,
       attr    |-> object.attr,
       sha256  |-> IF has("file") THEN object.content ELSE Unset,
       target  |-> IF has("link") THEN object.content ELSE ""]

\* The row inserted for a new object; the column scanned defaults to TRUE.
NewRow(fd) ==
  [type |-> fd.type, attr |-> fd.attr, sha256 |-> IF fd.checked THEN fd.sha256 ELSE NotComputed,
   target |-> fd.target, scanned |-> TRUE]

ShaDiffers(row, fd)    == fd.type = "file" /\ fd.checked /\ fd.sha256 # row.sha256
TargetDiffers(row, fd) == fd.type = "link" /\ fd.checked /\ fd.target # row.target

\* `changed` of alert_task.
Differs(row, fd) ==
  \/ row.attr # fd.attr
  \/ row.type # fd.type
  \/ ShaDiffers(row, fd)
  \/ TargetDiffers(row, fd)

\* The UPDATE of a changed object: without a checked content the old checksum
\* stays, but the target is always overwritten.
ChangedRow(row, fd) ==
  [type |-> fd.type, attr |-> fd.attr, sha256 |-> IF fd.checked THEN fd.sha256 ELSE row.sha256,
   target |-> fd.target, scanned |-> TRUE]

\* What the alerts have told of an object: nothing, or the last value named of
\* each property.
Untold == [type |-> "unknown", attr |-> "null", sha256 |-> Unset, target |-> ""]

\* What was told of a row.
TellRow(row) ==
  [type |-> row.type, attr |-> row.attr, sha256 |-> IF row.type = "file" THEN row.sha256 ELSE Unset,
   target |-> row.target]

\* "New object": the checksum of a file, the target of a link.
TellNew(fd) ==
  [type |-> fd.type, attr |-> fd.attr, sha256 |-> IF fd.type = "file" THEN fd.sha256 ELSE Unset,
   target |-> IF fd.type = "link" THEN fd.target ELSE ""]

\* "object changed": the properties that differ.
TellChange(told, row, fd) ==
  [type   |-> fd.type,
   attr   |-> IF row.attr # fd.attr THEN fd.attr ELSE told.attr,
   sha256 |-> IF ShaDiffers(row, fd) THEN fd.sha256 ELSE told.sha256,
   target |-> IF TargetDiffers(row, fd) THEN fd.target ELSE told.target]

\* The sum of a row is one that was computed.
Computed(row) == row.type = "file" /\ row.sha256 \notin {NotComputed, Unset}

\* A row says of an object what can be seen of it; its content is right, or left
\* out by an event that did not look at it.
Agrees(row, object) ==
  /\ row.type = object.type
  /\ row.attr = object.attr
  /\ object.type = "file" /\ object.readable => row.sha256 \in {object.content, NotComputed, Unset}
  /\ object.type = "link" /\ object.readable => row.target \in {object.content, ""}
================================================================================
