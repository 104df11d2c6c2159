------------------------ MODULE ManagedProgramsProofs ------------------------
(***************************************************************************)
(* Proofs about ManagedPrograms, for any hosts and configurations and any  *)
(* number of edits, configurations and restarts: UserKept, Plannable and   *)
(* FailClosed.                                                             *)
(***************************************************************************)
EXTENDS ManagedPrograms, TLAPS

-----------------------------------------------------------------------------
(* The state *)

IsDoc(d) == d = [k \in Settings |-> d[k]]
IsFile(f) ==
  /\ f = [kind |-> f.kind, doc |-> f.doc]
  /\ IsDoc(f.doc)
  /\ f.kind = "absent" => f.doc = Empty

IsMarker(m) == m = [kind |-> m.kind, names |-> m.names] /\ m.names \subseteq R!Names
IsKey(key) ==
  /\ key = [exists |-> key.exists, subkeys |-> key.subkeys, values |-> key.values, marker |-> key.marker]
  /\ key.values = [n \in R!Names |-> key.values[n]]
  /\ IsMarker(key.marker)

\* settings.json, and its sidecar: what it records as the user's override is
\* not an address that a daemon wrote.
IsSettings(f) ==
  /\ f = [kind |-> f.kind, override |-> f.override, ignored |-> f.ignored, other |-> f.other]
  /\ f.kind \in {"absent", "object", "invalid"}
  /\ f.ignored = [present |-> f.ignored.present, entries |-> f.ignored.entries]
  /\ f.kind = "absent" => f = V!NoFile
Known(s) ==
  /\ s.form \in {"v2", "legacy"}
  /\ s.form = "v2" => s.added_ignored \subseteq V!Ours
  /\ V!read_state(s).override_before \notin V!CapiUrls
IsSidecar(s) == s \in {V!NoSidecar, V!BadSidecar} \/ Known(s)

OnDisk(fs) ==
  /\ fs = [q \in DOMAIN Start(host) |-> fs[q]]
  /\ \A path \in Whole : IsFile(fs[path])
  /\ program = "claude-desktop" => IsKey(fs["policy"])
  /\ program = "vscode" => IsSettings(fs["settings"]) /\ IsSidecar(fs["settings.state"])

-----------------------------------------------------------------------------
(* What is the user's, and that the daemon knows it is not its own *)

MineWhole ==
  \A path \in Whole :
    mine[path] # Empty => /\ disk[path].doc = mine[path] /\ mine[path]["other"] = "user"
                          /\ ~TakenForManaged(path)

MinePolicy ==
  program = "claude-desktop" =>
    \A n \in mine["policy"] : /\ n \in R!Names /\ disk["policy"].values[n] = "user"
                              /\ n \notin disk["policy"].marker.names

\* Override v and nothing else is the user's, or it was given up.
Owns(v) == mine["settings"].override \in {v, "deleted"}
Restored(f) == IF f.override \in V!CapiUrls THEN Owns("none") ELSE Owns(f.override)

SameRest(f) ==
  /\ f.other = mine["settings"].other
  /\ ("user" \in f.ignored.entries) = mine["settings"].list
  /\ f.kind = "absent" => Owns("none")

MineSettings ==
  program = "vscode" =>
    LET f == disk["settings"]
        s == disk["settings.state"]
    IN  /\ SameRest(f)
        /\ s = V!NoSidecar => Restored(f)
        /\ Known(s) => Owns(V!read_state(s).override_before)

-----------------------------------------------------------------------------
(* Operations that are still to be performed *)

\* A whole file is written, and its ownership changed, only where nothing is
\* the user's.
WholeSafe(o) ==
  \A path \in Whole : /\ o.path = path => IsFile(o.to)
                      /\ o.path \in {path, Owner(path)} => mine[path] = Empty

ChangeSafe(c) ==
  \/ c.change = "value" /\ c.name \in R!Names \ mine["policy"]
  \/ c.change = "marker" /\ IsMarker(c.marker) /\ c.marker.names \cap mine["policy"] = {}
  \/ c.change = "key"

PolicySafe(o) ==
  /\ o.op = "registry" => program = "claude-desktop" /\ o.path = "policy" /\ ChangeSafe(o.to)
  /\ o.path = "policy" => o.op = "registry"

Records(o) == o.path = "settings.state" /\ Known(o.to) /\ Owns(V!read_state(o.to).override_before)
Forgets(o) == o.path = "settings.state" /\ o.to = V!NoSidecar
Writes(o) == o.path = "settings" /\ IsSettings(o.to) /\ SameRest(o.to)

\* Operation i of ops, when those up to d are performed: settings.json gets an
\* address of the daemon's only once the sidecar is there, which goes only
\* once the file has the user's override again.
SettingsSafe(ops, d, i) ==
  /\ ops[i].path = "settings" =>
       /\ Writes(ops[i])
       /\ \/ Restored(ops[i].to)
          \/ i = Len(ops) /\ (disk["settings.state"] # V!NoSidecar \/ (i > d + 1 /\ Records(ops[i - 1])))
  /\ ops[i].path = "settings.state" =>
       \/ Records(ops[i])
       \/ /\ Forgets(ops[i]) /\ i = Len(ops)
          /\ \/ i > d + 1 /\ Writes(ops[i - 1]) /\ Restored(ops[i - 1].to)
             \/ Restored(disk["settings"]) /\ \A j \in d + 1 .. i - 1 : ops[j].path # "settings"

\* Without the proxy the configured route is left alone.
Route == IF program = "vscode" /\ config.copilot_chat = "githubModels" THEN {"settings"} ELSE Entries
FailsClosed ==
  /\ program \in {"copilot", "vscode"} /\ gateway(config) /\ proxy = None
  /\ fail_closed_without_proxy(config)
RouteSafe(o) == FailsClosed => o.path \notin Route

Safe(ops, d) ==
  \A i \in d + 1 .. Len(ops) :
    /\ WholeSafe(ops[i]) /\ PolicySafe(ops[i]) /\ RouteSafe(ops[i])
    /\ program = "vscode" => SettingsSafe(ops, d, i)

-----------------------------------------------------------------------------
(* The inductive invariant *)

IsList(s) == \E S : s \in Seq(S)

Configured ==
  /\ config.configured => validate_daemon(program, config)
  /\ config.configured \/ config = NotConfigured
  /\ config.copilot_chat \in {"ownModels", "githubModels"}
  /\ config.model # Null

Typed ==
  /\ host \in Hosts /\ Configured /\ OnDisk(disk)
  /\ mine = [q \in DOMAIN Start(host) |-> mine[q]]
  /\ program = "vscode" => mine["settings"] = [override |-> mine["settings"].override,
                                               list |-> mine["settings"].list,
                                               other |-> mine["settings"].other]
  /\ done \in Nat

Mine == MineWhole /\ MinePolicy /\ MineSettings

\* A plan that waits was made from files that were there.
PlanFrom(fs, l) ==
  LET p == PlanFor(host, config, fs, l, proxy)
  IN  [verdict |-> p.verdict, ops |-> p.ops, observed |-> [q \in p.reads |-> See(q, fs)]]
Made == pc = "planned" => done = 0 /\ \E fs, l : OnDisk(fs) /\ plan = PlanFrom(fs, l)

Applying ==
  pc = "applying" => IsList(plan.ops) /\ done < Len(plan.ops) /\ Safe(plan.ops, done)

IInv == Typed /\ Mine /\ Made /\ Applying

-----------------------------------------------------------------------------
(* Lists of operations *)

LEMMA NoOps == IsList(<< >>) /\ Len(<< >>) = 0
<1>1. << >> \in Seq({}) /\ Len(<< >>) = 0
  OBVIOUS
<1> QED
  BY <1>1, Zenon DEF IsList

LEMMA OneOp ==
  ASSUME NEW a
  PROVE  IsList(<<a>>) /\ Len(<<a>>) = 1 /\ <<a>>[1] = a
<1>1. <<a>> \in Seq({a}) /\ Len(<<a>>) = 1 /\ <<a>>[1] = a
  OBVIOUS
<1> QED
  BY <1>1, Zenon DEF IsList

LEMMA TwoOps ==
  ASSUME NEW a, NEW b
  PROVE  /\ IsList(<<a, b>>) /\ Len(<<a, b>>) = 2 /\ <<a, b>>[1] = a /\ <<a, b>>[2] = b
<1>1. <<a, b>> \in Seq({a, b}) /\ Len(<<a, b>>) = 2 /\ <<a, b>>[1] = a /\ <<a, b>>[2] = b
  OBVIOUS
<1> QED
  BY <1>1, Zenon DEF IsList

LEMMA ListLength ==
  ASSUME NEW a, IsList(a)
  PROVE  Len(a) \in Nat /\ (a # << >> => Len(a) > 0)
BY DEF IsList

LEMMA Joined ==
  ASSUME NEW a, NEW b, IsList(a), IsList(b)
  PROVE  /\ IsList(a \o b) /\ Len(a \o b) = Len(a) + Len(b)
         /\ \A i \in 1 .. Len(a) : (a \o b)[i] = a[i]
         /\ \A i \in 1 .. Len(b) : (a \o b)[Len(a) + i] = b[i]
         /\ \A i \in 1 .. Len(a \o b) :
              \/ i \in 1 .. Len(a) /\ (a \o b)[i] = a[i]
              \/ i - Len(a) \in 1 .. Len(b) /\ (a \o b)[i] = b[i - Len(a)]
<1>a. PICK A, B : a \in Seq(A) /\ b \in Seq(B)
  BY Zenon DEF IsList
<1> DEFINE S == A \cup B
<1>1. a \in Seq(S) /\ b \in Seq(S)
  BY <1>a
<1> HIDE DEF S
<1>2. /\ a \o b \in Seq(S) /\ Len(a \o b) = Len(a) + Len(b) /\ Len(a) \in Nat /\ Len(b) \in Nat
      /\ \A i \in 1 .. Len(a) : (a \o b)[i] = a[i]
      /\ \A i \in 1 .. Len(b) : (a \o b)[Len(a) + i] = b[i]
  BY <1>1
<1>3. IsList(a \o b)
  BY <1>2, Zenon DEF IsList
<1>4. \A i \in 1 .. Len(a \o b) :
              \/ i \in 1 .. Len(a) /\ (a \o b)[i] = a[i]
              \/ i - Len(a) \in 1 .. Len(b) /\ (a \o b)[i] = b[i - Len(a)]
  <2> TAKE i \in 1 .. Len(a \o b)
  <2>1. CASE i <= Len(a)
    BY <2>1, <1>2
  <2>2. CASE ~(i <= Len(a))
    <3>1. i - Len(a) \in 1 .. Len(b) /\ Len(a) + (i - Len(a)) = i
      BY <2>2, <1>2
    <3> QED
      BY <3>1, <1>2
  <2> QED
    BY <2>1, <2>2
<1> QED
  BY <1>2, <1>3, <1>4

LEMMA JoinedHead ==
  ASSUME NEW a, NEW b, IsList(a), IsList(b), NEW i \in 1 .. Len(a)
  PROVE  (a \o b)[i] = a[i]
BY Joined

LEMMA JoinedTail ==
  ASSUME NEW a, NEW b, IsList(a), IsList(b), NEW i \in 1 .. Len(b)
  PROVE  (a \o b)[Len(a) + i] = b[i]
BY Joined

LEMMA Joins ==
  /\ \A b : IsList(b) => /\ IsList(<< >> \o b) /\ Len(<< >> \o b) = Len(b)
                         /\ \A i \in 1 .. Len(b) : (<< >> \o b)[i] = b[i]
  /\ \A a, b : /\ IsList(<<a>> \o <<b>>) /\ Len(<<a>> \o <<b>>) = 2
               /\ (<<a>> \o <<b>>)[1] = a /\ (<<a>> \o <<b>>)[2] = b
<1>1. ASSUME NEW b, IsList(b)
      PROVE  /\ IsList(<< >> \o b) /\ Len(<< >> \o b) = Len(b)
             /\ \A i \in 1 .. Len(b) : (<< >> \o b)[i] = b[i]
  <2>1. Len(b) \in Nat
    BY <1>1, ListLength
  <2> QED
    BY <1>1, <2>1, NoOps, Joined
<1>2. ASSUME NEW a, NEW b
      PROVE  /\ IsList(<<a>> \o <<b>>) /\ Len(<<a>> \o <<b>>) = 2
             /\ (<<a>> \o <<b>>)[1] = a /\ (<<a>> \o <<b>>)[2] = b
  BY OneOp, Joined
<1> QED
  BY <1>1, <1>2, Zenon

-----------------------------------------------------------------------------
(* The files of each program *)

LEMMA Hosted ==
  ASSUME Typed
  PROVE  program \in Programs
BY HostsAssumption DEF Typed, program

LEMMA StartPaths ==
  ASSUME Typed
  PROVE  /\ Whole \subseteq DOMAIN Start(host) /\ Entries \subseteq DOMAIN Start(host)
         /\ Documents \subseteq DOMAIN Start(host)
         /\ program = "claude-desktop" =>
              DOMAIN Start(host) = {"settings", "settings.owner", "helper", "helper.owner", "policy"}
         /\ program = "vscode" => DOMAIN Start(host) = {"chat", "chat.state", "settings", "settings.state"}
BY Hosted DEF Whole, Entries, Documents, Start, Programs, program

LEMMA WholeOf ==
  ASSUME NEW path \in Whole
  PROVE  /\ program \in {"codex", "grok", "opencode", "claude-desktop"}
         /\ path \notin {"policy", "settings.state", "settings.owner", "helper.owner"}
         /\ Owner(path) # "policy" /\ Owner(path) \notin Whole
         /\ program = "claude-desktop" <=> path \in {"settings", "helper"}
BY DEF Whole, Owner

-----------------------------------------------------------------------------
(* Managed documents never hold what a user writes *)

LEMMA Generated ==
  ASSUME NEW c
  PROVE  /\ IsDoc(CodexConfig(c).doc) /\ IsDoc(GrokConfig(c).doc) /\ IsDoc(OpenCodeConfig(c).doc)
         /\ IsDoc(credential_plugin)
<1>1. /\ IsDoc(Empty) /\ IsDoc(PassThrough(c)) /\ \A k, v : IsDoc(Of(k, v))
      /\ \A a, b : IsDoc(MergeOverlay(a, b)) /\ IsDoc(Without(a, b))
  BY Zenon DEF IsDoc, Empty, PassThrough, Of, MergeOverlay, Without
<1>2. \A d : IsDoc(d) => IsDoc(Provider(c, d))
  BY Zenon DEF IsDoc, Provider
<1>3. IsDoc(CodexConfig(c).doc)
  BY <1>1 DEF CodexConfig, Toml
<1>4. IsDoc(GrokConfig(c).doc)
  BY <1>1 DEF GrokConfig, Toml, NoDocument
<1>5. IsDoc(OpenCodeConfig(c).doc)
  BY <1>1, <1>2 DEF OpenCodeConfig, Managed, NoDocument
<1> QED
  BY <1>1, <1>3, <1>4, <1>5, Zenon DEF credential_plugin

LEMMA DesktopDocuments ==
  ASSUME NEW c
  PROVE  /\ IsDoc(DesktopSettings(c).doc) /\ IsDoc(credential_helper_contents)
         /\ credential_helper_contents["other"] # "user"
         /\ \A n \in Settings : DesktopSettings(c).doc[n] # "user"
         /\ DesktopSettings(c).doc["odd"] # None => "odd" \in c.extra \cup c.nulls
         /\ IsDoc(Empty) /\ \A n \in Settings : Empty[n] = None
<1>1. /\ PassThrough(c) = [k \in Settings |-> IF k \in c.nulls THEN Null
                                               ELSE IF k \in c.extra THEN "pass" ELSE None]
      /\ Empty = [k \in Settings |-> None]
      /\ Of("url", "gateway") = [k \in Settings |-> IF k = "url" THEN "gateway" ELSE None]
      /\ Of("auth", "helper") = [k \in Settings |-> IF k = "auth" THEN "helper" ELSE None]
  BY Zenon DEF PassThrough, Of, Empty
<1>2. LET d == Provider(c, Of("url", "gateway"))
      IN  /\ d = [k \in Settings |-> d[k]]
          /\ \A k \in Settings : d[k] \in {"gateway", "helper", None}
          /\ d["odd"] = None
  BY <1>1 DEF Provider, Settings
<1>3. LET d == DesktopSettings(c).doc
      IN  d = PassThrough(c) \/ d = MergeOverlay(PassThrough(c), Provider(c, Of("url", "gateway")))
  BY Zenon DEF DesktopSettings, Managed
<1>4. IsDoc(DesktopSettings(c).doc)
  BY <1>3, Zenon DEF IsDoc, PassThrough, MergeOverlay
<1>5. \A n \in Settings : DesktopSettings(c).doc[n] # "user"
  BY <1>1, <1>2, <1>3 DEF MergeOverlay, None, Null
<1>6. DesktopSettings(c).doc["odd"] # None => "odd" \in c.extra \cup c.nulls
  BY <1>1, <1>2, <1>3 DEF MergeOverlay, None, Settings
<1>7. IsDoc(credential_helper_contents) /\ credential_helper_contents["other"] # "user"
  BY <1>1 DEF IsDoc, credential_helper_contents, Settings, None
<1>8. IsDoc(Empty) /\ \A n \in Settings : Empty[n] = None
  BY <1>1, Zenon DEF IsDoc
<1> QED
  BY <1>4, <1>5, <1>6, <1>7, <1>8, Zenon

-----------------------------------------------------------------------------
(* Pieces of a plan *)

Agrees(fs, reads) == \A q \in reads : See(q, fs) = See(q, disk)

SafeOp(o) == WholeSafe(o) /\ PolicySafe(o) /\ RouteSafe(o)
SafeOps(s) == IsList(s) /\ \A i \in 1 .. Len(s) : SafeOp(s[i])

LEMMA Pieces ==
  ASSUME NEW v, NEW s, NEW r
  PROVE  Piece(v, s, r).verdict = v /\ Piece(v, s, r).ops = s /\ Piece(v, s, r).reads = r
BY DEF Piece

LEMMA SafeShort ==
  /\ SafeOps(<< >>)
  /\ \A o : SafeOp(o) => SafeOps(<<o>>)
  /\ \A o, q : SafeOp(o) /\ SafeOp(q) => SafeOps(<<o, q>>)
<1>1. SafeOps(<< >>)
  BY NoOps DEF SafeOps
<1>2. ASSUME NEW o, SafeOp(o)
      PROVE  SafeOps(<<o>>)
  BY <1>2, OneOp DEF SafeOps
<1>3. ASSUME NEW o, NEW q, SafeOp(o), SafeOp(q)
      PROVE  SafeOps(<<o, q>>)
  <2>1. \A i \in 1 .. 2 : i = 1 \/ i = 2
    OBVIOUS
  <2>2. ASSUME NEW s, IsList(s), Len(s) = 2, s[1] = o, s[2] = q
        PROVE  SafeOps(s)
    BY <1>3, <2>1, <2>2, Zenon DEF SafeOps
  <2> QED
    BY <2>2, TwoOps, Zenon
<1> QED
  BY <1>1, <1>2, <1>3, Zenon

LEMMA SafeJoined ==
  ASSUME NEW a, NEW b, SafeOps(a), SafeOps(b)
  PROVE  SafeOps(a \o b)
<1>1. IsList(a) /\ IsList(b)
  BY Zenon DEF SafeOps
<1>2. /\ IsList(a \o b)
      /\ \A i \in 1 .. Len(a \o b) :
              \/ i \in 1 .. Len(a) /\ (a \o b)[i] = a[i]
              \/ i - Len(a) \in 1 .. Len(b) /\ (a \o b)[i] = b[i - Len(a)]
  BY <1>1, Joined, Zenon
<1>3. ASSUME NEW i \in 1 .. Len(a \o b)
      PROVE  SafeOp((a \o b)[i])
  BY <1>2, Zenon DEF SafeOps
<1> QED
  BY <1>2, <1>3, Zenon DEF SafeOps

LEMMA ThenSafe ==
  ASSUME NEW a, NEW b, SafeOps(a.ops), SafeOps(b.ops)
  PROVE  SafeOps(Then(a, b).ops)
<1>1. Then(a, b).ops = a.ops \o b.ops
  BY Zenon DEF Then
<1> QED
  BY <1>1, SafeJoined, Zenon

LEMMA ThenReads ==
  ASSUME NEW a, NEW b, NEW fs, Agrees(fs, Then(a, b).reads)
  PROVE  Agrees(fs, a.reads) /\ Agrees(fs, b.reads)
<1>1. Then(a, b).reads = a.reads \cup b.reads
  BY DEF Then
<1> QED
  BY <1>1, Zenon DEF Agrees

-----------------------------------------------------------------------------
(* Whole files: codex, grok, opencode and claude_desktop *)

\* The daemon finds nothing of the user's where it may write.
LEMMA FreeToTake ==
  ASSUME Typed, Mine, NEW path \in Whole,
         \/ disk[path].kind = "absent" \/ TakenForManaged(path) \/ disk[path].doc["other"] # "user"
  PROVE  mine[path] = Empty
<1> SUFFICES ASSUME mine[path] # Empty PROVE FALSE
  OBVIOUS
<1>1. /\ disk[path].doc = mine[path] /\ mine[path]["other"] = "user" /\ ~TakenForManaged(path)
  BY Zenon DEF Mine, MineWhole
<1>2. disk[path].kind = "absent" => disk[path].doc = Empty
  BY Zenon DEF Typed, OnDisk, IsFile
<1> QED
  BY <1>1, <1>2, Zenon

\* An operation on a whole file or its marker.
LEMMA WholeOp ==
  ASSUME Typed, NEW path \in Whole, mine[path] = Empty, NEW o, o.op # "registry",
         \/ o.path = path /\ IsFile(o.to)
         \/ program = "claude-desktop" /\ o.path = Owner(path)
  PROVE  SafeOp(o)
<1>1. /\ program \notin {"copilot", "vscode"} /\ o.path # "policy"
      /\ \A q \in Whole : o.path = q => q = path
      /\ \A q \in Whole : o.path \in {q, Owner(q)} => q = path
      /\ o.path \in Whole => o.path = path
  BY WholeOf DEF Owner
<1>2. WholeSafe(o)
  BY <1>1, WholeOf, Zenon DEF WholeSafe
<1>3. PolicySafe(o) /\ RouteSafe(o)
  BY <1>1, Zenon DEF PolicySafe, RouteSafe, FailsClosed
<1> QED
  BY <1>2, <1>3, Zenon DEF SafeOp

LEMMA ReadWhole ==
  ASSUME NEW fs, NEW q, q # "policy", See(q, fs) = See(q, disk)
  PROVE  fs[q] = disk[q]
BY Zenon DEF See

LEMMA HeadedSafe ==
  ASSUME Typed, Mine, NEW fs, NEW l, NEW d, IsDoc(d), NEW path \in Whole,
         program # "claude-desktop", Agrees(fs, {path})
  PROVE  /\ SafeOps(HeadedFile(path, d, fs[path], l).ops)
         /\ SafeOps(RemoveHeaded(path, fs[path]).ops)
<1>1. fs[path] = disk[path]
  BY ReadWhole, WholeOf, Zenon DEF Agrees
<1>2. HasHeader(fs[path]) \/ fs[path].kind = "absent" => mine[path] = Empty
  BY <1>1, FreeToTake, Zenon DEF TakenForManaged
<1>3. IsFile(Headed(d)) /\ HasHeader(Headed(d)) /\ IsFile(Absent)
  BY DEF IsFile, IsDoc, Headed, HasHeader, Document, Absent, Empty, Settings
<1>4. /\ Put(path, Headed(d)).op = "write" /\ Put(path, Headed(d)).path = path
      /\ Put(path, Headed(d)).to = Headed(d)
      /\ Unlink(path, Absent).op = "unlink" /\ Unlink(path, Absent).path = path
      /\ Unlink(path, Absent).to = Absent
  BY DEF Put, Unlink
<1>5. mine[path] = Empty => SafeOps(<<Put(path, Headed(d))>>) /\ SafeOps(<<Unlink(path, Absent)>>)
  <2>1. mine[path] = Empty => SafeOp(Put(path, Headed(d))) /\ SafeOp(Unlink(path, Absent))
    BY <1>3, <1>4, WholeOp, Zenon
  <2> QED
    BY <2>1, SafeShort, Zenon
<1>6. LET ops == HeadedFile(path, d, fs[path], l).ops
      IN  \/ ops = << >>
          \/ ops = <<Put(path, Headed(d))>> /\ (HasHeader(fs[path]) \/ fs[path].kind = "absent")
  BY Zenon DEF HeadedFile, Piece
<1>7. LET ops == RemoveHeaded(path, fs[path]).ops
      IN  ops = << >> \/ (ops = <<Unlink(path, Absent)>> /\ HasHeader(fs[path]))
  BY Zenon DEF RemoveHeaded, Piece
<1> QED
  BY <1>2, <1>5, <1>6, <1>7, SafeShort, Zenon

LEMMA OwnedSafe ==
  ASSUME Typed, Mine, NEW fs, NEW l, NEW d, IsDoc(d), d["other"] # "user", NEW path \in Whole,
         program = "claude-desktop"
  PROVE  /\ Agrees(fs, write_owned(path, d, fs, l).reads) => SafeOps(write_owned(path, d, fs, l).ops)
         /\ Agrees(fs, remove_owned(path, fs).reads) => SafeOps(remove_owned(path, fs).ops)
<1> DEFINE write == Put(path, Document(d))
           mark == Put(Owner(path), Marker)
           unlink == Unlink(path, Absent)
           unmark == Unlink(Owner(path), Absent)
           both == {path, Owner(path)}
<1>1. /\ write.op # "registry" /\ write.path = path /\ write.to = Document(d)
      /\ unlink.op # "registry" /\ unlink.path = path /\ unlink.to = Absent
      /\ mark.op # "registry" /\ mark.path = Owner(path)
      /\ unmark.op # "registry" /\ unmark.path = Owner(path)
  BY DEF Put, Unlink
<1>2. IsFile(Document(d)) /\ IsFile(Absent) /\ Document(d).doc = d
  BY DEF IsFile, IsDoc, Document, Absent, Empty
<1>3. LET w == write_owned(path, d, fs, l)
      IN  /\ w.reads = both
          /\ \/ w.ops = << >>
             \/ /\ w.ops = <<mark>> \/ w.ops = <<write, mark>>
                /\ fs[path] = Document(d) \/ fs[path].kind = "absent" \/ is_owned(path, fs)
  BY Zenon DEF write_owned, Piece
<1>4. LET r == remove_owned(path, fs)
      IN  \/ r.ops = << >>
          \/ /\ r.ops = << >> \o <<unmark>> \/ r.ops = <<unlink>> \o <<unmark>>
             /\ r.reads = both /\ is_owned(path, fs)
  BY Zenon DEF remove_owned, Piece
<1> HIDE DEF write, mark, unlink, unmark
<1>5. mine[path] = Empty => /\ SafeOps(<<mark>>) /\ SafeOps(<<write, mark>>)
                            /\ SafeOps(<< >> \o <<unmark>>) /\ SafeOps(<<unlink>> \o <<unmark>>)
  <2>1. mine[path] = Empty => SafeOp(write) /\ SafeOp(mark) /\ SafeOp(unlink) /\ SafeOp(unmark)
    BY <1>1, <1>2, WholeOp, Zenon
  <2> QED
    BY <2>1, SafeShort, SafeJoined, Zenon
<1>6. /\ Agrees(fs, both)
      /\ fs[path] = Document(d) \/ fs[path].kind = "absent" \/ is_owned(path, fs)
      => mine[path] = Empty
  <2> SUFFICES ASSUME Agrees(fs, both),
                      fs[path] = Document(d) \/ fs[path].kind = "absent" \/ is_owned(path, fs)
               PROVE  mine[path] = Empty
    OBVIOUS
  <2>1. fs[path] = disk[path] /\ fs[Owner(path)] = disk[Owner(path)]
    BY ReadWhole, WholeOf, Zenon DEF Agrees
  <2>2. is_owned(path, fs) => TakenForManaged(path)
    BY <2>1, Zenon DEF is_owned, TakenForManaged
  <2>3. fs[path] = Document(d) => disk[path].doc["other"] # "user"
    BY <2>1, <1>2, Zenon
  <2> QED
    BY <2>1, <2>2, <2>3, FreeToTake, Zenon
<1> QED
  BY <1>3, <1>4, <1>5, <1>6, SafeShort, Zenon

-----------------------------------------------------------------------------
(* The registry key *)

SafeChanges(s) == IsList(s) /\ \A i \in 1 .. Len(s) : ChangeSafe(s[i])

LEMMA ChangesJoined ==
  ASSUME NEW a, NEW b, SafeChanges(a), SafeChanges(b)
  PROVE  SafeChanges(a \o b)
<1>1. IsList(a) /\ IsList(b)
  BY Zenon DEF SafeChanges
<1>2. /\ IsList(a \o b)
      /\ \A i \in 1 .. Len(a \o b) :
              \/ i \in 1 .. Len(a) /\ (a \o b)[i] = a[i]
              \/ i - Len(a) \in 1 .. Len(b) /\ (a \o b)[i] = b[i - Len(a)]
  BY <1>1, Joined, Zenon
<1>3. ASSUME NEW i \in 1 .. Len(a \o b)
      PROVE  ChangeSafe((a \o b)[i])
  BY <1>2, Zenon DEF SafeChanges
<1> QED
  BY <1>2, <1>3, Zenon DEF SafeChanges

LEMMA ChangesShort ==
  /\ SafeChanges(<< >>)
  /\ \A c : ChangeSafe(c) => SafeChanges(<<c>>)
  /\ \A c, d : ChangeSafe(c) /\ ChangeSafe(d) => SafeChanges(<<c, d>>)
<1>1. SafeChanges(<< >>)
  BY NoOps DEF SafeChanges
<1>2. ASSUME NEW c, ChangeSafe(c)
      PROVE  SafeChanges(<<c>>)
  BY <1>2, OneOp DEF SafeChanges
<1>3. ASSUME NEW c, NEW d, ChangeSafe(c), ChangeSafe(d)
      PROVE  SafeChanges(<<c, d>>)
  <2>1. \A i \in 1 .. 2 : i = 1 \/ i = 2
    OBVIOUS
  <2>2. ASSUME NEW s, IsList(s), Len(s) = 2, s[1] = c, s[2] = d
        PROVE  SafeChanges(s)
    BY <1>3, <2>1, <2>2, Zenon DEF SafeChanges
  <2> QED
    BY <2>2, TwoOps, Zenon
<1> QED
  BY <1>1, <1>2, <1>3, Zenon

\* A change of a name that is not the user's.
LEMMA ChangeOfName ==
  ASSUME NEW ns, ns \subseteq R!Names \ mine["policy"], NEW n, NEW d
  PROVE  SafeChanges(IF n \in ns THEN <<R!SetTo(n, d)>> ELSE << >>)
<1>1. n \in ns => ChangeSafe(R!SetTo(n, d))
  BY DEF ChangeSafe, R!SetTo
<1> QED
  BY <1>1, ChangesShort, Zenon

LEMMA ChangesSafe ==
  ASSUME Typed, Mine, program = "claude-desktop", NEW key, R!read_values(key) = R!read_values(disk["policy"]),
         NEW desired, \A n \in R!Names : desired[n] # "user",
         R!Foreign(key, desired) = {}
  PROVE  SafeChanges(R!plan_registry_settings(key, desired))
<1>1. key.values = disk["policy"].values /\ key.marker = disk["policy"].marker
  BY DEF R!read_values
<1>2. \A n \in mine["policy"] : n \in R!Names /\ key.values[n] = "user" /\ n \notin key.marker.names
  BY <1>1, Zenon DEF Mine, MinePolicy
<1> DEFINE wanted  == {n \in R!Names : desired[n] # None}
           stale   == key.marker.names \ wanted
           changed == {n \in wanted : key.values[n] # desired[n]}
           gone    == {n \in stale : key.values[n] # None}
           present == {n \in key.marker.names : key.values[n] # None}
<1>3. \A n \in mine["policy"] : n \notin wanted
  BY <1>2 DEF R!Foreign, None
<1>4. stale \cap mine["policy"] = {} /\ wanted \cap mine["policy"] = {}
  BY <1>2, <1>3, Zenon
<1>5. key.marker.names \subseteq R!Names
  BY <1>1, Zenon DEF Typed, OnDisk, IsKey, IsMarker
<1>6. /\ changed \subseteq R!Names \ mine["policy"] /\ gone \subseteq R!Names \ mine["policy"]
      /\ present \subseteq R!Names \ mine["policy"]
  BY <1>2, <1>3, <1>5, Zenon
<1>7. ASSUME NEW ns, ns \subseteq R!Names, ns \cap mine["policy"] = {}
      PROVE  ChangeSafe(R!SetMarker(R!Claims(ns)))
  BY <1>7 DEF ChangeSafe, IsMarker, R!SetMarker, R!Claims
<1>8. ChangeSafe(R!SetMarker(R!NoMarker)) /\ ChangeSafe(R!DropEmpty)
  BY DEF ChangeSafe, IsMarker, R!SetMarker, R!NoMarker, R!DropEmpty
<1> DEFINE full   == R!Claims(wanted \cup stale)
           claim  == IF key.marker # full THEN <<R!SetMarker(full)>> ELSE << >>
           shrink == IF stale # {} THEN <<R!SetMarker(R!Claims(wanted))>> ELSE << >>
<1>9. /\ SafeChanges(R!Ordered(changed, desired)) /\ SafeChanges(R!Ordered(gone, R!NoValues))
      /\ SafeChanges(R!Ordered(present, R!NoValues))
  <2> HIDE DEF changed, gone, present
  <2> QED
    BY <1>6, ChangeOfName, ChangesJoined, Zenon DEF R!Ordered
<1>10. SafeChanges(claim) /\ SafeChanges(shrink)
  <2>1. ChangeSafe(R!SetMarker(full)) /\ ChangeSafe(R!SetMarker(R!Claims(wanted)))
    BY <1>4, <1>5, <1>7
  <2> QED
    BY <2>1, ChangesShort, Zenon
<1>11. SafeChanges(<<R!SetMarker(R!NoMarker), R!DropEmpty>>)
  BY <1>8, ChangesShort, Zenon
<1>12. SafeChanges(R!plan_registry_remove(key))
  <2>1. \/ R!plan_registry_remove(key) = << >>
        \/ R!plan_registry_remove(key) =
             R!Ordered(present, R!NoValues) \o <<R!SetMarker(R!NoMarker), R!DropEmpty>>
    BY Zenon DEF R!plan_registry_remove
  <2> QED
    BY <2>1, <1>9, <1>11, ChangesShort, ChangesJoined, Zenon
<1>13. \/ R!plan_registry_settings(key, desired) = R!plan_registry_remove(key)
       \/ R!plan_registry_settings(key, desired) =
            claim \o R!Ordered(changed, desired) \o R!Ordered(gone, R!NoValues) \o shrink
  BY Zenon DEF R!plan_registry_settings
<1> HIDE DEF claim, shrink
<1>14. SafeChanges(claim \o R!Ordered(changed, desired) \o R!Ordered(gone, R!NoValues) \o shrink)
  BY <1>9, <1>10, ChangesJoined, Zenon
<1> QED
  BY <1>12, <1>13, <1>14, Zenon

LEMMA PolicySafely ==
  ASSUME Typed, Mine, program = "claude-desktop", NEW fs, NEW d, \A n \in R!Names : d[n] # "user",
         Agrees(fs, Policy(d, fs).reads)
  PROVE  SafeOps(Policy(d, fs).ops)
<1> DEFINE key     == fs["policy"]
           desired == [n \in R!Names |-> d[n]]
           changes == R!plan_registry_settings(key, desired)
           Op(c)   == [op |-> "registry", path |-> "policy", to |-> c]
           ops     == [i \in 1 .. Len(changes) |-> Op(changes[i])]
<1>1. \/ Policy(d, fs).ops = << >>
      \/ /\ Policy(d, fs).ops = ops /\ R!Foreign(key, desired) = {}
         /\ ops # << >> => Policy(d, fs).reads = {"policy"}
  BY Zenon DEF Policy, Piece
<1>2. CASE Policy(d, fs).ops = << >>
  BY <1>2, SafeShort, Zenon
<1>3. CASE /\ Policy(d, fs).ops = ops /\ Policy(d, fs).reads = {"policy"}
           /\ R!Foreign(key, desired) = {}
  <2>1. R!read_values(key) = R!read_values(disk["policy"])
    BY <1>3, Zenon DEF Agrees, See
  <2>2. SafeChanges(changes)
    BY <1>3, <2>1, ChangesSafe, SMTT(30)
  <2> HIDE DEF changes
  <2>3. Len(changes) \in Nat /\ \A i \in 1 .. Len(changes) : ChangeSafe(changes[i])
    BY <2>2, ListLength, Zenon DEF SafeChanges
  <2>4. ops \in Seq({Op(changes[i]) : i \in 1 .. Len(changes)}) /\ Len(ops) = Len(changes)
    BY <2>3
  <2>5. ASSUME NEW c, ChangeSafe(c)
        PROVE  SafeOp(Op(c))
    <3>1. Op(c).op = "registry" /\ Op(c).path = "policy" /\ Op(c).to = c
      OBVIOUS
    <3>2. WholeSafe(Op(c))
      BY <3>1, WholeOf, Zenon DEF WholeSafe
    <3> QED
      BY <2>5, <3>1, <3>2 DEF SafeOp, PolicySafe, RouteSafe, FailsClosed
  <2>6. \A i \in 1 .. Len(ops) : SafeOp(ops[i])
    BY <2>3, <2>4, <2>5
  <2>7. SafeOps(ops)
    BY <2>4, <2>6, Zenon DEF SafeOps, IsList
  <2> QED
    BY <1>3, <2>7, Zenon
<1> QED
  BY <1>1, <1>2, <1>3, Zenon

-----------------------------------------------------------------------------
(* The plans of the programs with whole files *)

SafeRead(fs, p) == Agrees(fs, p.reads) => SafeOps(p.ops)

LEMMA SafeReads ==
  ASSUME NEW fs
  PROVE  /\ \A v, r : SafeRead(fs, Piece(v, << >>, r))
         /\ SafeRead(fs, Nothing)
         /\ \A a, b : SafeRead(fs, a) /\ SafeRead(fs, b) => SafeRead(fs, Then(a, b))
         /\ \A m, p : SafeRead(fs, p) => SafeRead(fs, Unless(m, p))
<1>1. ASSUME NEW v, NEW r PROVE SafeRead(fs, Piece(v, << >>, r))
  <2>1. Piece(v, << >>, r).ops = << >>
    BY DEF Piece
  <2> QED
    BY <2>1, SafeShort, Zenon DEF SafeRead
<1>2. ASSUME NEW a, NEW b, SafeRead(fs, a), SafeRead(fs, b)
      PROVE  SafeRead(fs, Then(a, b))
  BY <1>2, ThenReads, ThenSafe, Zenon DEF SafeRead
<1>3. ASSUME NEW m, NEW p, SafeRead(fs, p)
      PROVE  SafeRead(fs, Unless(m, p))
  BY <1>1, <1>3, Zenon DEF Unless
<1> QED
  BY <1>1, <1>2, <1>3, Zenon DEF Nothing

LEMMA HeadedRead ==
  ASSUME Typed, Mine, NEW fs, NEW l, NEW d, IsDoc(d), NEW path \in Whole, program # "claude-desktop"
  PROVE  /\ SafeRead(fs, HeadedFile(path, d, fs[path], l))
         /\ SafeRead(fs, RemoveHeaded(path, fs[path]))
<1>1. /\ HeadedFile(path, d, fs[path], l).reads = {path}
      /\ RemoveHeaded(path, fs[path]).reads = {path}
  BY Zenon DEF HeadedFile, RemoveHeaded, Piece
<1> QED
  BY <1>1, HeadedSafe, Zenon DEF SafeRead

LEMMA HeadedPlans ==
  ASSUME Typed, Mine, program \in {"codex", "grok", "opencode"}, NEW fs, NEW l
  PROVE  SafeRead(fs, PlanFor(host, config, fs, l, proxy))
<1>1. /\ "config" \in Whole /\ (program = "opencode" => "plugin" \in Whole)
      /\ program # "claude-desktop"
  BY DEF Whole
<1>2. ASSUME NEW d, IsDoc(d)
      PROVE  /\ SafeRead(fs, HeadedFile("config", d, fs["config"], l))
             /\ SafeRead(fs, RemoveHeaded("config", fs["config"]))
             /\ program = "opencode" => /\ SafeRead(fs, HeadedFile("plugin", d, fs["plugin"], l))
                                        /\ SafeRead(fs, RemoveHeaded("plugin", fs["plugin"]))
  BY <1>1, <1>2, HeadedRead, Zenon
<1>3. SafeRead(fs, PlanCodex(config, fs, l))
  BY <1>2, Generated, SafeReads, Zenon DEF PlanCodex
<1>4. SafeRead(fs, PlanGrok(config, fs, l))
  BY <1>2, Generated, SafeReads, Zenon DEF PlanGrok
<1>5. program = "opencode" => SafeRead(fs, PlanOpenCode(config, fs, l))
  <2> HAVE program = "opencode"
  <2>1. SafeRead(fs, IF uses_credential_helper(config)
                       THEN HeadedFile("plugin", credential_plugin, fs["plugin"], l)
                       ELSE RemoveHeaded("plugin", fs["plugin"]))
    BY <1>2, Generated, Zenon
  <2>2. SafeRead(fs, Unless(OpenCodeConfig(config),
                            HeadedFile("config", OpenCodeConfig(config).doc, fs["config"], l)))
    BY <1>2, Generated, SafeReads, Zenon
  <2>3. SafeRead(fs, Then(RemoveHeaded("config", fs["config"]), RemoveHeaded("plugin", fs["plugin"])))
    BY <1>2, Generated, SafeReads, Zenon
  <2> QED
    BY <2>1, <2>2, <2>3, SafeReads, Zenon DEF PlanOpenCode
<1> QED
  BY <1>3, <1>4, <1>5, SafeReads, Zenon DEF PlanFor, program

LEMMA DesktopPlans ==
  ASSUME Typed, Mine, program = "claude-desktop", NEW fs, NEW l
  PROVE  SafeRead(fs, PlanFor(host, config, fs, l, proxy))
<1>1. "settings" \in Whole /\ "helper" \in Whole
  BY DEF Whole
<1>2. ASSUME NEW path \in Whole, NEW d, IsDoc(d), d["other"] # "user"
      PROVE  SafeRead(fs, write_owned(path, d, fs, l)) /\ SafeRead(fs, remove_owned(path, fs))
  BY <1>2, OwnedSafe, Zenon DEF SafeRead
<1>3. ASSUME NEW d, \A n \in Settings : d[n] # "user"
      PROVE  SafeRead(fs, Policy(d, fs))
  <2>1. \A n \in R!Names : d[n] # "user"
    BY <1>3 DEF R!Names, Settings
  <2> QED
    BY <2>1, PolicySafely, Zenon DEF SafeRead
<1>4. /\ IsDoc(DesktopSettings(config).doc) /\ IsDoc(credential_helper_contents)
      /\ DesktopSettings(config).doc["other"] # "user" /\ credential_helper_contents["other"] # "user"
      /\ \A n \in Settings : DesktopSettings(config).doc[n] # "user"
      /\ \A n \in Settings : Empty[n] # "user"
  BY DesktopDocuments DEF Settings, None
<1>5. /\ SafeRead(fs, write_owned("settings", DesktopSettings(config).doc, fs, l))
      /\ SafeRead(fs, write_owned("helper", credential_helper_contents, fs, l))
      /\ SafeRead(fs, remove_owned("settings", fs)) /\ SafeRead(fs, remove_owned("helper", fs))
  BY <1>1, <1>2, <1>4, Zenon
<1>6. SafeRead(fs, Policy(Empty, fs)) /\ SafeRead(fs, Policy(DesktopSettings(config).doc, fs))
  BY <1>3, <1>4, Zenon
<1>7. SafeRead(fs, IF uses_credential_helper(config)
                     THEN write_owned("helper", credential_helper_contents, fs, l)
                     ELSE remove_owned("helper", fs))
  BY <1>5, Zenon
<1>8. SafeRead(fs, PlanDesktop(config, fs, l, host.windows))
  BY <1>5, <1>6, <1>7, SafeReads, Zenon DEF PlanDesktop
<1> QED
  BY <1>8, SafeReads, Zenon DEF PlanFor, program

-----------------------------------------------------------------------------
(* Merged files: pi, copilot and the chat models of vscode *)

OpsOn(s, paths) ==
  IsList(s) /\ \A i \in 1 .. Len(s) : s[i].path \in paths /\ s[i].op # "registry"

LEMMA OnShort ==
  ASSUME NEW paths
  PROVE  /\ OpsOn(<< >>, paths)
         /\ \A o : o.path \in paths /\ o.op # "registry" => OpsOn(<<o>>, paths)
<1>1. OpsOn(<< >>, paths)
  BY NoOps DEF OpsOn
<1>2. ASSUME NEW o, o.path \in paths, o.op # "registry"
      PROVE  OpsOn(<<o>>, paths)
  BY <1>2, OneOp DEF OpsOn
<1> QED
  BY <1>1, <1>2, Zenon

LEMMA OnJoined ==
  ASSUME NEW paths, NEW a, NEW b, OpsOn(a, paths), OpsOn(b, paths)
  PROVE  OpsOn(a \o b, paths)
<1>1. IsList(a) /\ IsList(b)
  BY Zenon DEF OpsOn
<1>2. /\ IsList(a \o b)
      /\ \A i \in 1 .. Len(a \o b) :
              \/ i \in 1 .. Len(a) /\ (a \o b)[i] = a[i]
              \/ i - Len(a) \in 1 .. Len(b) /\ (a \o b)[i] = b[i - Len(a)]
  BY <1>1, Joined, Zenon
<1>3. ASSUME NEW i \in 1 .. Len(a \o b)
      PROVE  (a \o b)[i].path \in paths /\ (a \o b)[i].op # "registry"
  BY <1>2, Zenon DEF OpsOn
<1> QED
  BY <1>2, <1>3, Zenon DEF OpsOn

LEMMA MergedOn ==
  ASSUME NEW path, NEW p, NEW fs, NEW l, NEW removing
  PROVE  OpsOn(Merged(path, p, fs, l, removing).ops, {path, State(path)})
<1> DEFINE both  == {path, State(path)}
           same  == p.file = fs[path] /\ (removing \/ path \notin l)
           file  == IF same THEN << >>
                    ELSE IF p.file = Absent THEN <<Unlink(path, Absent)>>
                    ELSE IF removing THEN <<PutKeeping(path, p.file)>> ELSE <<Put(path, p.file)>>
           state == IF removing
                      THEN IF fs[State(path)].present /\ ~p.sidecar.present
                             THEN <<Unlink(State(path), NoState)>> ELSE << >>
                      ELSE <<Put(State(path), p.sidecar)>>
<1>1. ASSUME NEW q, NEW x
      PROVE  /\ Put(q, x).path = q /\ Put(q, x).op # "registry"
             /\ PutKeeping(q, x).path = q /\ PutKeeping(q, x).op # "registry"
             /\ Unlink(q, x).path = q /\ Unlink(q, x).op # "registry"
  BY DEF Put, PutKeeping, Unlink
<1>2. ASSUME NEW S, NEW q \in S, NEW x
      PROVE  OpsOn(<<Put(q, x)>>, S) /\ OpsOn(<<PutKeeping(q, x)>>, S) /\ OpsOn(<<Unlink(q, x)>>, S)
  <2>1. ASSUME NEW o, o.path = q, o.op # "registry"
        PROVE  OpsOn(<<o>>, S)
    BY <1>2, <2>1, OnShort, Zenon
  <2> QED
    BY <1>1, <2>1, Zenon
<1>3. path \in both /\ State(path) \in both
  BY Zenon
<1>4. Merged(path, p, fs, l, removing) = Piece(p.verdict, IF p.verdict = "ok" THEN file \o state ELSE << >>, both)
  BY Zenon DEF Merged
<1> HIDE DEF both
<1>5. OpsOn(file, both) /\ OpsOn(state, both)
  BY <1>2, <1>3, OnShort, Zenon
<1> HIDE DEF file, state
<1>6. OpsOn(IF p.verdict = "ok" THEN file \o state ELSE << >>, both)
  BY <1>5, OnShort, OnJoined, Zenon
<1>7. ASSUME NEW s
      PROVE  Piece(p.verdict, s, both).ops = s
  BY DEF Piece
<1>8. Merged(path, p, fs, l, removing).ops = IF p.verdict = "ok" THEN file \o state ELSE << >>
  BY <1>4, <1>7
<1> QED
  BY <1>6, <1>8, Zenon DEF both

LEMMA EntriesOn ==
  ASSUME NEW path, NEW c, NEW fs, NEW l, NEW x
  PROVE  /\ OpsOn(RemoveEntries(path, fs, x).ops, {path, State(path)})
         /\ OpsOn(PlanEntries(path, c, fs, l, x).ops, {path, State(path)})
         /\ gateway(c) /\ x = None /\ fail_closed_without_proxy(c) =>
              PlanEntries(path, c, fs, l, x).ops = << >>
<1>1. \A v, r : OpsOn(Piece(v, << >>, r).ops, {path, State(path)})
  BY OnShort, Pieces
<1>2. \A y : OpsOn(RemoveEntries(path, fs, y).ops, {path, State(path)})
  BY <1>1, MergedOn, Zenon DEF RemoveEntries, TakeOut
<1>3. OpsOn(PlanEntries(path, c, fs, l, x).ops, {path, State(path)})
  BY <1>1, <1>2, MergedOn, Zenon DEF PlanEntries, MergeInto
<1>4. gateway(c) /\ x = None /\ fail_closed_without_proxy(c) =>
        PlanEntries(path, c, fs, l, x).ops = << >>
  BY Zenon DEF PlanEntries, Piece
<1> QED
  BY <1>2, <1>3, <1>4, Zenon

LEMMA NothingSafe ==
  SafeOps(Nothing.ops) /\ \A v, r : SafeOps(Piece(v, << >>, r).ops)
<1>1. Nothing.ops = << >> /\ \A v, r : Piece(v, << >>, r).ops = << >>
  BY DEF Nothing, Piece
<1> QED
  BY <1>1, SafeShort, Zenon

LEMMA MergedPlans ==
  ASSUME Typed, Mine, program \in {"pi", "copilot"}, NEW fs, NEW l
  PROVE  SafeOps(PlanFor(host, config, fs, l, proxy).ops)
<1>1. Whole = {}
  BY DEF Whole
<1>2. ASSUME NEW o, o.op # "registry", o.path # "policy", ~FailsClosed
      PROVE  SafeOp(o)
  BY <1>1, <1>2, Zenon DEF SafeOp, WholeSafe, PolicySafe, RouteSafe
<1>3. ASSUME NEW s, NEW path \in {"models", "settings", "providers"}, OpsOn(s, {path, State(path)}), ~FailsClosed
      PROVE  SafeOps(s)
  <2>1. State(path) # "policy" /\ path # "policy"
    BY DEF State
  <2> QED
    BY <1>2, <1>3, <2>1, Zenon DEF OpsOn, SafeOps
<1>4. CASE program = "pi"
  <2>1. ~FailsClosed
    BY <1>4, Zenon DEF FailsClosed
  <2>2. ASSUME NEW path \in {"models", "settings"}, NEW d, NEW m
        PROVE  /\ SafeOps(Unless(m, MergeInto("merge", path, d, fs, l)).ops)
               /\ SafeOps(TakeOut("merge", path, fs).ops)
    <3>1. SafeOps(MergeInto("merge", path, d, fs, l).ops) /\ SafeOps(TakeOut("merge", path, fs).ops)
      BY <1>3, <2>1, MergedOn, Zenon DEF MergeInto, TakeOut
    <3> QED
      BY <3>1, NothingSafe, Zenon DEF Unless
  <2>3. SafeOps(PlanPi(config, fs, l).ops) /\ SafeOps(Nothing.ops)
    BY <2>2, ThenSafe, NothingSafe, Zenon DEF PlanPi
  <2> QED
    BY <1>4, <2>3, Zenon DEF PlanFor, program
<1>5. CASE program = "copilot"
  <2>1. SafeOps(PlanEntries("providers", config, fs, l, proxy).ops)
    <3>1. CASE FailsClosed
      BY <3>1, EntriesOn, SafeShort, Zenon DEF FailsClosed
    <3>2. CASE ~FailsClosed
      BY <3>2, <1>3, EntriesOn, Zenon
    <3> QED
      BY <3>1, <3>2, Zenon
  <2> QED
    BY <1>5, <2>1, NothingSafe, Zenon DEF PlanFor, PlanCopilot, program
<1> QED
  BY <1>4, <1>5, Zenon

-----------------------------------------------------------------------------
(* VS Code's settings.json *)

LEMMA SidecarForms ==
  ASSUME NEW s, IsSidecar(s), s # V!BadSidecar
  PROVE  /\ Known(s) \/ s = V!NoSidecar
         /\ Known(s) => /\ V!read_state(s).form = "v2" /\ V!read_state(s) # V!NoSidecar
                        /\ V!read_state(s).added_ignored \subseteq V!Ours
                        /\ V!read_state(s).override_before \notin V!CapiUrls
                        /\ s # V!NoSidecar
         /\ s = V!NoSidecar => V!read_state(s) = s /\ s.form = "none" /\ ~Known(s)
<1>1. Known(s) \/ s = V!NoSidecar
  BY Zenon DEF IsSidecar
<1>2. s = V!NoSidecar => V!read_state(s) = s /\ s.form = "none" /\ ~Known(s)
  BY DEF V!NoSidecar, V!read_state, Known
<1>3. V!NoSidecar.form = "none"
  BY DEF V!NoSidecar
<1>4. ASSUME Known(s)
      PROVE  /\ V!read_state(s).form = "v2" /\ V!read_state(s) # V!NoSidecar
             /\ V!read_state(s).added_ignored \subseteq V!Ours
             /\ V!read_state(s).override_before \notin V!CapiUrls
             /\ s # V!NoSidecar
  <2>1. CASE s.form = "v2"
    BY <1>3, <1>4, <2>1 DEF V!read_state, Known
  <2>2. CASE s.form = "legacy"
    <3>1. /\ V!read_state(s).form = "v2"
          /\ V!read_state(s).added_ignored = V!Ours \ s.before.ignored.entries
      BY <2>2 DEF V!read_state
    <3> QED
      BY <1>3, <1>4, <2>2, <3>1 DEF Known
  <2> QED
    BY <1>4, <2>1, <2>2, Zenon DEF Known
<1> QED
  BY <1>1, <1>2, <1>4, Zenon

\* The state in which an apply of settings.json is planned.
Settling ==
  /\ Typed /\ Mine /\ program = "vscode" /\ disk["settings.state"] # V!BadSidecar

LEMMA SettlingFacts ==
  ASSUME Settling
  PROVE  LET f == disk["settings"]
             s == disk["settings.state"]
         IN  /\ IsSettings(f) /\ SameRest(f) /\ IsSidecar(s)
             /\ s = V!NoSidecar => Restored(f)
             /\ Known(s) => Owns(V!read_state(s).override_before)
BY Zenon DEF Settling, Typed, OnDisk, Mine, MineSettings

LEMMA Recorded ==
  ASSUME Settling, NEW url \in V!CapiUrls, disk["settings"].kind \in {"absent", "object"}
  PROVE  LET next == V!edit_settings(disk["settings"], url, V!read_state(disk["settings.state"]))
         IN  /\ Known(next.state) /\ Owns(V!read_state(next.state).override_before)
             /\ IsSettings(next.file) /\ SameRest(next.file)
<1> DEFINE f == disk["settings"]
           s == disk["settings.state"]
           r == V!read_state(s)
           next == V!edit_settings(f, url, r)
<1>1. /\ IsSettings(f) /\ SameRest(f) /\ IsSidecar(s) /\ s # V!BadSidecar
      /\ s = V!NoSidecar => Restored(f)
      /\ Known(s) => Owns(V!read_state(s).override_before)
  BY SettlingFacts, Zenon DEF Settling
<1>2. /\ next.file = [kind |-> "object", override |-> url, other |-> f.other,
                      ignored |-> [present |-> TRUE, entries |-> f.ignored.entries \cup V!Ours]]
  BY Zenon DEF V!edit_settings
<1>3. next.state.form = "v2"
  BY Zenon DEF V!edit_settings
<1>4. r.form = "v2" => /\ next.state.override_before = r.override_before
                       /\ next.state.added_ignored = r.added_ignored \cup (V!Ours \ f.ignored.entries)
  BY Zenon DEF V!edit_settings
<1>5. r.form # "v2" => /\ next.state.override_before = IF f.override \in V!CapiUrls THEN "none" ELSE f.override
                       /\ next.state.added_ignored \subseteq V!Ours
  BY Zenon DEF V!edit_settings, V!is_daemon_capi_url, V!NoOverride
<1> HIDE DEF f, s, next
<1>6. V!read_state(next.state) = next.state
  BY <1>3 DEF V!read_state
<1>7. "user" \notin V!Ours /\ "none" \notin V!CapiUrls
  BY DEF V!Ours, V!CapiUrls
<1>8. IsSettings(next.file)
  <2>1. /\ next.file.kind = "object"
        /\ next.file.ignored = [present |-> TRUE, entries |-> f.ignored.entries \cup V!Ours]
    BY <1>2
  <2> QED
    BY <1>2, <2>1, Zenon DEF IsSettings
<1>9. SameRest(next.file)
  <2>1. /\ next.file.kind = "object" /\ next.file.other = f.other
        /\ next.file.ignored.entries = f.ignored.entries \cup V!Ours
    BY <1>2
  <2> QED
    BY <1>1, <1>7, <2>1 DEF SameRest
<1>10. Known(next.state) /\ Owns(next.state.override_before)
  <2>1. CASE Known(s)
    <3>1. r.form = "v2" /\ r.added_ignored \subseteq V!Ours /\ r.override_before \notin V!CapiUrls
      BY <1>1, <2>1, SidecarForms, Zenon
    <3>2. next.state.added_ignored \subseteq V!Ours
      BY <1>4, <3>1
    <3> QED
      BY <1>1, <1>3, <1>4, <1>6, <2>1, <3>1, <3>2, Zenon DEF Known
  <2>2. CASE s = V!NoSidecar
    <3>1. r.form # "v2" /\ Restored(f)
      BY <1>1, <2>2, SidecarForms
    <3>2. next.state.override_before \notin V!CapiUrls /\ Owns(next.state.override_before)
      BY <1>5, <1>7, <3>1, Zenon DEF Restored
    <3> QED
      BY <1>3, <1>5, <1>6, <3>1, <3>2, Zenon DEF Known
  <2> QED
    BY <1>1, <2>1, <2>2, SidecarForms, Zenon
<1> QED
  BY <1>6, <1>8, <1>9, <1>10, Zenon DEF next, f, s

LEMMA Rolled ==
  ASSUME Settling, Known(disk["settings.state"]) => disk["settings"].kind # "invalid"
  PROVE  LET rest == V!remove_settings(disk["settings"], V!read_state(disk["settings.state"]))
         IN  IsSettings(rest) /\ SameRest(rest) /\ Restored(rest)
<1> DEFINE f == disk["settings"]
           s == disk["settings.state"]
           r == V!read_state(s)
           known == r.form = "v2"
           entries == f.ignored.entries \ (IF known THEN r.added_ignored ELSE V!Ours)
           dropped == f.ignored.present /\ entries = {} /\ (known => r.ignored_created)
           list == IF dropped THEN V!NoList ELSE [f.ignored EXCEPT !.entries = entries]
           before == IF known THEN r.override_before ELSE "none"
           file == [kind |-> "object", override |-> before, ignored |-> list, other |-> f.other]
           rest == V!remove_settings(f, r)
<1>1. /\ IsSettings(f) /\ SameRest(f) /\ IsSidecar(s) /\ s # V!BadSidecar
      /\ s = V!NoSidecar => Restored(f)
      /\ Known(s) => Owns(V!read_state(s).override_before)
      /\ Known(s) => f.kind # "invalid"
  BY SettlingFacts, Zenon DEF Settling
<1>2. known <=> Known(s)
  BY <1>1, SidecarForms
<1>3. f.kind \in {"absent", "object", "invalid"}
  BY <1>1, Zenon DEF IsSettings
<1>4. \/ rest = f /\ (Known(s) => f.kind = "absent")
      \/ rest = V!NoFile /\ Known(s) /\ file = V!Bare("object")
      \/ rest = file /\ (Known(s) \/ f.override \in V!CapiUrls)
  <2>1. \/ rest = f /\ (known => f.kind = "absent")
        \/ rest = V!NoFile /\ known /\ file = V!Bare("object")
        \/ rest = file /\ (known \/ f.override \in V!CapiUrls)
    BY <1>3 DEF V!remove_settings, V!is_daemon_capi_url, V!NoOverride
  <2> QED
    BY <1>2, <2>1, ZenonT(30)
<1>5. Known(s) => r.added_ignored \subseteq V!Ours /\ r.override_before \notin V!CapiUrls
  BY <1>1, SidecarForms, Zenon
<1>6. "user" \notin V!Ours /\ "none" \notin V!CapiUrls
  BY DEF V!Ours, V!CapiUrls
<1>7. /\ list = [present |-> list.present, entries |-> list.entries]
      /\ "user" \in list.entries <=> "user" \in f.ignored.entries
  <2>1. "user" \in entries <=> "user" \in f.ignored.entries
    BY <1>2, <1>5, <1>6
  <2>2. f.ignored = [present |-> f.ignored.present, entries |-> f.ignored.entries]
    BY <1>1, Zenon DEF IsSettings
  <2> HIDE DEF entries, f, known
  <2>3. CASE dropped
    <3>1. list = V!NoList /\ entries = {}
      BY <2>3
    <3> QED
      BY <3>1, <2>1, Zenon DEF V!NoList
  <2>4. CASE ~dropped
    <3>1. list = [f.ignored EXCEPT !.entries = entries]
      BY <2>4
    <3> QED
      BY <3>1, <2>1, <2>2
  <2> QED
    BY <2>3, <2>4
<1>8. Known(s) \/ f.override \in V!CapiUrls => Owns(before) /\ before \notin V!CapiUrls
  <2>1. CASE Known(s)
    BY <1>1, <1>2, <1>5, <2>1, Zenon
  <2>2. CASE ~Known(s) /\ f.override \in V!CapiUrls
    BY <1>1, <1>2, <1>6, <2>2, SidecarForms, Zenon DEF Restored
  <2> QED
    BY <2>1, <2>2, Zenon
<1> HIDE DEF list, before, f, s, rest
<1>9. /\ file.kind = "object" /\ file.override = before /\ file.ignored = list /\ file.other = f.other
  OBVIOUS
<1>10. CASE rest = f /\ (Known(s) => f.kind = "absent")
  <2>1. Restored(f)
    <3>1. CASE Known(s)
      <4>1. Owns("none") /\ f = V!NoFile
        BY <1>1, <1>10, <3>1, Zenon DEF SameRest, IsSettings
      <4>2. f.override = "none"
        BY <4>1 DEF V!NoFile, V!Bare, V!NoOverride
      <4> QED
        BY <1>6, <4>1, <4>2, Zenon DEF Restored
    <3>2. CASE ~Known(s)
      BY <1>1, <3>2, SidecarForms, Zenon
    <3> QED
      BY <3>1, <3>2, Zenon
  <2> QED
    BY <1>1, <1>10, <2>1, Zenon DEF rest, f, s
<1>11. CASE rest = file /\ (Known(s) \/ f.override \in V!CapiUrls)
  <2>1. IsSettings(file)
    BY <1>7, <1>9, SMTT(30) DEF IsSettings
  <2>2. SameRest(file)
    <3>1. ("user" \in file.ignored.entries) = ("user" \in f.ignored.entries)
      BY <1>7, <1>9
    <3> QED
      BY <1>1, <1>9, <3>1 DEF SameRest
  <2>3. Restored(file)
    BY <1>8, <1>9, <1>11, Zenon DEF Restored
  <2> QED
    BY <1>11, <2>1, <2>2, <2>3, Zenon DEF rest, f, s
<1>12. CASE rest = V!NoFile /\ Known(s) /\ file = V!Bare("object")
  <2>1. /\ V!NoFile = [kind |-> "absent", override |-> "none", other |-> FALSE,
                       ignored |-> [present |-> FALSE, entries |-> {}]]
        /\ V!Bare("object") = [kind |-> "object", override |-> "none", other |-> FALSE,
                               ignored |-> [present |-> FALSE, entries |-> {}]]
    BY DEF V!NoFile, V!Bare, V!NoOverride, V!NoList
  <2>2. before = "none" /\ f.other = FALSE /\ list.entries = {}
    BY <1>9, <1>12, <2>1
  <2>3. Owns("none")
    BY <1>8, <1>12, <2>2, Zenon
  <2>4. IsSettings(V!NoFile)
    BY <2>1 DEF IsSettings
  <2>5. SameRest(V!NoFile)
    <3>1. ("user" \in V!NoFile.ignored.entries) = ("user" \in f.ignored.entries)
      BY <1>7, <2>1, <2>2
    <3>2. V!NoFile.other = FALSE
      BY <2>1
    <3> QED
      BY <1>1, <2>2, <2>3, <3>1, <3>2, Zenon DEF SameRest
  <2>6. Restored(V!NoFile)
    BY <1>6, <2>1, <2>3 DEF Restored
  <2> QED
    BY <1>12, <2>4, <2>5, <2>6, Zenon DEF rest, f, s
<1> QED
  BY <1>4, <1>10, <1>11, <1>12, Zenon DEF rest, f, s

SafeSettings(s) == IsList(s) /\ \A i \in 1 .. Len(s) : SafeOp(s[i]) /\ SettingsSafe(s, 0, i)
OnSettings(o) == o.path \in {"settings", "settings.state"} /\ o.op # "registry"
RouteElsewhere == program = "vscode" /\ (FailsClosed => config.copilot_chat # "githubModels")

LEMMA SettingsOp ==
  ASSUME RouteElsewhere, NEW o, OnSettings(o)
  PROVE  SafeOp(o)
<1>1. Whole = {} /\ Entries = {"chat"}
  BY DEF RouteElsewhere, Whole, Entries
<1>2. FailsClosed => Route = {"chat"}
  BY <1>1, Zenon DEF RouteElsewhere, Route
<1> QED
  BY <1>1, <1>2 DEF SafeOp, WholeSafe, PolicySafe, RouteSafe, OnSettings

LEMMA SettingsOne ==
  ASSUME RouteElsewhere, NEW s, IsList(s), Len(s) = 1, OnSettings(s[1]),
         \/ Writes(s[1]) /\ (Restored(s[1].to) \/ disk["settings.state"] # V!NoSidecar)
         \/ Records(s[1])
         \/ Forgets(s[1]) /\ Restored(disk["settings"])
  PROVE  SafeSettings(s)
<1>1. Writes(s[1]) => s[1].path # "settings.state"
  BY DEF Writes
<1>2. Records(s[1]) \/ Forgets(s[1]) => s[1].path # "settings"
  BY DEF Records, Forgets
<1>3. SettingsSafe(s, 0, 1)
  BY <1>1, <1>2 DEF SettingsSafe
<1>4. \A i \in 1 .. Len(s) : i = 1
  OBVIOUS
<1> QED
  BY <1>3, <1>4, SettingsOp, Zenon DEF SafeSettings

LEMMA SettingsTwo ==
  ASSUME RouteElsewhere, NEW s, IsList(s), Len(s) = 2, OnSettings(s[1]), OnSettings(s[2]),
         \/ Records(s[1]) /\ Writes(s[2])
         \/ Writes(s[1]) /\ Restored(s[1].to) /\ Forgets(s[2])
  PROVE  SafeSettings(s)
<1>1. \A i \in {1, 2} : Writes(s[i]) => s[i].path # "settings.state"
  BY DEF Writes
<1>2. \A i \in {1, 2} : Records(s[i]) \/ Forgets(s[i]) => s[i].path # "settings"
  BY DEF Records, Forgets
<1>3. SettingsSafe(s, 0, 1)
  BY <1>1, <1>2, Zenon DEF SettingsSafe
<1>4. SettingsSafe(s, 0, 2)
  <2>1. 2 - 1 = 1 /\ 2 > 0 + 1
    OBVIOUS
  <2> QED
    BY <1>1, <1>2, <2>1, Zenon DEF SettingsSafe
<1>5. \A i \in 1 .. Len(s) : i = 1 \/ i = 2
  OBVIOUS
<1> QED
  BY <1>3, <1>4, <1>5, SettingsOp, Zenon DEF SafeSettings

LEMMA SettingsNone == SafeSettings(<< >>)
BY NoOps DEF SafeSettings

LEMMA EditSettingsSafe ==
  ASSUME Typed, Mine, RouteElsewhere, NEW fs, NEW l, NEW x,
         Agrees(fs, EditSettings(fs, l, x).reads)
  PROVE  SafeSettings(EditSettings(fs, l, x).ops)
<1> DEFINE f     == disk["settings"]
           s     == V!read_state(disk["settings.state"])
           next  == V!edit_settings(f, override_url(x), s)
           record == Put("settings.state", next.state)
           write == Put("settings", next.file)
           state == IF next.state = disk["settings.state"] THEN << >> ELSE <<record>>
           file  == IF next.file = f /\ "settings" \notin l THEN << >> ELSE <<write>>
<1>1. EditSettings(fs, l, x).reads = {"settings", "settings.state"}
  BY Zenon DEF EditSettings, Piece
<1>2. fs["settings"] = f /\ fs["settings.state"] = disk["settings.state"]
  BY <1>1, ReadWhole, Zenon DEF Agrees
<1>3. \/ EditSettings(fs, l, x).ops = << >>
      \/ /\ EditSettings(fs, l, x).ops = state \o file
         /\ s # V!BadSidecar /\ f.kind \notin {"unreadable", "invalid"}
  BY <1>2, Zenon DEF EditSettings, Piece
<1>4. CASE /\ EditSettings(fs, l, x).ops = state \o file
           /\ s # V!BadSidecar /\ f.kind \notin {"unreadable", "invalid"}
  <2>1. disk["settings.state"] # V!BadSidecar
    <3>1. V!read_state(V!BadSidecar) = V!BadSidecar
      BY DEF V!read_state, V!BadSidecar
    <3> QED
      BY <1>4, <3>1, Zenon
  <2>2. Settling /\ f.kind \in {"absent", "object"}
    <3>1. Settling
      BY <2>1, Zenon DEF Settling, RouteElsewhere
    <3>2. f.kind \in {"absent", "object", "invalid"}
      BY <3>1, SettlingFacts, Zenon DEF IsSettings
    <3> QED
      BY <1>4, <3>1, <3>2, Zenon
  <2>3. override_url(x) \in V!CapiUrls
    BY Zenon DEF override_url, V!CapiUrls
  <2>4. /\ Known(next.state) /\ Owns(V!read_state(next.state).override_before)
        /\ IsSettings(next.file) /\ SameRest(next.file)
    BY <2>2, <2>3, Recorded, Zenon
  <2> HIDE DEF next
  <2>5. /\ record.path = "settings.state" /\ record.to = next.state /\ record.op # "registry"
        /\ write.path = "settings" /\ write.to = next.file /\ write.op # "registry"
    BY DEF Put
  <2>6. Records(record) /\ Writes(write) /\ OnSettings(record) /\ OnSettings(write)
    BY <2>4, <2>5, Zenon DEF Records, Writes, OnSettings
  <2>7. next.state = disk["settings.state"] => disk["settings.state"] # V!NoSidecar
    BY <2>4 DEF Known, V!NoSidecar
  <2> HIDE DEF record, write
  <2>8. \/ state \o file = << >> \o << >> \/ state \o file = <<record>> \o << >>
        \/ state \o file = <<record>> \o <<write>>
        \/ state \o file = << >> \o <<write>> /\ disk["settings.state"] # V!NoSidecar
    BY <2>7, Zenon
  <2>9. SafeSettings(<< >> \o << >>)
    BY Joins, NoOps DEF SafeSettings
  <2>10. SafeSettings(<<record>> \o <<write>>)
    <3>1. \A z : /\ IsList(<<record>> \o <<z>>) /\ Len(<<record>> \o <<z>>) = 2
                 /\ (<<record>> \o <<z>>)[1] = record /\ (<<record>> \o <<z>>)[2] = z
      BY Joins, Zenon
    <3> QED
      BY <2>6, <3>1, SettingsTwo, Zenon
  <2>11. SafeSettings(<<record>> \o << >>)
    <3>1. /\ IsList(<<record>> \o << >>) /\ Len(<<record>> \o << >>) = 1
          /\ (<<record>> \o << >>)[1] = record
      BY NoOps, OneOp, Joined, SMTT(30)
    <3> QED
      BY <2>6, <3>1, SettingsOne
  <2>12. disk["settings.state"] # V!NoSidecar => SafeSettings(<< >> \o <<write>>)
    <3>1. /\ IsList(<< >> \o <<write>>) /\ Len(<< >> \o <<write>>) = 1
          /\ (<< >> \o <<write>>)[1] = write
      BY NoOps, OneOp, Joins
    <3> QED
      BY <2>6, <3>1, SettingsOne
  <2> HIDE DEF state, file
  <2>13. SafeSettings(state \o file)
    BY <2>8, <2>9, <2>10, <2>11, <2>12, Zenon
  <2> QED
    BY <1>4, <2>13, Zenon
<1> QED
  BY <1>3, <1>4, SettingsNone, Zenon

LEMMA RemoveSettingsSafe ==
  ASSUME Typed, Mine, RouteElsewhere, NEW fs, OnDisk(fs), Agrees(fs, RemoveSettings(fs).reads)
  PROVE  SafeSettings(RemoveSettings(fs).ops)
<1> DEFINE f     == disk["settings"]
           s     == V!read_state(disk["settings.state"])
           rest  == V!remove_settings(f, s)
           forget == Unlink("settings.state", V!NoSidecar)
           delete == Unlink("settings", V!NoFile)
           write == PutKeeping("settings", rest)
           file  == IF rest = f THEN << >> ELSE IF rest = V!NoFile THEN <<delete>> ELSE <<write>>
           state == IF s # V!NoSidecar THEN <<forget>> ELSE << >>
<1>1. \/ RemoveSettings(fs).ops = << >>
      \/ RemoveSettings(fs).reads = {"settings", "settings.state"}
  BY Zenon DEF RemoveSettings, Piece
<1>2. CASE RemoveSettings(fs).reads = {"settings", "settings.state"}
  <2>1. fs["settings"] = f /\ fs["settings.state"] = disk["settings.state"]
    BY <1>2, ReadWhole, Zenon DEF Agrees
  <2>2. \/ RemoveSettings(fs).ops = << >>
        \/ /\ RemoveSettings(fs).ops = file \o state
           /\ s # V!BadSidecar /\ (s # V!NoSidecar => f.kind # "invalid")
    BY <2>1, Zenon DEF RemoveSettings, Piece
  <2>3. CASE /\ RemoveSettings(fs).ops = file \o state
             /\ s # V!BadSidecar /\ (s # V!NoSidecar => f.kind # "invalid")
    <3>1. disk["settings.state"] # V!BadSidecar
      <4>1. V!read_state(V!BadSidecar) = V!BadSidecar
        BY DEF V!read_state, V!BadSidecar
      <4> QED
        BY <2>3, <4>1, Zenon
    <3>2. Settling
      BY <3>1, Zenon DEF Settling, RouteElsewhere
    <3>3. Known(disk["settings.state"]) => f.kind # "invalid"
      BY <2>3, <3>1, <3>2, SettlingFacts, SidecarForms, Zenon
    <3>4. IsSettings(rest) /\ SameRest(rest) /\ Restored(rest)
      BY <3>2, <3>3, Rolled, Zenon
    <3> HIDE DEF rest
    <3>5. /\ forget.path = "settings.state" /\ forget.to = V!NoSidecar /\ forget.op # "registry"
          /\ delete.path = "settings" /\ delete.to = V!NoFile /\ delete.op # "registry"
          /\ write.path = "settings" /\ write.to = rest /\ write.op # "registry"
      BY DEF Unlink, PutKeeping
    <3>6. /\ OnSettings(forget) /\ Forgets(forget) /\ OnSettings(write) /\ Writes(write) /\ Restored(write.to)
          /\ rest = V!NoFile => OnSettings(delete) /\ Writes(delete) /\ Restored(delete.to)
      BY <3>4, <3>5, Zenon DEF Forgets, Writes, OnSettings
    <3> DEFINE w == IF rest = V!NoFile THEN delete ELSE write
    <3>7. OnSettings(w) /\ Writes(w) /\ Restored(w.to)
      BY <3>6, Zenon
    <3>8. rest = f => Restored(f)
      BY <3>4, Zenon
    <3>9. \/ file = << >> /\ Restored(f)
          \/ file = <<w>>
      BY <3>8, Zenon
    <3>10. state = << >> \/ state = <<forget>>
      BY Zenon
    <3> HIDE DEF w, forget, file, state, f
    <3>11. SafeSettings(<< >> \o << >>)
      BY Joins, NoOps DEF SafeSettings
    <3>12. SafeSettings(<<w>> \o <<forget>>)
      <4>1. /\ IsList(<<w>> \o <<forget>>) /\ Len(<<w>> \o <<forget>>) = 2
            /\ (<<w>> \o <<forget>>)[1] = w /\ (<<w>> \o <<forget>>)[2] = forget
        BY Joins, Zenon
      <4> QED
        BY <3>6, <3>7, <4>1, SettingsTwo, Zenon
    <3>13. SafeSettings(<<w>> \o << >>)
      <4>1. IsList(<<w>> \o << >>) /\ Len(<<w>> \o << >>) = 1 /\ (<<w>> \o << >>)[1] = w
        BY NoOps, OneOp, Joined, SMTT(30)
      <4> QED
        BY <3>7, <4>1, SettingsOne, SMTT(30)
    <3>14. Restored(f) => SafeSettings(<< >> \o <<forget>>)
      <4>1. /\ IsList(<< >> \o <<forget>>) /\ Len(<< >> \o <<forget>>) = 1
            /\ (<< >> \o <<forget>>)[1] = forget
        BY NoOps, OneOp, Joins
      <4> QED
        BY <3>6, <4>1, SettingsOne DEF f
    <3>15. SafeSettings(file \o state)
      BY <3>9, <3>10, <3>11, <3>12, <3>13, <3>14, Zenon
    <3> QED
      BY <2>3, <3>15, Zenon
  <2> QED
    BY <2>2, <2>3, SettingsNone, Zenon
<1> QED
  BY <1>1, <1>2, SettingsNone, Zenon

LEMMA PlanSettingsSafe ==
  ASSUME Typed, Mine, program = "vscode", NEW fs, NEW l, OnDisk(fs),
         Agrees(fs, PlanSettings(config, fs, l, proxy).reads)
  PROVE  SafeSettings(PlanSettings(config, fs, l, proxy).ops)
<1> DEFINE p == PlanSettings(config, fs, l, proxy)
<1>1. CASE FailsClosed /\ config.copilot_chat = "githubModels"
  <2>1. config.gateway.proxy_url
    <3>1. gateway(config) /\ NotConfigured.use_llm_gateway = FALSE
      BY <1>1 DEF FailsClosed, NotConfigured
    <3>2. config # NotConfigured
      BY <3>1, Zenon DEF gateway
    <3>3. ValidVsCode(config)
      BY <3>2, Zenon DEF Typed, Configured, validate_daemon
    <3> QED
      BY <1>1, <3>1, <3>3, Zenon DEF ValidVsCode
  <2>2. p.ops = << >>
    BY <1>1, <2>1, Zenon DEF FailsClosed, PlanSettings, Piece
  <2> QED
    BY <2>2, SettingsNone, Zenon
<1>2. CASE ~(FailsClosed /\ config.copilot_chat = "githubModels")
  <2>1. RouteElsewhere
    BY <1>2, Zenon DEF RouteElsewhere
  <2>2. \/ p = RemoveSettings(fs) \/ p = EditSettings(fs, l, proxy) \/ p = Piece("ok", << >>, {"settings"})
    BY Zenon DEF PlanSettings
  <2>3. Piece("ok", << >>, {"settings"}).ops = << >>
    BY DEF Piece
  <2> HIDE DEF p
  <2>4. SafeSettings(p.ops)
    BY <2>1, <2>2, <2>3, EditSettingsSafe, RemoveSettingsSafe, SettingsNone, Zenon DEF p
  <2> QED
    BY <2>4, Zenon DEF p
<1> QED
  BY <1>1, <1>2, Zenon

\* The operations on the chat models come first.
LEMMA ChatThenSettings ==
  ASSUME Typed, program = "vscode", NEW a, NEW b, OpsOn(a, {"chat", "chat.state"}), SafeSettings(b),
         FailsClosed => config.copilot_chat = "githubModels" \/ a = << >>
  PROVE  IsList(a \o b) /\ Safe(a \o b, 0)
<1> DEFINE s == a \o b
<1>1. IsList(a) /\ IsList(b) /\ Len(a) \in Nat /\ Len(b) \in Nat
  BY ListLength, Zenon DEF OpsOn, SafeSettings
<1>2. /\ IsList(s) /\ Len(s) = Len(a) + Len(b)
      /\ \A i \in 1 .. Len(a) : s[i] = a[i]
      /\ \A i \in 1 .. Len(b) : s[Len(a) + i] = b[i]
  <2>1. IsList(s) /\ Len(s) = Len(a) + Len(b)
    BY <1>1, Joined, Zenon
  <2>2. \A i \in 1 .. Len(a) : s[i] = a[i]
    BY <1>1, JoinedHead
  <2>3. \A i \in 1 .. Len(b) : s[Len(a) + i] = b[i]
    BY <1>1, JoinedTail, SMTT(30)
  <2> QED
    BY <2>1, <2>2, <2>3, Zenon
<1> HIDE DEF s
<1>3. ASSUME NEW i \in 1 .. Len(a)
      PROVE  SafeOp(s[i]) /\ SettingsSafe(s, 0, i)
  <2>1. s[i].path \in {"chat", "chat.state"} /\ s[i].op # "registry"
    BY <1>2, Zenon DEF OpsOn
  <2>2. a # << >>
    BY <1>1, NoOps
  <2>3. FailsClosed => Route = {"settings"}
    BY <2>2, Zenon DEF Route
  <2>4. Whole = {}
    BY DEF Whole
  <2> QED
    BY <2>1, <2>3, <2>4 DEF SafeOp, WholeSafe, PolicySafe, RouteSafe, SettingsSafe
<1>4. ASSUME NEW k \in 1 .. Len(b)
      PROVE  SafeOp(s[Len(a) + k]) /\ SettingsSafe(s, 0, Len(a) + k)
  <2> DEFINE i == Len(a) + k
  <2>1. s[i] = b[k] /\ (k > 0 + 1 => s[i - 1] = b[k - 1] /\ i > 0 + 1) /\ (k = Len(b) => i = Len(s))
    <3>1. s[i] = b[k] /\ (k = Len(b) => i = Len(s))
      BY <1>1, <1>2, Zenon
    <3>2. k > 0 + 1 => s[i - 1] = b[k - 1] /\ i > 0 + 1
      <4> HAVE k > 0 + 1
      <4>1. k - 1 \in 1 .. Len(b) /\ Len(a) + (k - 1) = i - 1 /\ i > 0 + 1
        BY <1>1
      <4> QED
        BY <1>2, <4>1
    <3> QED
      BY <3>1, <3>2, Zenon
  <2>2. SafeOp(b[k]) /\ SettingsSafe(b, 0, k)
    BY Zenon DEF SafeSettings
  <2>3. ASSUME \A j \in 0 + 1 .. k - 1 : b[j].path # "settings", NEW j \in 0 + 1 .. i - 1
        PROVE  s[j].path # "settings"
    <3>1. CASE j \in 1 .. Len(a)
      <4>1. s[j].path \in {"chat", "chat.state"}
        BY <3>1, <1>2, Zenon DEF OpsOn
      <4> QED
        BY <4>1
    <3>2. CASE j \notin 1 .. Len(a)
      <4>1. j - Len(a) \in 0 + 1 .. k - 1 /\ j - Len(a) \in 1 .. Len(b) /\ Len(a) + (j - Len(a)) = j
        BY <3>2, <1>1
      <4>2. s[j] = b[j - Len(a)]
        BY <4>1, <1>2
      <4> QED
        BY <2>3, <4>1, <4>2, Zenon
    <3> QED
      BY <3>1, <3>2, Zenon
  <2> HIDE DEF i
  <2>4. SettingsSafe(s, 0, i)
    BY <2>1, <2>2, <2>3, Zenon DEF SettingsSafe
  <2> QED
    BY <2>1, <2>2, <2>4, Zenon DEF i
<1>5. ASSUME NEW i \in 1 .. Len(s)
      PROVE  SafeOp(s[i]) /\ SettingsSafe(s, 0, i)
  <2>1. CASE i \in 1 .. Len(a)
    BY <2>1, <1>3, Zenon
  <2>2. CASE i \notin 1 .. Len(a)
    <3>1. i - Len(a) \in 1 .. Len(b) /\ Len(a) + (i - Len(a)) = i
      BY <2>2, <1>1, <1>2
    <3> QED
      BY <3>1, <1>4
  <2> QED
    BY <2>1, <2>2, Zenon
<1>6. 0 + 1 = 1
  OBVIOUS
<1> QED
  BY <1>2, <1>5, <1>6, Zenon DEF Safe, SafeOp, s

\* A plan is safe to perform as long as what it was made from has not changed.
LEMMA PlanSafe ==
  ASSUME Typed, Mine, NEW fs, NEW l, OnDisk(fs), Agrees(fs, PlanFor(host, config, fs, l, proxy).reads)
  PROVE  /\ IsList(PlanFor(host, config, fs, l, proxy).ops)
         /\ Safe(PlanFor(host, config, fs, l, proxy).ops, 0)
<1> DEFINE p == PlanFor(host, config, fs, l, proxy)
<1>1. program \in Programs
  BY Hosted, Zenon
<1>2. 0 + 1 = 1
  OBVIOUS
<1>3. ASSUME program # "vscode", SafeOps(p.ops)
      PROVE  IsList(p.ops) /\ Safe(p.ops, 0)
  <2> HIDE DEF p
  <2> QED
    BY <1>2, <1>3, Zenon DEF SafeOps, SafeOp, Safe
<1>4. CASE program \in {"codex", "grok", "opencode"}
  BY <1>3, <1>4, HeadedPlans, Zenon DEF SafeRead
<1>5. CASE program = "claude-desktop"
  BY <1>3, <1>5, DesktopPlans, Zenon DEF SafeRead
<1>6. CASE program \in {"pi", "copilot"}
  BY <1>3, <1>6, MergedPlans, Zenon
<1>7. CASE program = "vscode"
  <2> DEFINE chat == PlanChat(config, fs, l, proxy)
             settings == PlanSettings(config, fs, l, proxy)
  <2>1. p = Nothing \/ p = Then(chat, settings)
    BY <1>7, Zenon DEF PlanFor, PlanVsCode, program
  <2>2. CASE p = Nothing
    <3>1. p.ops = << >>
      BY <2>2 DEF Nothing, Piece
    <3> HIDE DEF p
    <3>2. Safe(<< >>, 0)
      BY NoOps DEF Safe
    <3> QED
      BY <3>1, <3>2, NoOps, Zenon DEF p
  <2>3. CASE p = Then(chat, settings)
    <3>1. \A x, y : Then(x, y).ops = x.ops \o y.ops
      BY Zenon DEF Then
    <3>2. Agrees(fs, settings.reads)
      BY <2>3, ThenReads, Zenon
    <3>3. SafeSettings(settings.ops)
      BY <1>7, <3>2, PlanSettingsSafe, Zenon
    <3>4. State("chat") = "chat.state"
      BY DEF State
    <3>5. OpsOn(chat.ops, {"chat", "chat.state"})
      BY <3>4, EntriesOn, Zenon DEF PlanChat
    <3>6. FailsClosed => config.copilot_chat = "githubModels" \/ chat.ops = << >>
      <4>1. config.copilot_chat # "githubModels" => chat = PlanEntries("chat", config, fs, l, proxy)
        BY Zenon DEF PlanChat, Typed, Configured
      <4>2. FailsClosed => PlanEntries("chat", config, fs, l, proxy).ops = << >>
        BY EntriesOn, Zenon DEF FailsClosed
      <4> HIDE DEF chat
      <4> QED
        BY <4>1, <4>2, Zenon
    <3> HIDE DEF p, chat, settings
    <3>7. IsList(p.ops) /\ Safe(p.ops, 0)
      <4>1. p.ops = chat.ops \o settings.ops
        BY <2>3, <3>1, Zenon
      <4> QED
        BY <1>7, <3>3, <3>5, <3>6, <4>1, ChatThenSettings, Zenon
    <3> QED
      BY <3>7, Zenon DEF p
  <2> QED
    BY <2>1, <2>2, <2>3, Zenon
<1> QED
  BY <1>1, <1>4, <1>5, <1>6, <1>7, Zenon DEF Programs

-----------------------------------------------------------------------------
(* Steps that leave the files alone *)

LEMMA SameHost ==
  ASSUME UNCHANGED host
  PROVE  /\ program' = program /\ Whole' = Whole /\ Entries' = Entries /\ Start(host)' = Start(host)
         /\ \A fs : OnDisk(fs)' <=> OnDisk(fs)
<1>1. program' = program
  BY Zenon DEF program
<1>2. Whole' = Whole /\ Entries' = Entries
  BY <1>1 DEF Whole, Entries
<1>3. Start(host)' = Start(host)
  BY Zenon
<1>4. ASSUME NEW fs PROVE OnDisk(fs)' <=> OnDisk(fs)
  BY <1>1, <1>2, <1>3, Zenon DEF OnDisk
<1> QED
  BY <1>1, <1>2, <1>3, <1>4, Zenon

LEMMA SameFiles ==
  ASSUME IInv, UNCHANGED <<host, disk, mine>>, Configured', done' \in Nat
  PROVE  Typed' /\ Mine'
<1>1. /\ program' = program /\ Whole' = Whole /\ Start(host)' = Start(host)
      /\ OnDisk(disk)' /\ Typed /\ Mine
  BY SameHost, Zenon DEF IInv, Typed
<1>2. Typed'
  BY <1>1, Zenon DEF Typed
<1>3. \A path : TakenForManaged(path)' <=> TakenForManaged(path)
  BY <1>1, Zenon DEF TakenForManaged
<1>4. /\ \A v : Owns(v)' <=> Owns(v)
      /\ \A f : SameRest(f)' <=> SameRest(f)
      /\ \A f : Restored(f)' <=> Restored(f)
  BY Zenon DEF Owns, SameRest, Restored
<1>5. MineWhole'
  BY <1>1, <1>3, Zenon DEF Mine, MineWhole
<1>6. MinePolicy'
  BY <1>1, Zenon DEF Mine, MinePolicy
<1>7. MineSettings'
  BY <1>1, <1>4, Zenon DEF Mine, MineSettings
<1> QED
  BY <1>2, <1>5, <1>6, <1>7, Zenon DEF Mine

LEMMA SameConfig ==
  ASSUME Configured, UNCHANGED <<host, config>>
  PROVE  Configured'
BY SameHost, Zenon DEF Configured

LEMMA PlanAllIInv ==
  ASSUME IInv, PlanAll
  PROVE  IInv'
<1>1. /\ UNCHANGED <<host, disk, mine, config, proxy>> /\ done' = 0 /\ pc' = "planned"
      /\ plan' = PlanFrom(disk, loose)
  BY Zenon DEF PlanAll, PlanFrom
<1>2. Typed' /\ Mine'
  <2>1. done' \in Nat
    BY <1>1
  <2> QED
    BY <1>1, <2>1, SameFiles, SameConfig, Zenon DEF IInv, Typed
<1>3. \E fs, l : OnDisk(fs)' /\ plan' = PlanFrom(fs, l)'
  <2>1. OnDisk(disk)
    BY Zenon DEF IInv, Typed
  <2>2. \A fs, l : PlanFrom(fs, l)' = PlanFrom(fs, l)
    BY <1>1, Zenon DEF PlanFrom, See
  <2> QED
    BY <1>1, <2>1, <2>2, SameHost, Zenon
<1>4. Made'
  BY <1>1, <1>3, Zenon DEF Made
<1>5. Applying'
  BY <1>1 DEF Applying
<1> QED
  BY <1>2, <1>4, <1>5, Zenon DEF IInv

\* A step to idle that changes no file.
LEMMA IdleIInv ==
  ASSUME IInv, UNCHANGED <<host, disk, mine>>, Configured', done' \in Nat, pc' = "idle"
  PROVE  IInv'
<1>1. Typed' /\ Mine'
  BY SameFiles, Zenon
<1>2. Made' /\ Applying'
  BY DEF Made, Applying
<1> QED
  BY <1>1, <1>2, Zenon DEF IInv

LEMMA QuietIInv ==
  ASSUME IInv, Refuse \/ OperationFails \/ \E x \in {None} \cup Pairings : Restart(x)
  PROVE  IInv'
<1>1. UNCHANGED <<host, disk, mine, config>> /\ pc' = "idle" /\ done' = 0
  BY Zenon DEF Refuse, OperationFails, Restart, End
<1>2. done' \in Nat
  BY <1>1
<1> QED
  BY <1>1, <1>2, IdleIInv, SameConfig, Zenon DEF IInv, Typed

LEMMA ConfigureIInv ==
  ASSUME IInv, Configure
  PROVE  IInv'
<1>1. /\ UNCHANGED <<host, disk, mine, done>> /\ pc' = "idle" /\ config' \in Configs(program)
      /\ config'.configured => validate_daemon(program, config')
  BY Zenon DEF Configure
<1>2. host \in Hosts /\ done \in Nat
  BY Zenon DEF IInv, Typed
<1>3. Configured'
  BY <1>1, <1>2, HostsAssumption, SameHost, Zenon DEF Configured, program
<1> QED
  BY <1>1, <1>2, <1>3, IdleIInv, Zenon

\* Nothing but the files bears on what is safe to perform.
LEMMA SameChecks ==
  ASSUME UNCHANGED <<host, mine, config, proxy>>
  PROVE  /\ \A o : /\ WholeSafe(o)' <=> WholeSafe(o)
                   /\ PolicySafe(o)' <=> PolicySafe(o)
                   /\ RouteSafe(o)' <=> RouteSafe(o)
                   /\ Records(o)' <=> Records(o)
                   /\ Writes(o)' <=> Writes(o)
         /\ \A v : Owns(v)' <=> Owns(v)
         /\ \A f : SameRest(f)' <=> SameRest(f)
         /\ \A f : Restored(f)' <=> Restored(f)
<1>1. program' = program /\ Whole' = Whole /\ Entries' = Entries
  BY SameHost, Zenon
<1>2. /\ \A v : Owns(v)' <=> Owns(v)
      /\ \A f : SameRest(f)' <=> SameRest(f)
      /\ \A f : Restored(f)' <=> Restored(f)
  BY Zenon DEF Owns, SameRest, Restored
<1>3. \A o : WholeSafe(o)' <=> WholeSafe(o)
  BY <1>1, Zenon DEF WholeSafe
<1>4. \A o : PolicySafe(o)' <=> PolicySafe(o)
  BY <1>1, Zenon DEF PolicySafe, ChangeSafe
<1>5. \A o : RouteSafe(o)' <=> RouteSafe(o)
  <2>1. Route' = Route /\ FailsClosed' = FailsClosed
    BY <1>1, Zenon DEF Route, FailsClosed
  <2> QED
    BY <2>1, Zenon DEF RouteSafe
<1>6. \A o : (Records(o)' <=> Records(o)) /\ (Writes(o)' <=> Writes(o))
  BY <1>2, Zenon DEF Records, Writes
<1> QED
  BY <1>2, <1>3, <1>4, <1>5, <1>6, Zenon

LEMMA SameSafe ==
  ASSUME UNCHANGED <<host, mine, config, proxy, disk, plan>>, NEW d, Safe(plan.ops, d)
  PROVE  Safe(plan.ops, d)'
<1>1. program' = program
  BY SameHost, Zenon
<1>2. ASSUME NEW ops, NEW i PROVE SettingsSafe(ops, d, i)' <=> SettingsSafe(ops, d, i)
  <2>1. /\ Writes(ops[i])' = Writes(ops[i]) /\ Writes(ops[i - 1])' = Writes(ops[i - 1])
        /\ Records(ops[i])' = Records(ops[i]) /\ Records(ops[i - 1])' = Records(ops[i - 1])
        /\ Restored(ops[i].to)' = Restored(ops[i].to)
        /\ Restored(ops[i - 1].to)' = Restored(ops[i - 1].to)
        /\ Restored(disk["settings"])' = Restored(disk["settings"])
    BY Zenon DEF Writes, Records, Restored, SameRest, Owns
  <2> QED
    BY <2>1 DEF SettingsSafe, Forgets
<1> QED
  BY <1>1, <1>2, SameChecks, Zenon DEF Safe

LEMMA ValidateIInv ==
  ASSUME IInv, Validate
  PROVE  IInv'
<1>1. UNCHANGED <<host, disk, mine, config, proxy>> /\ pc = "planned" /\ ~Stale
  BY Zenon DEF Validate
<1>2. CASE plan.ops = << >>
  <2>1. pc' = "idle" /\ done' = 0
    BY <1>2, Zenon DEF Validate, End
  <2>2. done' \in Nat
    BY <2>1
  <2> QED
    BY <1>1, <2>1, <2>2, IdleIInv, SameConfig, Zenon DEF IInv, Typed
<1>3. CASE plan.ops # << >>
  <2>1. pc' = "applying" /\ UNCHANGED <<plan, done>> /\ done = 0
    BY <1>1, <1>3, Zenon DEF Validate, IInv, Made
  <2>2. Typed' /\ Mine'
    BY <1>1, <2>1, SameFiles, SameConfig, Zenon DEF IInv, Typed
  <2>3. PICK fs, l : OnDisk(fs) /\ plan = PlanFrom(fs, l)
    BY <1>1, Zenon DEF IInv, Made
  <2> DEFINE p == PlanFor(host, config, fs, l, proxy)
  <2>4. plan.ops = p.ops /\ plan.observed = [q \in p.reads |-> See(q, fs)]
    BY <2>3 DEF PlanFrom
  <2>5. Agrees(fs, p.reads)
    BY <1>1, <2>4, Zenon DEF Stale, Agrees
  <2>6. IsList(plan.ops) /\ Safe(plan.ops, 0)
    BY <2>3, <2>4, <2>5, PlanSafe, Zenon DEF IInv
  <2>7. 0 < Len(plan.ops)
    BY <2>6, <1>3, ListLength, SMTT(30)
  <2>8. Safe(plan.ops, 0)'
    BY <2>6, <1>1, <2>1, SameSafe, Zenon
  <2>9. Applying'
    BY <2>1, <2>6, <2>7, <2>8, Zenon DEF Applying
  <2>10. Made'
    BY <2>1 DEF Made
  <2> QED
    BY <2>2, <2>9, <2>10, Zenon DEF IInv
<1> QED
  BY <1>2, <1>3

-----------------------------------------------------------------------------
(* An operation is performed *)

\* What the file of an operation is afterwards.
NewValue(o) == IF o.op = "registry" THEN R!Changed(disk[o.path], o.to) ELSE o.to

LEMMA OneFile ==
  ASSUME Typed, Perform, NEW o, o = plan.ops[done + 1]
  PROVE  /\ UNCHANGED <<host, mine, config, proxy>>
         /\ disk' = [q \in DOMAIN Start(host) |-> disk'[q]]
         /\ \A q \in DOMAIN Start(host) : disk'[q] = IF q = o.path THEN NewValue(o) ELSE disk[q]
<1>1. disk' = (IF InPlace(disk, loose, o) THEN disk ELSE Performed(disk, o))
  BY Zenon DEF Perform
<1>2. disk = [q \in DOMAIN Start(host) |-> disk[q]]
  BY Zenon DEF Typed, OnDisk
<1>3. CASE InPlace(disk, loose, o)
  <2>1. disk' = disk /\ disk[o.path] = o.to /\ o.op # "registry"
    BY <1>1, <1>3 DEF InPlace
  <2> QED
    BY <1>2, <2>1, Zenon DEF NewValue, Perform
<1>4. CASE ~InPlace(disk, loose, o)
  <2>1. disk' = [disk EXCEPT ![o.path] = NewValue(o)]
    BY <1>1, <1>4, Zenon DEF Performed, NewValue
  <2> HIDE DEF NewValue
  <2>2. /\ disk' = [q \in DOMAIN Start(host) |-> disk'[q]]
        /\ \A q \in DOMAIN Start(host) : disk'[q] = IF q = o.path THEN NewValue(o) ELSE disk[q]
    BY <1>2, <2>1
  <2> QED
    BY <2>2, Zenon DEF Perform
<1> QED
  BY <1>3, <1>4

LEMMA KeyChanged ==
  ASSUME NEW key, IsKey(key), NEW c, ChangeSafe(c)
  PROVE  /\ IsKey(R!Changed(key, c))
         /\ \A n \in R!Names : /\ n \in mine["policy"] /\ key.values[n] = "user"
                               /\ n \notin key.marker.names
              => R!Changed(key, c).values[n] = "user" /\ n \notin R!Changed(key, c).marker.names
<1>1. CASE c.change = "value" /\ c.name \in R!Names \ mine["policy"]
  <2> DEFINE k == R!Changed(key, c)
  <2>1. k = [exists |-> TRUE, subkeys |-> key.subkeys,
             values |-> [key.values EXCEPT ![c.name] = c.data], marker |-> key.marker]
    BY <1>1, Zenon DEF R!Changed, IsKey
  <2> HIDE DEF k
  <2>2. IsKey(k)
    BY <2>1 DEF IsKey
  <2>3. \A n \in R!Names : n # c.name => k.values[n] = key.values[n]
    BY <2>1 DEF IsKey
  <2>4. k.marker = key.marker
    BY <2>1
  <2> QED
    BY <1>1, <2>2, <2>3, <2>4, Zenon DEF k
<1>2. CASE c.change = "marker" /\ IsMarker(c.marker) /\ c.marker.names \cap mine["policy"] = {}
  <2> DEFINE k == R!Changed(key, c)
  <2>1. k = [exists |-> TRUE, subkeys |-> key.subkeys, values |-> key.values, marker |-> c.marker]
    BY <1>2, Zenon DEF R!Changed, IsKey
  <2> HIDE DEF k
  <2>2. IsKey(k)
    BY <1>2, <2>1, SMTT(30) DEF IsKey
  <2>3. k.values = key.values /\ k.marker = c.marker
    BY <2>1
  <2> QED
    BY <1>2, <2>2, <2>3, Zenon DEF k
<1>3. CASE c.change = "key"
  <2>1. \/ R!Changed(key, c) = key
        \/ R!Changed(key, c) = R!NoKey /\ \A n \in R!Names : key.values[n] = None
    BY <1>3, Zenon DEF R!Changed
  <2>2. IsKey(R!NoKey)
    BY DEF IsKey, IsMarker, R!NoKey, R!NoMarker
  <2>3. None # "user"
    BY DEF None
  <2> QED
    BY <2>1, <2>2, <2>3, Zenon
<1> QED
  BY <1>1, <1>2, <1>3, Zenon DEF ChangeSafe

\* Where the parts of an operation's safety bear.
LEMMA PerformTyped ==
  ASSUME Typed, Mine, Perform, NEW o, o = plan.ops[done + 1],
         WholeSafe(o), PolicySafe(o),
         program = "vscode" => SettingsSafe(plan.ops, done, done + 1)
  PROVE  OnDisk(disk')
<1>1. /\ disk' = [q \in DOMAIN Start(host) |-> disk'[q]]
      /\ \A q \in DOMAIN Start(host) : disk'[q] = IF q = o.path THEN NewValue(o) ELSE disk[q]
  BY OneFile, Zenon
<1>2. \A path \in Whole : IsFile(disk'[path])
  <2> TAKE path \in Whole
  <2>1. path \in DOMAIN Start(host) /\ path # "policy" /\ IsFile(disk[path])
    BY WholeOf, StartPaths, Zenon DEF Typed, OnDisk
  <2>2. o.path = path => NewValue(o) = o.to /\ IsFile(o.to)
    BY <2>1, Zenon DEF NewValue, PolicySafe, WholeSafe
  <2> QED
    BY <1>1, <2>1, <2>2, Zenon
<1>3. program = "claude-desktop" => IsKey(disk'["policy"])
  <2> SUFFICES ASSUME program = "claude-desktop" PROVE IsKey(disk'["policy"])
    OBVIOUS
  <2>1. "policy" \in DOMAIN Start(host) /\ IsKey(disk["policy"])
    BY StartPaths, Zenon DEF Typed, OnDisk
  <2>2. o.path = "policy" => IsKey(NewValue(o))
    BY <2>1, KeyChanged, Zenon DEF NewValue, PolicySafe
  <2> QED
    BY <1>1, <2>1, <2>2, Zenon
<1>4. program = "vscode" => IsSettings(disk'["settings"]) /\ IsSidecar(disk'["settings.state"])
  <2> SUFFICES ASSUME program = "vscode"
               PROVE  IsSettings(disk'["settings"]) /\ IsSidecar(disk'["settings.state"])
    OBVIOUS
  <2>1. /\ "settings" \in DOMAIN Start(host) /\ "settings.state" \in DOMAIN Start(host)
        /\ IsSettings(disk["settings"]) /\ IsSidecar(disk["settings.state"])
    BY StartPaths, Zenon DEF Typed, OnDisk
  <2>2. NewValue(o) = o.to
    BY DEF NewValue, PolicySafe
  <2>3. o.path = "settings" => IsSettings(o.to)
    BY Zenon DEF SettingsSafe, Writes
  <2>4. o.path = "settings.state" => IsSidecar(o.to)
    BY Zenon DEF SettingsSafe, Records, Forgets, IsSidecar
  <2> QED
    BY <1>1, <2>1, <2>2, <2>3, <2>4, Zenon
<1> QED
  BY <1>1, <1>2, <1>3, <1>4, Zenon DEF OnDisk

LEMMA PerformMine ==
  ASSUME Typed, Mine, Perform, NEW o, o = plan.ops[done + 1],
         WholeSafe(o), PolicySafe(o),
         program = "vscode" => SettingsSafe(plan.ops, done, done + 1)
  PROVE  Mine'
<1>1. /\ UNCHANGED <<host, mine>> /\ program' = program /\ Whole' = Whole
      /\ \A q \in DOMAIN Start(host) : disk'[q] = IF q = o.path THEN NewValue(o) ELSE disk[q]
  BY OneFile, SameHost, Zenon
<1>2. MineWhole'
  <2> SUFFICES ASSUME NEW path \in Whole, mine[path] # Empty
               PROVE  /\ disk'[path].doc = mine[path] /\ mine[path]["other"] = "user"
                      /\ ~TakenForManaged(path)'
    BY <1>1, Zenon DEF MineWhole
  <2>1. path # o.path /\ Owner(path) # o.path
    BY Zenon DEF WholeSafe
  <2>2. disk'[path] = disk[path]
    BY <1>1, <2>1, StartPaths, Zenon
  <2>3. program = "claude-desktop" => disk'[Owner(path)] = disk[Owner(path)]
    <3>1. program = "claude-desktop" => Owner(path) \in DOMAIN Start(host)
      BY StartPaths DEF Owner
    <3> QED
      BY <1>1, <2>1, <3>1, Zenon
  <2>4. disk[path].doc = mine[path] /\ mine[path]["other"] = "user" /\ ~TakenForManaged(path)
    BY Zenon DEF Mine, MineWhole
  <2>5. ~TakenForManaged(path)'
    BY <1>1, <2>2, <2>3, <2>4, Zenon DEF TakenForManaged, is_owned
  <2> QED
    BY <2>2, <2>4, <2>5, Zenon
<1>3. MinePolicy'
  <2> SUFFICES ASSUME program = "claude-desktop", NEW n \in mine["policy"]
               PROVE  /\ n \in R!Names /\ disk'["policy"].values[n] = "user"
                      /\ n \notin disk'["policy"].marker.names
    BY <1>1, Zenon DEF MinePolicy
  <2>1. /\ n \in R!Names /\ disk["policy"].values[n] = "user"
        /\ n \notin disk["policy"].marker.names /\ IsKey(disk["policy"])
        /\ "policy" \in DOMAIN Start(host)
    BY StartPaths, Zenon DEF Mine, MinePolicy, Typed, OnDisk
  <2>2. CASE o.path = "policy"
    <3>1. disk'["policy"] = R!Changed(disk["policy"], o.to) /\ ChangeSafe(o.to)
      BY <1>1, <2>1, <2>2, Zenon DEF PolicySafe, NewValue
    <3> DEFINE k == R!Changed(disk["policy"], o.to)
    <3>2. \A m \in R!Names : /\ m \in mine["policy"] /\ disk["policy"].values[m] = "user"
                             /\ m \notin disk["policy"].marker.names
            => k.values[m] = "user" /\ m \notin k.marker.names
      BY <2>1, <3>1, KeyChanged, Zenon
    <3> HIDE DEF k
    <3>3. disk'["policy"] = k
      BY <3>1, Zenon DEF k
    <3> QED
      BY <2>1, <3>2, <3>3, Zenon
  <2>3. CASE o.path # "policy"
    BY <1>1, <2>1, <2>3, Zenon
  <2> QED
    BY <2>2, <2>3
<1>4. MineSettings'
  <2> SUFFICES ASSUME program = "vscode"
               PROVE  /\ SameRest(disk'["settings"])
                      /\ disk'["settings.state"] = V!NoSidecar => Restored(disk'["settings"])
                      /\ Known(disk'["settings.state"]) =>
                           Owns(V!read_state(disk'["settings.state"]).override_before)
    BY <1>1, Zenon DEF MineSettings, SameRest, Restored, Owns
  <2>1. /\ SameRest(disk["settings"])
        /\ disk["settings.state"] = V!NoSidecar => Restored(disk["settings"])
        /\ Known(disk["settings.state"]) => Owns(V!read_state(disk["settings.state"]).override_before)
    BY Zenon DEF Mine, MineSettings
  <2>2. ~Known(V!NoSidecar)
    BY DEF Known, V!NoSidecar
  <2>3. ~(done + 1 > done + 1)
    BY DEF Typed
  <2>4. NewValue(o) = o.to
    BY DEF NewValue, PolicySafe
  <2>5. /\ disk'["settings"] = IF o.path = "settings" THEN o.to ELSE disk["settings"]
        /\ disk'["settings.state"] = IF o.path = "settings.state" THEN o.to ELSE disk["settings.state"]
    BY <1>1, <2>4, StartPaths, Zenon
  <2>6. o.path = "settings" =>
          SameRest(o.to) /\ (Restored(o.to) \/ disk["settings.state"] # V!NoSidecar)
    BY <2>3, Zenon DEF SettingsSafe, Writes
  <2>7. o.path = "settings.state" =>
          \/ Known(o.to) /\ Owns(V!read_state(o.to).override_before)
          \/ o.to = V!NoSidecar /\ Restored(disk["settings"])
    BY <2>3, Zenon DEF SettingsSafe, Records, Forgets
  <2>8. CASE o.path = "settings"
    BY <2>1, <2>5, <2>6, <2>8, Zenon
  <2>9. CASE o.path = "settings.state"
    BY <2>1, <2>2, <2>5, <2>7, <2>9, Zenon
  <2>10. CASE o.path \notin {"settings", "settings.state"}
    BY <2>1, <2>5, <2>10, Zenon
  <2> QED
    BY <2>8, <2>9, <2>10, Zenon
<1> QED
  BY <1>2, <1>3, <1>4, Zenon DEF Mine

\* The operations that are left stay safe.
LEMMA PerformSafe ==
  ASSUME Typed, Mine, Perform, IsList(plan.ops), done + 1 < Len(plan.ops), Safe(plan.ops, done)
  PROVE  Safe(plan.ops, done)'
<1> DEFINE ops == plan.ops
           o == ops[done + 1]
           d == done + 1
<1>1. /\ UNCHANGED <<host, mine, config, proxy>> /\ program' = program
      /\ \A q \in DOMAIN Start(host) : disk'[q] = IF q = o.path THEN NewValue(o) ELSE disk[q]
  BY OneFile, SameHost, Zenon
<1>2. plan' = plan /\ done' = done + 1 /\ done \in Nat
  <2>1. done + 1 # Len(plan.ops) /\ done \in Nat
    BY ListLength DEF Typed
  <2> QED
    BY <2>1, Zenon DEF Perform
<1>3. d \in Nat /\ d + 1 \in Nat /\ d < Len(ops) /\ Len(ops) \in Nat
  BY <1>2, ListLength
<1>4. \A i \in d + 1 .. Len(ops) :
        i \in done + 1 .. Len(ops) /\ i > done + 1 /\ (i > d + 1 \/ i = d + 1) /\ d + 1 - 1 = d
  BY <1>2, <1>3
<1>5. \A i \in d + 1 .. Len(ops) :
        /\ WholeSafe(ops[i]) /\ PolicySafe(ops[i]) /\ RouteSafe(ops[i])
        /\ program = "vscode" => SettingsSafe(ops, done, i)
  BY <1>4, Zenon DEF Safe
<1>6. d \in done + 1 .. Len(ops) /\ d # Len(ops)
  BY <1>2, <1>3
<1>7. PolicySafe(o) /\ (program = "vscode" => SettingsSafe(ops, done, d))
  BY <1>6, Zenon DEF Safe
<1> HIDE DEF d, o, ops
<1>8. ASSUME program = "vscode", NEW i \in d + 1 .. Len(ops)
      PROVE  /\ ops[i].path = "settings" =>
                  /\ Writes(ops[i])
                  /\ \/ Restored(ops[i].to)
                     \/ /\ i = Len(ops)
                        /\ \/ disk'["settings.state"] # V!NoSidecar
                           \/ i > d + 1 /\ Records(ops[i - 1])
             /\ ops[i].path = "settings.state" =>
                  \/ Records(ops[i])
                  \/ /\ Forgets(ops[i]) /\ i = Len(ops)
                     /\ \/ i > d + 1 /\ Writes(ops[i - 1]) /\ Restored(ops[i - 1].to)
                        \/ /\ Restored(disk'["settings"])
                           /\ \A j \in d + 1 .. i - 1 : ops[j].path # "settings"
  <2>1. /\ disk'["settings"] = IF o.path = "settings" THEN o.to ELSE disk["settings"]
        /\ disk'["settings.state"] = IF o.path = "settings.state" THEN o.to ELSE disk["settings.state"]
    <3>1. NewValue(o) = o.to
      BY <1>7, <1>8 DEF NewValue, PolicySafe
    <3> QED
      BY <1>1, <1>8, <3>1, StartPaths, Zenon
  <2>2. o.path = "settings.state" => Records(o)
    BY <1>6, <1>7, <1>8, Zenon DEF SettingsSafe, o, d
  <2>3. \A q : Records(q) => q.to # V!NoSidecar /\ q.path = "settings.state"
    BY DEF Records, Known, V!NoSidecar
  <2>4. disk["settings.state"] # V!NoSidecar => disk'["settings.state"] # V!NoSidecar
    BY <2>1, <2>2, <2>3, Zenon
  <2>5. SettingsSafe(ops, done, i) /\ (i > d + 1 \/ i = d + 1)
    BY <1>4, <1>5, <1>8, Zenon
  <2>6. i = d + 1 => ops[i - 1] = o
    BY <1>3 DEF o, d
  <2>7. ASSUME ops[i].path = "settings"
        PROVE  /\ Writes(ops[i])
               /\ \/ Restored(ops[i].to)
                  \/ /\ i = Len(ops)
                     /\ \/ disk'["settings.state"] # V!NoSidecar
                        \/ i > d + 1 /\ Records(ops[i - 1])
    <3>1. /\ Writes(ops[i])
          /\ \/ Restored(ops[i].to)
             \/ i = Len(ops) /\ (disk["settings.state"] # V!NoSidecar \/ Records(ops[i - 1]))
      BY <2>5, <2>7, Zenon DEF SettingsSafe
    <3>2. i = d + 1 /\ Records(ops[i - 1]) => disk'["settings.state"] # V!NoSidecar
      BY <2>1, <2>3, <2>6, Zenon
    <3> QED
      BY <3>1, <3>2, <2>4, <2>5, Zenon
  <2>8. ASSUME ops[i].path = "settings.state"
        PROVE  \/ Records(ops[i])
               \/ /\ Forgets(ops[i]) /\ i = Len(ops)
                  /\ \/ i > d + 1 /\ Writes(ops[i - 1]) /\ Restored(ops[i - 1].to)
                     \/ /\ Restored(disk'["settings"])
                        /\ \A j \in d + 1 .. i - 1 : ops[j].path # "settings"
    <3>1. \/ Records(ops[i])
          \/ /\ Forgets(ops[i]) /\ i = Len(ops)
             /\ \/ Writes(ops[i - 1]) /\ Restored(ops[i - 1].to)
                \/ Restored(disk["settings"]) /\ \A j \in done + 1 .. i - 1 : ops[j].path # "settings"
      BY <2>5, <2>8, Zenon DEF SettingsSafe
    <3>2. ASSUME i = d + 1, Writes(ops[i - 1]), Restored(ops[i - 1].to)
          PROVE  /\ Restored(disk'["settings"])
                 /\ \A j \in d + 1 .. i - 1 : ops[j].path # "settings"
      <4>1. d + 1 .. i - 1 = {}
        BY <3>2, <1>3
      <4>2. disk'["settings"] = ops[i - 1].to
        BY <3>2, <2>1, <2>6, Zenon DEF Writes
      <4> QED
        BY <3>2, <4>1, <4>2, Zenon
    <3>3. ASSUME Restored(disk["settings"]), \A j \in done + 1 .. i - 1 : ops[j].path # "settings"
          PROVE  /\ Restored(disk'["settings"])
                 /\ \A j \in d + 1 .. i - 1 : ops[j].path # "settings"
      <4>1. d \in done + 1 .. i - 1 /\ \A j \in d + 1 .. i - 1 : j \in done + 1 .. i - 1
        BY <1>2, <1>3 DEF d
      <4>2. o.path # "settings"
        BY <3>3, <4>1, Zenon DEF o, d
      <4> QED
        BY <2>1, <3>3, <4>1, <4>2, Zenon
    <3> QED
      BY <3>1, <3>2, <3>3, <2>5, Zenon
  <2> QED
    BY <2>7, <2>8, Zenon
<1>9. ops' = ops /\ done' = d
  BY <1>2, ZenonT(30) DEF ops, d
<1>10. ASSUME program = "vscode", NEW i \in d + 1 .. Len(ops)
       PROVE  SettingsSafe(ops, done, i)'
  <2>1. /\ Writes(ops[i])' = Writes(ops[i]) /\ Writes(ops[i - 1])' = Writes(ops[i - 1])
        /\ Records(ops[i])' = Records(ops[i]) /\ Records(ops[i - 1])' = Records(ops[i - 1])
        /\ Restored(ops[i].to)' = Restored(ops[i].to)
        /\ Restored(ops[i - 1].to)' = Restored(ops[i - 1].to)
        /\ Restored(disk["settings"])' = Restored(disk'["settings"])
        /\ Forgets(ops[i])' = Forgets(ops[i])
    BY <1>1, <1>9, Zenon DEF Writes, Records, Restored, SameRest, Owns, Forgets
  <2> QED
    BY <2>1, <1>8, <1>9, <1>10 DEF SettingsSafe
<1>11. \A i \in d + 1 .. Len(ops) : WholeSafe(ops[i])' /\ PolicySafe(ops[i])' /\ RouteSafe(ops[i])'
  BY <1>1, <1>5, <1>9, SameChecks, Zenon
<1>12. Safe(ops, done)'
  BY <1>1, <1>9, <1>10, <1>11, Zenon DEF Safe
<1> QED
  BY <1>12, Zenon DEF ops

LEMMA PerformIInv ==
  ASSUME IInv, Perform
  PROVE  IInv'
<1> DEFINE o == plan.ops[done + 1]
<1>1. /\ Typed /\ Mine /\ IsList(plan.ops) /\ done < Len(plan.ops) /\ Safe(plan.ops, done)
      /\ done \in Nat
  BY Zenon DEF IInv, Applying, Perform, Typed
<1>2. done + 1 \in done + 1 .. Len(plan.ops) /\ done + 1 \in Nat
  BY <1>1, ListLength
<1>3. WholeSafe(o) /\ PolicySafe(o) /\ (program = "vscode" => SettingsSafe(plan.ops, done, done + 1))
  BY <1>1, <1>2, Zenon DEF Safe
<1> HIDE DEF o
<1>4. OnDisk(disk') /\ Mine'
  BY <1>1, <1>3, PerformTyped, PerformMine, Zenon DEF o
<1>5. UNCHANGED <<host, mine, config>>
  BY Zenon DEF Perform
<1>6. CASE done + 1 = Len(plan.ops)
  <2>1. pc' = "idle" /\ done' = 0
    BY <1>6, Zenon DEF Perform, End
  <2>2. Typed'
    <3>1. done' \in Nat
      BY <2>1
    <3> QED
      BY <1>1, <1>4, <1>5, <3>1, SameHost, SameConfig, Zenon DEF Typed
  <2>3. Made' /\ Applying'
    BY <2>1 DEF Made, Applying
  <2> QED
    BY <1>4, <2>2, <2>3, Zenon DEF IInv
<1>7. CASE done + 1 # Len(plan.ops)
  <2>1. pc' = "applying" /\ done' = done + 1 /\ plan' = plan
    BY <1>7, Zenon DEF Perform
  <2>2. Typed'
    BY <1>1, <1>2, <1>4, <1>5, <2>1, SameHost, SameConfig, Zenon DEF Typed
  <2>3. done + 1 < Len(plan.ops)
    BY <1>1, <1>7, ListLength
  <2>4. Safe(plan.ops, done)'
    BY <1>1, <2>3, PerformSafe, Zenon
  <2>5. Made'
    BY <2>1 DEF Made
  <2>6. Applying'
    BY <1>1, <2>1, <2>3, <2>4, Zenon DEF Applying
  <2> QED
    BY <1>4, <2>2, <2>5, <2>6, Zenon DEF IInv
<1> QED
  BY <1>6, <1>7

-----------------------------------------------------------------------------
(* The user and the administrator *)

LEMMA UserStep ==
  ASSUME IInv, pc # "applying", UNCHANGED <<host, config, proxy, pc, plan, done>>,
         OnDisk(disk'), Mine', mine' = [q \in DOMAIN Start(host) |-> mine'[q]],
         program = "vscode" => mine'["settings"] = [override |-> mine'["settings"].override,
                                                    list |-> mine'["settings"].list,
                                                    other |-> mine'["settings"].other]
  PROVE  IInv'
<1>1. Typed'
  BY SameHost, SameConfig, Zenon DEF IInv, Typed
<1>2. \A fs, l : PlanFrom(fs, l)' = PlanFrom(fs, l)
  BY Zenon DEF PlanFrom, See
<1>3. Made'
  BY <1>2, SameHost, Zenon DEF IInv, Made
<1>4. Applying'
  BY DEF Applying
<1> QED
  BY <1>1, <1>3, <1>4, Zenon DEF IInv

\* A file that is neither a whole file of the daemon's nor settings.json.
LEMMA ElsewhereIInv ==
  ASSUME IInv, pc # "applying", UNCHANGED <<host, config, proxy, pc, plan, done, mine>>,
         NEW path \in DOMAIN Start(host), NEW x, disk' = [disk EXCEPT ![path] = x],
         Whole = {}, program # "claude-desktop",
         program = "vscode" => path \notin {"settings", "settings.state"}
  PROVE  IInv'
<1>1. Typed /\ Mine /\ program' = program /\ Whole' = Whole
  BY SameHost, Zenon DEF IInv
<1>2. /\ disk' = [q \in DOMAIN Start(host) |-> disk'[q]]
      /\ \A q \in DOMAIN Start(host) : q # path => disk'[q] = disk[q]
  <2>1. disk = [q \in DOMAIN Start(host) |-> disk[q]]
    BY <1>1, Zenon DEF Typed, OnDisk
  <2> QED
    BY <2>1
<1>3. program = "vscode" => /\ disk'["settings"] = disk["settings"]
                            /\ disk'["settings.state"] = disk["settings.state"]
  BY <1>1, <1>2, StartPaths, Zenon
<1>4. OnDisk(disk')
  BY <1>1, <1>2, <1>3, Zenon DEF OnDisk, Typed
<1>5. MineWhole' /\ MinePolicy'
  BY <1>1, Zenon DEF MineWhole, MinePolicy
<1>6. MineSettings'
  BY <1>1, <1>3, Zenon DEF Mine, MineSettings, SameRest, Restored, Owns
<1> QED
  BY <1>1, <1>4, <1>5, <1>6, UserStep, Zenon DEF Mine, Typed

LEMMA EditWholeIInv ==
  ASSUME IInv, pc # "applying", NEW path \in Whole, EditDocument(path)
  PROVE  IInv'
<1> DEFINE f == disk[path]
<1>1. /\ Typed /\ Mine /\ path \in DOMAIN Start(host) /\ IsFile(f) /\ path \notin Entries
      /\ disk = [q \in DOMAIN Start(host) |-> disk[q]] /\ mine = [q \in DOMAIN Start(host) |-> mine[q]]
      /\ program # "vscode"
  <2>1. Typed /\ Mine
    BY Zenon DEF IInv
  <2>2. path \notin Entries /\ program # "vscode"
    BY WholeOf DEF Entries
  <2> QED
    BY <2>1, <2>2, StartPaths, Zenon DEF Typed, OnDisk
<1>2. PICK x \in {Absent, Document([f.doc EXCEPT !["other"] = "user"]),
                  [f EXCEPT !.kind = IF f.kind = "doc" THEN "unreadable" ELSE "doc"]} :
        /\ Edit(path, x)
        /\ mine' = IF ~TakenForManaged(path) /\ x.doc # f.doc
                     THEN [mine EXCEPT ![path] = x.doc] ELSE mine
  BY <1>1, Zenon DEF EditDocument
<1> HIDE DEF f
<1>3. UNCHANGED <<host, config, proxy, pc, plan, done>> /\ disk' = [disk EXCEPT ![path] = x]
  BY <1>2, Zenon DEF Edit
<1>4. program' = program /\ Whole' = Whole
  BY <1>3, SameHost, Zenon
<1>5. /\ disk' = [q \in DOMAIN Start(host) |-> disk'[q]] /\ disk'[path] = x
      /\ \A q \in DOMAIN Start(host) : q # path => disk'[q] = disk[q]
  BY <1>1, <1>3
<1>6. /\ IsFile(x)
      /\ x.doc # f.doc => (x.doc = Empty \/ x.doc["other"] = "user")
      /\ (x.doc = Empty /\ x.doc # f.doc) \/ x.doc["header"] = f.doc["header"]
  <2>1. CASE x = Absent
    BY <2>1 DEF Absent, IsFile, IsDoc, Empty
  <2>2. CASE x = Document([f.doc EXCEPT !["other"] = "user"])
    BY <2>2, <1>1, Zenon DEF Document, IsFile, IsDoc, Settings
  <2>3. CASE x = [f EXCEPT !.kind = IF f.kind = "doc" THEN "unreadable" ELSE "doc"]
    BY <2>3, <1>1 DEF IsFile
  <2> QED
    BY <1>2, <2>1, <2>2, <2>3, Zenon
<1>7. OnDisk(disk')
  <2>1. \A q \in Whole : q \in DOMAIN Start(host) /\ IsFile(disk[q])
    BY <1>1, StartPaths, Zenon DEF Typed, OnDisk
  <2>2. program = "claude-desktop" =>
          "policy" \in DOMAIN Start(host) /\ path # "policy" /\ IsKey(disk["policy"])
    BY <1>1, StartPaths, WholeOf, Zenon DEF Typed, OnDisk
  <2> QED
    BY <1>1, <1>5, <1>6, <2>1, <2>2, Zenon DEF OnDisk
<1>8. /\ mine' = [q \in DOMAIN Start(host) |-> mine'[q]]
      /\ \A q \in DOMAIN Start(host) : q # path => mine'[q] = mine[q]
      /\ mine'[path] = IF ~TakenForManaged(path) /\ x.doc # f.doc THEN x.doc ELSE mine[path]
  BY <1>1, <1>2
<1>9. MinePolicy'
  <2>1. program = "claude-desktop" => "policy" \in DOMAIN Start(host) /\ path # "policy"
    BY <1>1, StartPaths, WholeOf, Zenon
  <2> QED
    BY <1>1, <1>4, <1>5, <1>8, <2>1, Zenon DEF Mine, MinePolicy
<1>10. MineWhole'
  <2> SUFFICES ASSUME NEW q \in Whole, mine'[q] # Empty
               PROVE  /\ disk'[q].doc = mine'[q] /\ mine'[q]["other"] = "user"
                      /\ ~TakenForManaged(q)'
    BY <1>4, Zenon DEF MineWhole
  <2>1. /\ q \in DOMAIN Start(host) /\ Owner(q) # path
        /\ program = "claude-desktop" => Owner(q) \in DOMAIN Start(host)
    <3>1. Owner(q) # path
      BY WholeOf, Zenon
    <3>2. program = "claude-desktop" => Owner(q) \in DOMAIN Start(host)
      BY <1>1, StartPaths DEF Owner
    <3> QED
      BY <3>1, <3>2, <1>1, StartPaths, Zenon
  <2>2. program = "claude-desktop" => (TakenForManaged(q)' <=> TakenForManaged(q))
    BY <1>4, <1>5, <2>1, Zenon DEF TakenForManaged, is_owned
  <2>3. mine[q] # Empty => /\ disk[q].doc = mine[q] /\ mine[q]["other"] = "user"
                           /\ ~TakenForManaged(q)
    BY <1>1, Zenon DEF Mine, MineWhole
  <2>4. CASE q # path
    <3>1. mine'[q] = mine[q] /\ disk'[q] = disk[q]
      BY <1>5, <1>8, <2>1, <2>4, Zenon
    <3>2. TakenForManaged(q)' <=> TakenForManaged(q)
      BY <1>4, <2>2, <3>1, Zenon DEF TakenForManaged
    <3> QED
      BY <2>3, <3>1, <3>2, Zenon
  <2>5. CASE q = path
    <3>1. ~TakenForManaged(q) /\ (x.doc # Empty \/ x.doc = f.doc) => ~TakenForManaged(q)'
      <4>1. ASSUME program # "claude-desktop", x.doc["header"] = f.doc["header"]
            PROVE  TakenForManaged(q)' <=> TakenForManaged(q)
        BY <4>1, <1>4, <1>5, <2>5, Zenon DEF TakenForManaged, HasHeader, f
      <4> QED
        BY <4>1, <1>6, <2>2, Zenon
    <3>2. CASE ~TakenForManaged(path) /\ x.doc # f.doc
      BY <3>1, <3>2, <1>5, <1>6, <1>8, <2>5, Zenon
    <3>3. CASE ~(~TakenForManaged(path) /\ x.doc # f.doc)
      <4>1. mine'[q] = mine[q] /\ mine[q] # Empty
        BY <3>3, <1>8, <2>5, Zenon
      <4>2. x.doc = f.doc /\ ~TakenForManaged(q) /\ disk[q].doc = f.doc
        BY <4>1, <3>3, <2>3, <2>5, Zenon DEF f
      <4> QED
        BY <4>1, <4>2, <3>1, <2>3, <2>5, <1>5, Zenon
    <3> QED
      BY <3>2, <3>3
  <2> QED
    BY <2>4, <2>5
<1>11. MineSettings'
  BY <1>1, <1>4, Zenon DEF MineSettings
<1> QED
  BY <1>1, <1>3, <1>7, <1>8, <1>9, <1>10, <1>11, UserStep, Zenon DEF Mine

LEMMA EditOtherIInv ==
  ASSUME IInv, pc # "applying", NEW path \in Documents \ Whole, EditDocument(path)
  PROVE  IInv'
<1>1. /\ path \in DOMAIN Start(host) /\ Whole = {} /\ program # "claude-desktop"
      /\ program = "vscode" => path \notin {"settings", "settings.state"}
  <2>1. path \in DOMAIN Start(host)
    BY StartPaths, Zenon DEF IInv
  <2>2. /\ Whole = {} /\ program # "claude-desktop"
        /\ program = "vscode" => path \notin {"settings", "settings.state"}
    BY DEF Documents, Whole, Entries
  <2> QED
    BY <2>1, <2>2, Zenon
<1>2. PICK x : Edit(path, x) /\ mine' = mine
  BY Zenon DEF EditDocument
<1> QED
  BY <1>1, <1>2, ElsewhereIInv, Zenon DEF Edit

LEMMA DeleteStateIInv ==
  ASSUME IInv, pc # "applying", NEW path \in Entries, DeleteState(path)
  PROVE  IInv'
<1>1. /\ State(path) \in DOMAIN Start(host) /\ Whole = {} /\ program # "claude-desktop"
      /\ program = "vscode" => State(path) \notin {"settings", "settings.state"}
  BY DEF Entries, State, Whole, Start, program
<1>2. Edit(State(path), NoState) /\ mine' = mine
  BY Zenon DEF DeleteState
<1> QED
  BY <1>1, <1>2, ElsewhereIInv, Zenon DEF Edit

LEMMA LoosenIInv ==
  ASSUME IInv, pc # "applying", NEW path, Loosen(path)
  PROVE  IInv'
<1>1. UNCHANGED <<host, disk, config, proxy, pc, plan, done, mine>>
  BY Zenon DEF Loosen
<1>2. Typed' /\ Mine'
  BY <1>1, SameFiles, SameConfig, Zenon DEF IInv, Typed
<1> QED
  BY <1>1, <1>2, UserStep, Zenon DEF IInv, Typed

\* One of VS Code's files, with what is the user's in it.
LEMMA VsCodeStep ==
  ASSUME IInv, pc # "applying", program = "vscode", NEW path \in {"settings", "settings.state"}, NEW x,
         Edit(path, x), path = "settings" => IsSettings(x), path = "settings.state" => IsSidecar(x),
         NEW m, m = [override |-> m.override, list |-> m.list, other |-> m.other],
         mine' = [mine EXCEPT !["settings"] = m],
         NEW f, f = IF path = "settings" THEN x ELSE disk["settings"],
         NEW s, s = IF path = "settings.state" THEN x ELSE disk["settings.state"],
         f.other = m.other, ("user" \in f.ignored.entries) = m.list,
         f.kind = "absent" => m.override \in {"none", "deleted"},
         s = V!NoSidecar => m.override \in {IF f.override \in V!CapiUrls THEN "none" ELSE f.override, "deleted"},
         Known(s) => m.override \in {V!read_state(s).override_before, "deleted"}
  PROVE  IInv'
<1>1. /\ Typed /\ disk = [q \in DOMAIN Start(host) |-> disk[q]]
      /\ mine = [q \in DOMAIN Start(host) |-> mine[q]]
      /\ IsSettings(disk["settings"]) /\ IsSidecar(disk["settings.state"])
  BY Zenon DEF IInv, Typed, OnDisk
<1>2. /\ "settings" \in DOMAIN Start(host) /\ "settings.state" \in DOMAIN Start(host)
      /\ Whole = {}
  <2>1. Whole = {}
    BY DEF Whole
  <2> QED
    BY <1>1, <2>1, StartPaths, Zenon
<1>3. UNCHANGED <<host, config, proxy, pc, plan, done>> /\ disk' = [disk EXCEPT ![path] = x]
  BY Zenon DEF Edit
<1>4. program' = program /\ Whole' = Whole
  BY <1>3, SameHost, Zenon
<1>5. /\ disk' = [q \in DOMAIN Start(host) |-> disk'[q]]
      /\ disk'["settings"] = f /\ disk'["settings.state"] = s
  BY <1>1, <1>2, <1>3, SMTT(30)
<1>6. /\ mine' = [q \in DOMAIN Start(host) |-> mine'[q]] /\ mine'["settings"] = m
  BY <1>1, <1>2
<1>7. IsSettings(f) /\ IsSidecar(s)
  BY <1>1, Zenon
<1>8. OnDisk(disk')
  BY <1>2, <1>5, <1>7, Zenon DEF OnDisk
<1>9. MineWhole' /\ MinePolicy'
  BY <1>2, <1>4, Zenon DEF MineWhole, MinePolicy
<1>10. MineSettings'
  <2>1. SameRest(f)'
    BY <1>6, Zenon DEF SameRest, Owns
  <2>2. s = V!NoSidecar => Restored(f)'
    BY <1>6, Zenon DEF Restored, Owns
  <2>3. Known(s) => Owns(V!read_state(s).override_before)'
    BY <1>6, Zenon DEF Owns
  <2> QED
    BY <1>5, <2>1, <2>2, <2>3, Zenon DEF MineSettings, SameRest, Restored, Owns
<1> QED
  BY <1>3, <1>6, <1>8, <1>9, <1>10, UserStep, Zenon DEF Mine

LEMMA EditSidecarIInv ==
  ASSUME IInv, pc # "applying", EditSidecar
  PROVE  IInv'
<1> DEFINE f == disk["settings"]
           own == mine["settings"]
<1>1. /\ program = "vscode" /\ IsSettings(f) /\ mine = [q \in DOMAIN Start(host) |-> mine[q]]
      /\ own = [override |-> own.override, list |-> own.list, other |-> own.other]
      /\ "settings" \in DOMAIN Start(host)
  BY StartPaths, Zenon DEF EditSidecar, IInv, Typed, OnDisk
<1>2. f.other = own.other /\ ("user" \in f.ignored.entries) = own.list
      /\ (f.kind = "absent" => own.override \in {"none", "deleted"})
  BY <1>1, Zenon DEF IInv, Mine, MineSettings, SameRest, Owns
<1>3. PICK x \in {V!NoSidecar, V!BadSidecar} :
        /\ Edit("settings.state", x)
        /\ mine' = IF x = V!NoSidecar
                     THEN [mine EXCEPT !["settings"].override = IF f.override \in V!CapiUrls THEN "none"
                                                                ELSE f.override]
                     ELSE mine
  BY Zenon DEF EditSidecar
<1>4. IsSidecar(x) /\ ~Known(x)
  BY <1>3 DEF IsSidecar, Known, V!NoSidecar, V!BadSidecar
<1>5. CASE x = V!NoSidecar
  <2> DEFINE v == IF f.override \in V!CapiUrls THEN "none" ELSE f.override
             m == [override |-> v, list |-> own.list, other |-> own.other]
  <2>1. mine' = [mine EXCEPT !["settings"] = m]
    <3>1. mine' = [mine EXCEPT !["settings"] = [@ EXCEPT !.override = v]]
      BY <1>3, <1>5, Zenon
    <3>2. \A w : [own EXCEPT !.override = w] = [override |-> w, list |-> own.list, other |-> own.other]
      BY <1>1
    <3>3. [own EXCEPT !.override = v] = m
      BY <3>2, Zenon
    <3> QED
      BY <3>1, <3>3, Zenon
  <2>2. m = [override |-> m.override, list |-> m.list, other |-> m.other]
        /\ m.override = v /\ m.list = own.list /\ m.other = own.other
    BY Zenon
  <2>3. f.kind = "absent" => v = "none"
    BY <1>1 DEF IsSettings, V!NoFile, V!Bare, V!NoOverride
  <2> HIDE DEF m, v, f
  <2>4. /\ f.other = m.other /\ ("user" \in f.ignored.entries) = m.list
        /\ f.kind = "absent" => m.override \in {"none", "deleted"}
    BY <1>2, <2>2, <2>3, Zenon
  <2>5. m.override \in {IF f.override \in V!CapiUrls THEN "none" ELSE f.override, "deleted"}
    BY <2>2, Zenon DEF v
  <2> QED
    BY <1>1, <1>3, <1>4, <2>1, <2>2, <2>4, <2>5, VsCodeStep, Zenon DEF f
<1>6. CASE x # V!NoSidecar
  <2>1. mine' = [mine EXCEPT !["settings"] = own]
    BY <1>1, <1>3, <1>6, SMTT(30)
  <2> QED
    BY <1>1, <1>2, <1>3, <1>4, <1>6, <2>1, VsCodeStep, Zenon
<1> QED
  BY <1>5, <1>6

\* What the user may make of settings.json.
MadeOf(f) ==
  LET entries(es) == [f EXCEPT !.kind = "object", !.ignored = [present |-> TRUE, entries |-> es]]
  IN  {V!NoFile, [f EXCEPT !.kind = "object", !.other = TRUE],
       entries(f.ignored.entries \cup {"user"}), entries(f.ignored.entries \ V!Ours),
       [f EXCEPT !.kind = IF f.kind = "object" THEN "invalid" ELSE "object"]}
      \cup {[f EXCEPT !.kind = "object", !.override = v] : v \in {"user", "null", "none"}}

LEMMA SettingsRecord ==
  ASSUME NEW x, NEW a \in {"object", "invalid"}, NEW b, NEW c, NEW d,
         c = [present |-> c.present, entries |-> c.entries],
         x = [kind |-> a, override |-> b, ignored |-> c, other |-> d]
  PROVE  IsSettings(x) /\ x.kind # "absent" /\ x.override = b
BY DEF IsSettings

LEMMA UserSettings ==
  ASSUME NEW f, IsSettings(f), NEW x \in MadeOf(f)
  PROVE  /\ IsSettings(x)
         /\ x.kind = "absent" => x = V!NoFile
         /\ x.override = f.override \/ x.override \notin V!CapiUrls
<1>1. /\ f = [kind |-> f.kind, override |-> f.override, ignored |-> f.ignored, other |-> f.other]
      /\ f.ignored = [present |-> f.ignored.present, entries |-> f.ignored.entries]
  BY Zenon DEF IsSettings
<1>2. CASE x = V!NoFile
  BY <1>2 DEF V!NoFile, V!Bare, V!NoList, V!NoOverride, V!CapiUrls, IsSettings
<1>3. CASE x = [f EXCEPT !.kind = "object", !.other = TRUE]
  <2>1. x = [kind |-> "object", override |-> f.override, ignored |-> f.ignored, other |-> TRUE]
    BY <1>1, <1>3, Zenon
  <2> QED
    BY <1>1, <2>1, SettingsRecord, Zenon
<1>4. ASSUME NEW es, x = [f EXCEPT !.kind = "object", !.ignored = [present |-> TRUE, entries |-> es]]
      PROVE  IsSettings(x) /\ x.kind # "absent" /\ x.override = f.override
  <2> DEFINE c == [present |-> TRUE, entries |-> es]
  <2>1. c = [present |-> c.present, entries |-> c.entries]
    BY Zenon
  <2>2. x = [kind |-> "object", override |-> f.override, ignored |-> c, other |-> f.other]
    BY <1>1, <1>4, Zenon
  <2> HIDE DEF c
  <2> QED
    BY <2>1, <2>2, SettingsRecord, Zenon
<1>5. CASE x = [f EXCEPT !.kind = IF f.kind = "object" THEN "invalid" ELSE "object"]
  <2> DEFINE k == IF f.kind = "object" THEN "invalid" ELSE "object"
  <2>1. k \in {"object", "invalid"}
    OBVIOUS
  <2> HIDE DEF k
  <2>2. x = [f EXCEPT !.kind = k]
    BY <1>5, Zenon DEF k
  <2>3. x = [kind |-> k, override |-> f.override, ignored |-> f.ignored, other |-> f.other]
    BY <1>1, <2>2, Zenon
  <2> QED
    BY <1>1, <2>1, <2>3, SettingsRecord, Zenon
<1>6. ASSUME NEW v \in {"user", "null", "none"}, x = [f EXCEPT !.kind = "object", !.override = v]
      PROVE  IsSettings(x) /\ x.kind # "absent" /\ x.override \notin V!CapiUrls
  <2>1. x = [kind |-> "object", override |-> v, ignored |-> f.ignored, other |-> f.other]
    BY <1>1, <1>6, Zenon
  <2>2. v \notin V!CapiUrls
    BY DEF V!CapiUrls
  <2> QED
    BY <1>1, <2>1, <2>2, SettingsRecord, Zenon
<1> QED
  BY <1>2, <1>3, <1>4, <1>5, <1>6, Zenon DEF MadeOf

LEMMA EditVsCodeIInv ==
  ASSUME IInv, pc # "applying", EditVsCode
  PROVE  IInv'
<1> DEFINE f == disk["settings"]
           s == disk["settings.state"]
           own == mine["settings"]
           Over(x) == CASE s = V!NoSidecar -> IF x.override # f.override THEN x.override ELSE own.override
                        [] s # V!NoSidecar -> IF x = V!NoFile THEN "deleted" ELSE own.override
<1>1. /\ program = "vscode" /\ IsSettings(f) /\ mine = [q \in DOMAIN Start(host) |-> mine[q]]
      /\ "settings" \in DOMAIN Start(host)
  BY StartPaths, Zenon DEF EditVsCode, IInv, Typed, OnDisk
<1>2. /\ s = V!NoSidecar => own.override \in {IF f.override \in V!CapiUrls THEN "none" ELSE f.override, "deleted"}
      /\ Known(s) => own.override \in {V!read_state(s).override_before, "deleted"}
  BY <1>1, Zenon DEF IInv, Mine, MineSettings, Restored, Owns
<1>3. PICK x : /\ Edit("settings", x)
               /\ IsSettings(x)
               /\ x.kind = "absent" => x = V!NoFile
               /\ x.override = f.override \/ x.override \notin V!CapiUrls
               /\ mine' = [mine EXCEPT !["settings"] = [override |-> Over(x),
                                                        list |-> "user" \in x.ignored.entries,
                                                        other |-> x.other]]
  <2>1. PICK x : /\ x \in MadeOf(f)
                 /\ Edit("settings", x)
                 /\ mine' = [mine EXCEPT !["settings"] = [override |-> Over(x),
                                                          list |-> "user" \in x.ignored.entries,
                                                          other |-> x.other]]
    BY Zenon DEF EditVsCode, MadeOf
  <2> HIDE DEF f, s, own, Over
  <2> QED
    BY <1>1, <2>1, UserSettings, Zenon
<1> DEFINE m == [override |-> Over(x), list |-> "user" \in x.ignored.entries, other |-> x.other]
<1>4. /\ m.override = Over(x) /\ m.list = ("user" \in x.ignored.entries) /\ m.other = x.other
      /\ m = [override |-> m.override, list |-> m.list, other |-> m.other]
  BY Zenon
<1>5. x = V!NoFile => x.override = "none" /\ "none" \notin V!CapiUrls
  BY DEF V!NoFile, V!Bare, V!NoOverride, V!CapiUrls
<1>6. /\ s = V!NoSidecar => Over(x) = IF x.override # f.override THEN x.override ELSE own.override
      /\ s # V!NoSidecar => Over(x) = IF x = V!NoFile THEN "deleted" ELSE own.override
  BY Zenon
<1>7. x.kind = "absent" => Over(x) \in {"none", "deleted"}
  BY <1>2, <1>3, <1>5, <1>6, Zenon
<1>8. s = V!NoSidecar =>
        Over(x) \in {IF x.override \in V!CapiUrls THEN "none" ELSE x.override, "deleted"}
  BY <1>2, <1>3, <1>6, Zenon
<1>9. Known(s) => Over(x) \in {V!read_state(s).override_before, "deleted"}
  <2>1. ~Known(V!NoSidecar)
    BY DEF Known, V!NoSidecar
  <2> QED
    BY <2>1, <1>2, <1>6, Zenon
<1>10. mine' = [mine EXCEPT !["settings"] = m]
  BY <1>3, Zenon
<1>11. /\ x = IF "settings" = "settings" THEN x ELSE disk["settings"]
       /\ s = IF "settings" = "settings.state" THEN x ELSE disk["settings.state"]
       /\ "settings" \in {"settings", "settings.state"} /\ "settings" # "settings.state"
  OBVIOUS
<1> HIDE DEF m, Over, own, f, s
<1>12. /\ x.other = m.other /\ ("user" \in x.ignored.entries) = m.list
       /\ x.kind = "absent" => m.override \in {"none", "deleted"}
       /\ s = V!NoSidecar =>
            m.override \in {IF x.override \in V!CapiUrls THEN "none" ELSE x.override, "deleted"}
       /\ Known(s) => m.override \in {V!read_state(s).override_before, "deleted"}
  BY <1>4, <1>7, <1>8, <1>9, Zenon
<1> QED
  BY <1>1, <1>3, <1>4, <1>10, <1>11, <1>12, VsCodeStep, Zenon

LEMMA NestedValue ==
  ASSUME NEW key, NEW n, NEW d, DOMAIN key = {"exists", "subkeys", "values", "marker"}
  PROVE  [key EXCEPT !.exists = TRUE, !.values[n] = d]
           = [key EXCEPT !.exists = TRUE, !.values = [key.values EXCEPT ![n] = d]]
OBVIOUS

LEMMA ChangedKey ==
  ASSUME NEW key, NEW x, NEW n, NEW d, x = [key EXCEPT !.exists = TRUE, !.values[n] = d],
         key = [exists |-> key.exists, subkeys |-> key.subkeys, values |-> key.values, marker |-> key.marker]
  PROVE  x = [exists |-> TRUE, subkeys |-> key.subkeys, values |-> [key.values EXCEPT ![n] = d],
              marker |-> key.marker]
<1>1. DOMAIN key = {"exists", "subkeys", "values", "marker"}
  BY Zenon
<1>2. PICK w : w = [key.values EXCEPT ![n] = d]
  BY Zenon
<1>3. x = [key EXCEPT !.exists = TRUE, !.values = w]
  BY <1>1, <1>2, NestedValue, Zenon
<1>4. x = [exists |-> TRUE, subkeys |-> key.subkeys, values |-> w, marker |-> key.marker]
  BY <1>3, Zenon
<1> QED
  BY <1>2, <1>4, Zenon

LEMMA EditPolicyIInv ==
  ASSUME IInv, pc # "applying", EditPolicy
  PROVE  IInv'
<1> DEFINE key == disk["policy"]
           own == mine["policy"]
<1>1. /\ program = "claude-desktop" /\ IsKey(key) /\ "policy" \in DOMAIN Start(host) /\ Typed /\ Mine
      /\ disk = [q \in DOMAIN Start(host) |-> disk[q]] /\ mine = [q \in DOMAIN Start(host) |-> mine[q]]
  BY StartPaths, Zenon DEF EditPolicy, IInv, Typed, OnDisk
<1>2. PICK n \in {"url", "other"}, d \in {"user", None} :
        /\ Edit("policy", [key EXCEPT !.exists = TRUE, !.values[n] = d])
        /\ mine' = [mine EXCEPT !["policy"] =
                      IF d = "user" /\ n \notin key.marker.names THEN @ \cup {n} ELSE @ \ {n}]
  BY Zenon DEF EditPolicy
<1> DEFINE k == [key EXCEPT !.exists = TRUE, !.values[n] = d]
           M == IF d = "user" /\ n \notin key.marker.names THEN own \cup {n} ELSE own \ {n}
<1>3. k = [exists |-> TRUE, subkeys |-> key.subkeys, values |-> [key.values EXCEPT ![n] = d],
           marker |-> key.marker]
  <2>1. key = [exists |-> key.exists, subkeys |-> key.subkeys, values |-> key.values, marker |-> key.marker]
    BY <1>1, Zenon DEF IsKey
  <2> HIDE DEF key
  <2>2. PICK x : x = k
    BY Zenon
  <2>3. x = [exists |-> TRUE, subkeys |-> key.subkeys, values |-> [key.values EXCEPT ![n] = d],
             marker |-> key.marker]
    BY <2>1, <2>2, ChangedKey, Zenon
  <2> QED
    BY <2>2, <2>3, Zenon
<1>4. mine' = [mine EXCEPT !["policy"] = M]
  BY <1>2, Zenon
<1>5. UNCHANGED <<host, config, proxy, pc, plan, done>> /\ disk' = [disk EXCEPT !["policy"] = k]
  BY <1>2, Zenon DEF Edit
<1> HIDE DEF key, k
<1>6. n \in R!Names
  BY <1>2 DEF R!Names
<1>7. /\ IsKey(k) /\ k.marker = key.marker /\ k.values[n] = d
      /\ \A i \in R!Names : i # n => k.values[i] = key.values[i]
  BY <1>1, <1>3, <1>6 DEF IsKey
<1>8. \A i \in M : i \in R!Names /\ k.values[i] = "user" /\ i \notin k.marker.names
  <2>1. \A i \in own : i \in R!Names /\ key.values[i] = "user" /\ i \notin key.marker.names
    BY <1>1, Zenon DEF Mine, MinePolicy, key
  <2> QED
    BY <1>6, <1>7, <2>1, Zenon
<1> HIDE DEF M
<1>9. /\ disk' = [q \in DOMAIN Start(host) |-> disk'[q]] /\ disk'["policy"] = k
      /\ \A q \in DOMAIN Start(host) : q # "policy" => disk'[q] = disk[q]
      /\ mine' = [q \in DOMAIN Start(host) |-> mine'[q]] /\ mine'["policy"] = M
      /\ \A q \in DOMAIN Start(host) : q # "policy" => mine'[q] = mine[q]
  BY <1>1, <1>4, <1>5, Zenon
<1>10. program' = program /\ Whole' = Whole
  BY <1>5, SameHost, Zenon
<1>11. \A path \in Whole : /\ path \in DOMAIN Start(host) /\ path # "policy" /\ IsFile(disk[path])
                           /\ Owner(path) \in DOMAIN Start(host) /\ Owner(path) # "policy"
  <2> TAKE path \in Whole
  <2>1. Owner(path) \in DOMAIN Start(host) /\ Owner(path) # "policy"
    BY <1>1, StartPaths DEF Owner
  <2> QED
    BY <1>1, <2>1, StartPaths, WholeOf, Zenon DEF Typed, OnDisk
<1>12. program # "vscode"
  BY <1>1
<1>13. OnDisk(disk')
  BY <1>7, <1>9, <1>11, <1>12, Zenon DEF OnDisk
<1>14. MineWhole'
  <2> SUFFICES ASSUME NEW path \in Whole, mine[path] # Empty
               PROVE  /\ disk'[path].doc = mine[path] /\ mine[path]["other"] = "user"
                      /\ ~TakenForManaged(path)'
    BY <1>9, <1>10, <1>11, Zenon DEF MineWhole
  <2>1. disk'[path] = disk[path] /\ disk'[Owner(path)] = disk[Owner(path)]
    BY <1>9, <1>11, Zenon
  <2>2. TakenForManaged(path)' <=> TakenForManaged(path)
    BY <1>10, <2>1, Zenon DEF TakenForManaged, is_owned
  <2> QED
    BY <1>1, <2>1, <2>2, Zenon DEF Mine, MineWhole
<1>15. MinePolicy'
  BY <1>8, <1>9, Zenon DEF MinePolicy
<1>16. MineSettings'
  BY <1>10, <1>12, Zenon DEF MineSettings
<1> QED
  BY <1>5, <1>9, <1>12, <1>13, <1>14, <1>15, <1>16, UserStep, ZenonT(30) DEF Mine

LEMMA UserIInv ==
  ASSUME IInv, User
  PROVE  IInv'
<1>1. pc # "applying"
  BY Zenon DEF User
<1>2. ASSUME NEW path \in Documents, EditDocument(path) PROVE IInv'
  BY <1>1, <1>2, EditWholeIInv, EditOtherIInv, Zenon
<1> QED
  BY <1>1, <1>2, LoosenIInv, DeleteStateIInv, EditVsCodeIInv, EditSidecarIInv, EditPolicyIInv,
     Zenon DEF User

-----------------------------------------------------------------------------
(* The first state, and the theorems *)

LEMMA StartFiles ==
  ASSUME host \in Hosts
  PROVE  /\ OnDisk(Start(host))
         /\ \A path \in Whole : Start(host)[path] = Absent
         /\ program = "vscode" => /\ Start(host)["settings"] = V!NoFile
                                  /\ Start(host)["settings.state"] = V!NoSidecar
<1>1. program \in Programs
  BY HostsAssumption DEF program
<1>2. Start(host) = [q \in DOMAIN Start(host) |-> Start(host)[q]]
  BY <1>1 DEF Start, Programs, program
<1>3. \A path \in Whole : Start(host)[path] = Absent
  BY <1>1 DEF Whole, Start, program
<1>4. program = "claude-desktop" => Start(host)["policy"] = R!NoKey
  BY DEF Start, program
<1>5. program = "vscode" => /\ Start(host)["settings"] = V!NoFile
                            /\ Start(host)["settings.state"] = V!NoSidecar
  BY DEF Start, program
<1>6. IsFile(Absent)
  BY ZenonT(30) DEF Absent, IsFile, IsDoc, Empty
<1>7. IsKey(R!NoKey)
  BY SMTT(30) DEF IsKey, IsMarker, R!NoKey, R!NoMarker
<1>8. IsSettings(V!NoFile) /\ IsSidecar(V!NoSidecar)
  BY DEF IsSettings, V!NoFile, V!Bare, V!NoList, IsSidecar
<1> QED
  BY <1>2, <1>3, <1>4, <1>5, <1>6, <1>7, <1>8, Zenon DEF OnDisk

\* What an earlier daemon left.
LEMMA InheritedFiles ==
  ASSUME host \in Hosts, program = "vscode"
  PROVE  /\ OnDisk(StartInherited(host))
         /\ DOMAIN StartInherited(host) = DOMAIN Start(host)
         /\ LET f == StartInherited(host)["settings"]
                s == StartInherited(host)["settings.state"]
            IN  /\ f # V!NoFile /\ f.kind # "absent" /\ f.other = TRUE /\ "user" \notin f.ignored.entries
                /\ s # V!NoSidecar /\ V!read_state(s).override_before = "user"
<1> DEFINE f == [kind |-> "object", override |-> "capi1", other |-> TRUE,
                 ignored |-> [present |-> TRUE, entries |-> V!Ours]]
           s == [form |-> "legacy", created |-> FALSE, before |-> Inherited]
           D == {"chat", "chat.state", "settings", "settings.state"}
<1>1. DOMAIN Start(host) = D /\ Whole = {}
  BY DEF Start, Whole, program
<1>2. StartInherited(host) = [Start(host) EXCEPT !["settings"] = f, !["settings.state"] = s]
  BY Zenon DEF StartInherited
<1>3. /\ IsSettings(f) /\ f # V!NoFile /\ f.kind # "absent" /\ f.other = TRUE
      /\ "user" \notin f.ignored.entries
  BY SMTT(30) DEF IsSettings, V!NoFile, V!Bare, V!Ours
<1>4. V!read_state(s).override_before = "user"
  BY DEF V!read_state, Inherited
<1>5. s.form = "legacy" /\ s # V!NoSidecar
  BY DEF V!NoSidecar
<1>6. IsSidecar(s)
  <2>1. "user" \notin V!CapiUrls
    BY DEF V!CapiUrls
  <2> HIDE DEF s
  <2> QED
    BY <1>4, <1>5, <2>1 DEF IsSidecar, Known
<1> HIDE DEF f, s
<1>7. /\ DOMAIN StartInherited(host) = DOMAIN Start(host)
      /\ StartInherited(host) = [q \in DOMAIN Start(host) |-> StartInherited(host)[q]]
      /\ StartInherited(host)["settings"] = f /\ StartInherited(host)["settings.state"] = s
  <2>1. Start(host) = [q \in DOMAIN Start(host) |-> Start(host)[q]]
    BY StartFiles, Zenon DEF OnDisk
  <2> QED
    BY <1>1, <1>2, <2>1, Zenon
<1>8. OnDisk(StartInherited(host))
  BY <1>1, <1>3, <1>6, <1>7, Zenon DEF OnDisk
<1> QED
  BY <1>3, <1>4, <1>5, <1>7, <1>8, Zenon

LEMMA NotListed ==
  ASSUME NEW entries, NEW listed, listed = FALSE, "user" \notin entries
  PROVE  ("user" \in entries) = listed
<1>1. ("user" \in entries) = FALSE
  OBVIOUS
<1> QED
  BY <1>1, Zenon

LEMMA InitIInv ==
  ASSUME Init
  PROVE  IInv
<1> DEFINE First(q) == CASE q = "policy" -> {}
                         [] program = "vscode" /\ q = "settings" ->
                              IF disk[q] = V!NoFile THEN [override |-> "none", list |-> FALSE, other |-> FALSE]
                              ELSE [override |-> "user", list |-> FALSE, other |-> TRUE]
                         [] OTHER -> Empty
<1>1. /\ host \in Hosts /\ config = NotConfigured /\ pc = "idle" /\ done = 0
      /\ disk = Start(host) \/ (program = "vscode" /\ disk = StartInherited(host))
      /\ mine = [q \in DOMAIN disk |-> First(q)]
  <2>1. Inherited.override = "user"
    BY DEF Inherited
  <2> QED
    BY <2>1, Zenon DEF Init
<1>2. OnDisk(disk) /\ DOMAIN disk = DOMAIN Start(host)
  BY <1>1, StartFiles, InheritedFiles, Zenon
<1>3. Configured
  BY <1>1 DEF Configured, NotConfigured, None, Null
<1>4. /\ mine = [q \in DOMAIN Start(host) |-> mine[q]]
      /\ \A q \in DOMAIN Start(host) : mine[q] = First(q)
  <2> HIDE DEF First
  <2> QED
    BY <1>1, <1>2, Zenon
<1>5. program = "vscode" =>
        /\ mine["settings"] = IF disk["settings"] = V!NoFile
                                THEN [override |-> "none", list |-> FALSE, other |-> FALSE]
                                ELSE [override |-> "user", list |-> FALSE, other |-> TRUE]
        /\ mine["settings"] = [override |-> mine["settings"].override, list |-> mine["settings"].list,
                               other |-> mine["settings"].other]
  <2> SUFFICES ASSUME program = "vscode"
               PROVE  /\ mine["settings"] = IF disk["settings"] = V!NoFile
                                THEN [override |-> "none", list |-> FALSE, other |-> FALSE]
                                ELSE [override |-> "user", list |-> FALSE, other |-> TRUE]
                      /\ mine["settings"] = [override |-> mine["settings"].override,
                               list |-> mine["settings"].list, other |-> mine["settings"].other]
    OBVIOUS
  <2>1. "settings" \in DOMAIN Start(host)
    BY DEF Start, program
  <2>2. mine["settings"] = IF disk["settings"] = V!NoFile
                             THEN [override |-> "none", list |-> FALSE, other |-> FALSE]
                             ELSE [override |-> "user", list |-> FALSE, other |-> TRUE]
    BY <1>4, <2>1
  <2> DEFINE m == mine["settings"]
  <2> HIDE DEF m
  <2>3. \A v, a, b : m = [override |-> v, list |-> a, other |-> b] =>
          m = [override |-> m.override, list |-> m.list, other |-> m.other]
    BY Zenon
  <2>4. \E v, a, b : m = [override |-> v, list |-> a, other |-> b]
    BY <2>2, Zenon DEF m
  <2>5. m = [override |-> m.override, list |-> m.list, other |-> m.other]
    BY <2>3, <2>4, Zenon
  <2> QED
    BY <2>2, <2>5, Zenon DEF m
<1>6. Typed
  <2>1. done \in Nat
    BY <1>1
  <2> QED
    BY <1>1, <1>2, <1>3, <1>4, <1>5, <2>1, Zenon DEF Typed
<1>7. MineWhole
  <2>1. \A path \in Whole : path \in DOMAIN Start(host) /\ path # "policy" /\ program # "vscode"
    BY <1>6, StartPaths, WholeOf
  <2>2. \A path \in Whole : mine[path] = Empty
    BY <1>4, <2>1, Zenon
  <2> QED
    BY <2>2, Zenon DEF MineWhole
<1>8. MinePolicy
  <2>1. program = "claude-desktop" => mine["policy"] = {}
    BY <1>4, <1>6, StartPaths, Zenon
  <2> QED
    BY <2>1, Zenon DEF MinePolicy
<1>9. MineSettings
  <2> SUFFICES ASSUME program = "vscode" PROVE MineSettings
    BY Zenon DEF MineSettings
  <2>1. CASE disk = Start(host)
    <3>1. disk["settings"] = V!NoFile /\ disk["settings.state"] = V!NoSidecar
      BY <1>1, <2>1, StartFiles, Zenon
    <3>2. mine["settings"] = [override |-> "none", list |-> FALSE, other |-> FALSE]
      BY <1>5, <3>1, Zenon
    <3>3. mine["settings"].override = "none"
      BY <3>2
    <3>4. /\ V!NoFile.override = "none" /\ V!NoFile.ignored.entries = {} /\ V!NoFile.other = FALSE
          /\ "none" \notin V!CapiUrls
      BY DEF V!NoFile, V!Bare, V!NoList, V!NoOverride, V!CapiUrls
    <3>5. mine["settings"].list = FALSE /\ mine["settings"].other = FALSE
      BY <3>2
    <3>6. ("user" \in V!NoFile.ignored.entries) = mine["settings"].list
      BY <3>4, <3>5, NotListed, Zenon
    <3>7. SameRest(V!NoFile) /\ Restored(V!NoFile)
      BY <3>3, <3>4, <3>5, <3>6, Zenon DEF SameRest, Restored, Owns
    <3>8. ~Known(V!NoSidecar)
      BY DEF Known, V!NoSidecar
    <3> QED
      BY <3>1, <3>7, <3>8, Zenon DEF MineSettings
  <2>2. CASE disk = StartInherited(host)
    <3> DEFINE f == disk["settings"]
               s == disk["settings.state"]
    <3>1. /\ f # V!NoFile /\ f.kind # "absent" /\ f.other = TRUE /\ "user" \notin f.ignored.entries
          /\ s # V!NoSidecar /\ V!read_state(s).override_before = "user"
      BY <1>1, <2>2, InheritedFiles, Zenon
    <3>2. mine["settings"] = [override |-> "user", list |-> FALSE, other |-> TRUE]
      BY <1>5, <3>1, Zenon
    <3>3. /\ mine["settings"].list = FALSE /\ mine["settings"].other = TRUE
          /\ mine["settings"].override = "user"
      BY <3>2
    <3> HIDE DEF f
    <3>4. ("user" \in f.ignored.entries) = mine["settings"].list
      BY <3>1, <3>3, NotListed, Zenon
    <3>5. SameRest(f) /\ Owns("user")
      BY <3>1, <3>3, <3>4, Zenon DEF SameRest, Owns
    <3> QED
      BY <3>1, <3>5, Zenon DEF MineSettings, f
  <2> QED
    BY <1>1, <2>1, <2>2, Zenon
<1>10. Made /\ Applying
  BY <1>1 DEF Made, Applying
<1> QED
  BY <1>6, <1>7, <1>8, <1>9, <1>10, Zenon DEF IInv, Mine

LEMMA NextIInv ==
  ASSUME IInv, [Next]_vars
  PROVE  IInv'
<1>1. CASE UNCHANGED vars
  <2>1. UNCHANGED <<host, disk, config, proxy, pc, plan, done, mine>>
    BY <1>1, Zenon DEF vars
  <2>2. CASE pc # "applying"
    <3>1. Typed' /\ Mine'
      BY <2>1, SameFiles, SameConfig, Zenon DEF IInv, Typed
    <3> QED
      BY <2>1, <2>2, <3>1, UserStep, Zenon DEF IInv, Typed
  <2>3. CASE pc = "applying"
    <3>1. Typed' /\ Mine'
      BY <2>1, SameFiles, SameConfig, Zenon DEF IInv, Typed
    <3>2. Safe(plan.ops, done)'
      <4>1. Safe(plan.ops, done)
        BY <2>3, Zenon DEF IInv, Applying
      <4>2. \A d : Safe(plan.ops, d) => Safe(plan.ops, d)'
        BY <2>1, SameSafe, Zenon
      <4> QED
        BY <2>1, <4>1, <4>2, Zenon
    <3>3. Applying'
      BY <2>1, <2>3, <3>2, Zenon DEF IInv, Applying
    <3>4. Made'
      BY <2>1, <2>3 DEF Made
    <3> QED
      BY <3>1, <3>3, <3>4, ZenonT(30) DEF IInv
  <2> QED
    BY <2>2, <2>3
<1>2. CASE Next
  BY <1>2, PlanAllIInv, QuietIInv, ValidateIInv, PerformIInv, UserIInv, ConfigureIInv,
     Zenon DEF Next, Daemon
<1> QED
  BY <1>1, <1>2, Zenon

(* The invariant: a plan is either made from files that were there, or its *)
(* remaining operations touch nothing of the user's in the order that lets *)
(* removal restore it.                                                     *)
THEOREM Invariance == Spec => []IInv
<1>1. Init => IInv
  BY InitIInv
<1>2. IInv /\ [Next]_vars => IInv'
  BY NextIInv
<1> QED
  BY <1>1, <1>2, PTL DEF Spec

(* Reconciliation keeps what is the user's (UserKept): whole files without *)
(* the header or the owner marker, registry values nobody claimed, other   *)
(* settings of settings.json and the override from before the first apply. *)
THEOREM UserIsKept == Spec => []UserKept
<1>1. IInv => UserKept
  <2> SUFFICES ASSUME IInv PROVE UserKept
    OBVIOUS
  <2>1. \A path \in Whole : mine[path] # Empty => disk[path].doc = mine[path]
    BY Zenon DEF IInv, Mine, MineWhole
  <2>2. program = "claude-desktop" => \A n \in mine["policy"] : disk["policy"].values[n] = "user"
    BY Zenon DEF IInv, Mine, MinePolicy
  <2>3. program = "vscode" =>
          LET f == disk["settings"]
          IN  /\ f.other = mine["settings"].other
              /\ ("user" \in f.ignored.entries) = mine["settings"].list
              /\ disk["settings.state"] = V!NoSidecar /\ f.override \notin V!CapiUrls =>
                   mine["settings"].override \in {f.override, "deleted"}
    BY Zenon DEF IInv, Mine, MineSettings, SameRest, Restored, Owns
  <2> QED
    BY <2>1, <2>2, <2>3, Zenon DEF UserKept
<1> QED
  BY <1>1, Invariance, PTL

(* FailClosed: without the proxy no operation of an apply is on the file   *)
(* of the configured route (fail_closed_without_proxy in copilot/reconcile *)
(* and vscode/settings).                                                   *)
THEOREM RouteLeftAlone == Spec => FailClosed
<1> DEFINE Kept == IF program = "vscode" /\ config.copilot_chat = "githubModels"
                     THEN disk'["settings"] = disk["settings"]
                     ELSE \A path \in Entries : disk'[path] = disk[path]
           Step == (/\ program \in {"copilot", "vscode"} /\ gateway(config) /\ proxy = None
                    /\ config.gateway.when_unavailable = "failClosed" /\ fresh /\ pc = "applying") => Kept
<1>1. IInv /\ [Next]_vars => [Step]_vars
  <2> SUFFICES ASSUME IInv, Next, pc = "applying", program \in {"copilot", "vscode"}, gateway(config),
                      proxy = None, config.gateway.when_unavailable = "failClosed"
               PROVE  Kept
    BY Zenon
  <2>1. CASE disk' = disk
    BY <2>1, Zenon
  <2>2. CASE Perform
    <3> DEFINE o == plan.ops[done + 1]
    <3>1. /\ Typed /\ IsList(plan.ops) /\ done < Len(plan.ops) /\ Safe(plan.ops, done) /\ done \in Nat
      BY Zenon DEF IInv, Applying, Typed
    <3>2. done + 1 \in done + 1 .. Len(plan.ops)
      BY <3>1, ListLength
    <3>3. RouteSafe(o)
      BY <3>1, <3>2, Zenon DEF Safe
    <3> HIDE DEF o
    <3>4. o.path \notin Route
      BY <3>3, Zenon DEF RouteSafe, FailsClosed, fail_closed_without_proxy
    <3>5. \A q \in DOMAIN Start(host) : q # o.path => disk'[q] = disk[q]
      BY <2>2, <3>1, OneFile, Zenon DEF o
    <3>6. Entries \subseteq DOMAIN Start(host) /\ (program = "vscode" => "settings" \in DOMAIN Start(host))
      BY <3>1, StartPaths, Zenon
    <3> QED
      BY <3>4, <3>5, <3>6, Zenon DEF Route
  <2>3. Perform \/ disk' = disk
    <3>1. ~PlanAll /\ ~Configure /\ ~User /\ ~Refuse /\ ~Validate /\ \A x : ~Restart(x)
      BY DEF PlanAll, Configure, User, Refuse, Validate, Restart
    <3> QED
      BY <3>1, ZenonT(30) DEF Next, Daemon, OperationFails
  <2> QED
    BY <2>1, <2>2, <2>3
<1> QED
  BY <1>1, Invariance, PTL DEF Spec, FailClosed

-----------------------------------------------------------------------------
(* Why a plan fails *)

\* Something among what was read, what the registry cannot hold, or a null in TOML.
Blocked(fs, reads) ==
  \/ \E path \in Documents \cap reads : fs[path].kind = "unreadable"
  \/ program = "vscode" /\ "settings.state" \in reads /\ fs["settings.state"] = V!BadSidecar
  \/ program = "claude-desktop" /\ host.windows /\ "odd" \in config.extra \cup config.nulls
  \/ program \in {"codex", "grok"} /\ config.nulls # {}
Excused(fs, p) == p.verdict = "failed" => Blocked(fs, p.reads)

LEMMA ExcusedPieces ==
  ASSUME NEW fs
  PROVE  /\ \A v, ops, reads : v # "failed" => Excused(fs, Piece(v, ops, reads))
         /\ \A ops, reads, path : path \in Documents /\ path \in reads /\ fs[path].kind = "unreadable" =>
              Excused(fs, Piece("failed", ops, reads))
         /\ \A a, b : Excused(fs, a) /\ Excused(fs, b) => Excused(fs, Then(a, b))
         /\ \A m, p : m.ok /\ Excused(fs, p) => Excused(fs, Unless(m, p))
         /\ Excused(fs, Nothing)
<1>1. \A v, ops, reads : v # "failed" => Excused(fs, Piece(v, ops, reads))
  BY DEF Excused, Piece
<1>2. \A ops, reads, path : path \in Documents /\ path \in reads /\ fs[path].kind = "unreadable" =>
              Excused(fs, Piece("failed", ops, reads))
  <2>1. \A ops, reads : Blocked(fs, reads) => Excused(fs, Piece("failed", ops, reads))
    BY DEF Excused, Piece
  <2> QED
    BY <2>1, Zenon DEF Blocked
<1>3. ASSUME NEW a, NEW b, Excused(fs, a), Excused(fs, b)
      PROVE  Excused(fs, Then(a, b))
  <2>1. Then(a, b).verdict = "failed" => "failed" \in {a.verdict, b.verdict}
    BY DEF Then
  <2>2. Then(a, b).reads = a.reads \cup b.reads
    BY DEF Then
  <2>3. Blocked(fs, a.reads) \/ Blocked(fs, b.reads) => Blocked(fs, Then(a, b).reads)
    BY <2>2, Zenon DEF Blocked
  <2> QED
    BY <1>3, <2>1, <2>3, Zenon DEF Excused
<1>4. \A m, p : m.ok /\ Excused(fs, p) => Excused(fs, Unless(m, p))
  BY Zenon DEF Unless
<1>5. Excused(fs, Nothing)
  BY <1>1 DEF Nothing
<1> QED
  BY <1>1, <1>2, <1>3, <1>4, <1>5, Zenon

\* validate_daemon accepts only what the providers can generate.
LEMMA ValidGenerates ==
  ASSUME Configured, config.configured
  PROVE  /\ config.nulls = {} => CodexConfig(config).ok
         /\ program = "grok" /\ config.nulls = {} => GrokConfig(config).ok
         /\ program = "opencode" => OpenCodeConfig(config).ok
         /\ program = "pi" => PiModels(config).ok /\ PiSettings(config).ok
<1>1. validate_daemon(program, config)
  BY Zenon DEF Configured
<1>2. program \in {"grok", "opencode"} => ValidModel(program, config)
  BY <1>1, Zenon DEF validate_daemon
<1>3. program = "pi" => ValidPi(config)
  BY <1>1, Zenon DEF validate_daemon
<1>4. program \in {"grok", "opencode", "pi"} /\ gateway(config) => Named(config.model)
  BY <1>2, <1>3, Zenon DEF ValidModel, ValidPi
<1>5. \A d : Managed(d).ok
  BY DEF Managed
<1>6. ASSUME config.nulls = {}
      PROVE  CodexConfig(config).ok /\ (program = "grok" => GrokConfig(config).ok)
  <2> DEFINE Plain(d) == \A k \in Settings : d[k] # Null
  <2>1. Plain(Empty) /\ Plain(PassThrough(config))
    BY <1>6 DEF Empty, PassThrough, None, Null
  <2>2. /\ \A a, b : Plain(a) /\ Plain(b) => Plain(MergeOverlay(a, b))
        /\ \A a, ks : Plain(a) => Plain(Without(a, ks))
    BY DEF MergeOverlay, Without, None, Null
  <2>3. Plain(Of("url", "gateway")) /\ Plain(Of("sandbox", "limits"))
    BY DEF Of, Empty, None, Null, Settings
  <2>4. config.model # Null
    BY Zenon DEF Configured
  <2>5. /\ Plain(Provider(config, Of("url", "gateway")))
        /\ Plain(Provider(config, [Of("url", "gateway") EXCEPT !["model"] = config.model]))
    BY <2>4 DEF Provider, Of, Empty, None, Null, Settings
  <2>6. \A d : Plain(d) => Toml(d).ok
    BY DEF Toml
  <2> HIDE DEF Plain
  <2>7. CodexConfig(config).ok
    BY <2>1, <2>2, <2>3, <2>5, <2>6, Zenon DEF CodexConfig
  <2>8. program = "grok" => GrokConfig(config).ok
    BY <1>4, <2>1, <2>2, <2>5, <2>6, Zenon DEF GrokConfig
  <2> QED
    BY <2>7, <2>8
<1>7. program = "opencode" => OpenCodeConfig(config).ok
  <2>1. Named(config.model) => config.model # None
    BY Zenon DEF Named
  <2> QED
    BY <1>4, <1>5, <2>1, Zenon DEF OpenCodeConfig
<1>8. program = "pi" => PiModels(config).ok /\ PiSettings(config).ok
  BY <1>4, <1>5, Zenon DEF PiModels, PiSettings
<1> QED
  BY <1>6, <1>7, <1>8, Zenon

LEMMA MergeExcused ==
  ASSUME NEW fs, NEW path \in Documents, NEW h, NEW d, NEW l
  PROVE  Excused(fs, MergeInto(h, path, d, fs, l)) /\ Excused(fs, TakeOut(h, path, fs))
<1>1. \A p, m, removing : /\ Merged(path, p, fs, m, removing).verdict = p.verdict
                          /\ Merged(path, p, fs, m, removing).reads = {path, State(path)}
  <2> TAKE p, m, removing
  <2>1. PICK ops : Merged(path, p, fs, m, removing) = Piece(p.verdict, ops, {path, State(path)})
    BY Zenon DEF Merged
  <2> DEFINE q == Merged(path, p, fs, m, removing)
  <2> HIDE DEF q
  <2>2. q = [verdict |-> p.verdict, ops |-> ops, reads |-> {path, State(path)}]
    BY <2>1, Zenon DEF q, Piece
  <2>3. q.verdict = p.verdict /\ q.reads = {path, State(path)}
    BY <2>2, SMTT(30)
  <2> QED
    BY <2>3, Zenon DEF q
<1>2. PlanMerge(h, d, fs[path], fs[State(path)]).verdict = "failed" => fs[path].kind = "unreadable"
  BY SMTT(30) DEF PlanMerge, Refused, Planned
<1>3. PlanRemove(h, ManagedValues, fs[path], fs[State(path)]).verdict = "failed" => fs[path].kind = "unreadable"
  BY DEF PlanRemove, Refused, Planned
<1>4. \A p, m, removing : (p.verdict = "failed" => fs[path].kind = "unreadable") =>
                            Excused(fs, Merged(path, p, fs, m, removing))
  <2>1. fs[path].kind = "unreadable" => Blocked(fs, {path, State(path)})
    BY Zenon DEF Blocked
  <2> QED
    BY <1>1, <2>1, Zenon DEF Excused
<1> QED
  BY <1>2, <1>3, <1>4, Zenon DEF MergeInto, TakeOut

LEMMA EntriesExcused ==
  ASSUME NEW fs, NEW path \in Documents, NEW c, NEW l, NEW x
  PROVE  Excused(fs, RemoveEntries(path, fs, x)) /\ Excused(fs, PlanEntries(path, c, fs, l, x))
<1>1. \A y : Excused(fs, RemoveEntries(path, fs, y))
  BY MergeExcused, ExcusedPieces, Zenon DEF RemoveEntries
<1>2. Excused(fs, PlanEntries(path, c, fs, l, x))
  BY <1>1, MergeExcused, ExcusedPieces, Zenon DEF PlanEntries
<1> QED
  BY <1>1, <1>2, Zenon

LEMMA SettingsExcused ==
  ASSUME NEW fs, program = "vscode", OnDisk(fs), NEW c, NEW l, NEW x
  PROVE  Excused(fs, PlanSettings(c, fs, l, x))
<1>1. fs["settings"].kind # "unreadable"
  <2>1. fs["settings"].kind \in {"absent", "object", "invalid"}
    BY Zenon DEF OnDisk, IsSettings
  <2> QED
    BY <2>1
<1>2. \A s : V!read_state(s) = V!BadSidecar => s = V!BadSidecar
  <2> TAKE s
  <2>1. CASE s.form = "legacy"
    <3>1. V!read_state(s).form = "v2"
      BY <2>1 DEF V!read_state
    <3>2. V!BadSidecar.form = "bad"
      BY DEF V!BadSidecar
    <3> QED
      BY <3>1, <3>2, SMTT(30)
  <2>2. CASE s.form # "legacy"
    BY <2>2, Zenon DEF V!read_state
  <2> QED
    BY <2>1, <2>2
<1>3. ASSUME V!read_state(fs["settings.state"]) = V!BadSidecar, NEW ops
      PROVE  Excused(fs, Piece("failed", ops, {"settings", "settings.state"}))
  <2>1. fs["settings.state"] = V!BadSidecar
    BY <1>2, <1>3, Zenon
  <2> QED
    <3>1. Blocked(fs, {"settings", "settings.state"})
      BY <2>1, Zenon DEF Blocked
    <3> QED
      BY <3>1 DEF Excused, Piece
<1>4. \A y : Excused(fs, EditSettings(fs, l, y))
  BY <1>1, <1>3, ExcusedPieces, Zenon DEF EditSettings
<1>5. Excused(fs, RemoveSettings(fs))
  BY <1>1, <1>3, ExcusedPieces, Zenon DEF RemoveSettings
<1> QED
  BY <1>4, <1>5, ExcusedPieces, Zenon DEF PlanSettings

LEMMA HeadedExcused ==
  ASSUME NEW fs, program \in {"codex", "grok", "opencode"}, Configured, NEW l
  PROVE  Excused(fs, PlanFor(host, config, fs, l, proxy))
<1>1. "config" \in Documents /\ (program = "opencode" => "plugin" \in Documents)
  BY DEF Documents, Whole
<1>2. \A d : \A path \in Documents : /\ Excused(fs, HeadedFile(path, d, fs[path], l))
                                      /\ Excused(fs, RemoveHeaded(path, fs[path]))
  <2> TAKE d
  <2> TAKE path \in Documents
  <2>1. \A ops : fs[path].kind = "unreadable" => Excused(fs, Piece("failed", ops, {path}))
    BY ExcusedPieces, Zenon
  <2>2. \A v, ops, reads : v # "failed" => Excused(fs, Piece(v, ops, reads))
    BY ExcusedPieces, Zenon
  <2> QED
    BY <2>1, <2>2, Zenon DEF HeadedFile, RemoveHeaded
<1>n. \A p : program \in {"codex", "grok"} /\ config.nulls # {} => Excused(fs, p)
  BY Zenon DEF Excused, Blocked
<1>3. program = "codex" => Excused(fs, PlanCodex(config, fs, l))
  BY <1>1, <1>2, <1>n, ValidGenerates, ExcusedPieces, Zenon DEF PlanCodex
<1>4. program = "grok" => Excused(fs, PlanGrok(config, fs, l))
  BY <1>1, <1>2, <1>n, ValidGenerates, ExcusedPieces, Zenon DEF PlanGrok
<1>5. program = "opencode" => Excused(fs, PlanOpenCode(config, fs, l))
  <2> HAVE program = "opencode"
  <2>1. Excused(fs, IF uses_credential_helper(config)
                      THEN HeadedFile("plugin", credential_plugin, fs["plugin"], l)
                      ELSE RemoveHeaded("plugin", fs["plugin"]))
    BY <1>1, <1>2, Zenon
  <2>2. config.configured =>
          Excused(fs, Unless(OpenCodeConfig(config),
                             HeadedFile("config", OpenCodeConfig(config).doc, fs["config"], l)))
    BY <1>1, <1>2, ValidGenerates, ExcusedPieces, Zenon
  <2>3. Excused(fs, Then(RemoveHeaded("config", fs["config"]), RemoveHeaded("plugin", fs["plugin"])))
    BY <1>1, <1>2, ExcusedPieces, Zenon
  <2> QED
    BY <2>1, <2>2, <2>3, ExcusedPieces, Zenon DEF PlanOpenCode
<1> QED
  BY <1>3, <1>4, <1>5, ExcusedPieces, Zenon DEF PlanFor, program

LEMMA DesktopExcused ==
  ASSUME NEW fs, program = "claude-desktop", NEW l
  PROVE  Excused(fs, PlanFor(host, config, fs, l, proxy))
<1>1. "settings" \in Documents /\ "helper" \in Documents
  BY DEF Documents, Whole
<1>2. \A d : \A path \in Documents : /\ Excused(fs, write_owned(path, d, fs, l))
                                     /\ Excused(fs, remove_owned(path, fs))
  <2> TAKE d
  <2> TAKE path \in Documents
  <2>1. \A ops : fs[path].kind = "unreadable" => Excused(fs, Piece("failed", ops, {path, Owner(path)}))
    BY ExcusedPieces, Zenon
  <2>2. \A v, ops, reads : v # "failed" => Excused(fs, Piece(v, ops, reads))
    BY ExcusedPieces, Zenon
  <2> QED
    BY <2>1, <2>2, Zenon DEF write_owned, remove_owned
<1>3. \A d : d["odd"] = None \/ (host.windows /\ "odd" \in config.extra \cup config.nulls) => Excused(fs, Policy(d, fs))
  <2> SUFFICES ASSUME NEW d, d["odd"] = None \/ (host.windows /\ "odd" \in config.extra \cup config.nulls)
               PROVE  Excused(fs, Policy(d, fs))
    OBVIOUS
  <2>1. host.windows /\ "odd" \in config.extra \cup config.nulls => \A p : Excused(fs, p)
    BY Zenon DEF Excused, Blocked
  <2>2. \A v, ops, reads : v # "failed" => Excused(fs, Piece(v, ops, reads))
    BY ExcusedPieces, Zenon
  <2>3. d["odd"] = None => Excused(fs, Policy(d, fs))
    BY <2>2, Zenon DEF Policy
  <2> QED
    BY <2>1, <2>3, Zenon
<1>4. Empty["odd"] = None
  BY DEF Empty, Settings
<1>5. DesktopSettings(config).doc["odd"] # None => "odd" \in config.extra \cup config.nulls
  BY DesktopDocuments, Zenon
<1>6. /\ Excused(fs, Policy(Empty, fs))
      /\ host.windows => Excused(fs, Policy(DesktopSettings(config).doc, fs))
  BY <1>3, <1>4, <1>5, Zenon
<1>7. Excused(fs, IF uses_credential_helper(config)
                    THEN write_owned("helper", credential_helper_contents, fs, l)
                    ELSE remove_owned("helper", fs))
  BY <1>1, <1>2, Zenon
<1>8. /\ Excused(fs, write_owned("settings", DesktopSettings(config).doc, fs, l))
      /\ Excused(fs, remove_owned("settings", fs)) /\ Excused(fs, remove_owned("helper", fs))
  BY <1>1, <1>2, Zenon
<1>9. \A a, b : Excused(fs, a) /\ Excused(fs, b) => Excused(fs, Then(a, b))
  BY ExcusedPieces, Zenon
<1>10. Excused(fs, PlanDesktop(config, fs, l, host.windows))
  BY <1>6, <1>7, <1>8, <1>9, Zenon DEF PlanDesktop
<1> QED
  BY <1>10, ExcusedPieces, Zenon DEF PlanFor, program

LEMMA MergedExcused ==
  ASSUME NEW fs, program \in {"pi", "copilot", "vscode"}, Configured, OnDisk(fs), NEW l
  PROVE  Excused(fs, PlanFor(host, config, fs, l, proxy))
<1>1. CASE program = "pi"
  <2>1. "models" \in Documents /\ "settings" \in Documents
    BY <1>1 DEF Documents
  <2>2. \A d : \A path \in Documents : /\ Excused(fs, MergeInto("merge", path, d, fs, l))
                                       /\ Excused(fs, TakeOut("merge", path, fs))
    BY MergeExcused, Zenon
  <2>3. config.configured =>
          /\ Excused(fs, Unless(PiModels(config), MergeInto("merge", "models", PiModels(config).doc, fs, l)))
          /\ Excused(fs, Unless(PiSettings(config),
                                MergeInto("merge", "settings", PiSettings(config).doc, fs, l)))
    BY <1>1, <2>1, <2>2, ValidGenerates, ExcusedPieces, Zenon
  <2>4. Excused(fs, PlanPi(config, fs, l))
    BY <2>1, <2>2, <2>3, ExcusedPieces, Zenon DEF PlanPi
  <2> QED
    BY <1>1, <2>4, ExcusedPieces, Zenon DEF PlanFor, program
<1>2. CASE program = "copilot"
  <2>1. "providers" \in Documents
    BY <1>2 DEF Documents, Entries
  <2>2. Excused(fs, PlanCopilot(config, fs, l, proxy))
    BY <2>1, EntriesExcused, Zenon DEF PlanCopilot
  <2> QED
    BY <1>2, <2>2, ExcusedPieces, Zenon DEF PlanFor, program
<1>3. CASE program = "vscode"
  <2>1. "chat" \in Documents
    BY <1>3 DEF Documents, Entries
  <2>2. Excused(fs, PlanChat(config, fs, l, proxy))
    BY <2>1, EntriesExcused, Zenon DEF PlanChat
  <2>3. Excused(fs, PlanVsCode(config, fs, l, proxy))
    BY <1>3, <2>2, SettingsExcused, ExcusedPieces, Zenon DEF PlanVsCode
  <2> QED
    BY <1>3, <2>3, ExcusedPieces, Zenon DEF PlanFor, program
<1> QED
  BY <1>1, <1>2, <1>3, Zenon

(* Plannable: a configuration that validate_daemon accepts always makes a  *)
(* document, so that a plan which has not gone stale fails only over what  *)
(* is on disk, a setting registry_values refuses or a null in TOML.        *)
THEOREM FailsOverFiles == Spec => []Plannable
<1>1. IInv => Plannable
  <2> SUFFICES ASSUME IInv, pc = "planned", plan.verdict = "failed", ~Stale
               PROVE  \/ \E path \in Documents : disk[path].kind = "unreadable"
                      \/ program = "vscode" /\ disk["settings.state"] = V!BadSidecar
                      \/ program = "claude-desktop" /\ host.windows
                           /\ "odd" \in config.extra \cup config.nulls
                      \/ program \in {"codex", "grok"} /\ config.nulls # {}
    BY Zenon DEF Plannable
  <2>1. PICK fs, l : OnDisk(fs) /\ plan = PlanFrom(fs, l)
    BY ZenonT(30) DEF IInv, Made
  <2> DEFINE p == PlanFor(host, config, fs, l, proxy)
  <2>2. plan.verdict = p.verdict /\ plan.observed = [q \in p.reads |-> See(q, fs)]
    BY <2>1 DEF PlanFrom
  <2>3. Agrees(fs, p.reads)
    BY <2>2, Zenon DEF Stale, Agrees
  <2>4. Typed /\ Configured /\ program \in Programs
    BY Hosted, Zenon DEF IInv, Typed
  <2>5. Excused(fs, p)
    <3>1. CASE program \in {"codex", "grok", "opencode"}
      BY <2>4, <3>1, HeadedExcused
    <3>2. CASE program = "claude-desktop"
      BY <3>2, DesktopExcused, Zenon
    <3>3. CASE program \in {"pi", "copilot", "vscode"}
      BY <2>1, <2>4, <3>3, MergedExcused, SMTT(30)
    <3> QED
      BY <2>4, <3>1, <3>2, <3>3, Zenon DEF Programs
  <2> HIDE DEF p
  <2>6. Blocked(fs, p.reads)
    BY <2>2, <2>5, Zenon DEF Excused
  <2>7. \A q \in p.reads : q # "policy" => fs[q] = disk[q]
    BY <2>3, Zenon DEF Agrees, See
  <2>8. "policy" \notin Documents /\ "settings.state" # "policy"
    BY DEF Documents, Whole, Entries
  <2> QED
    BY <2>6, <2>7, <2>8, Zenon DEF Blocked
<1> QED
  BY <1>1, Invariance, PTL

=============================================================================
