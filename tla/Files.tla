------------------------------- MODULE Files -------------------------------
(***************************************************************************)
(* The methods on files, GET, HEAD, PUT and those of WebDAV, as children   *)
(* serve them at the same time: each is a few system calls on one tree,    *)
(* and between two of them the tree may become another one.                *)
(***************************************************************************)
EXTENDS Integers, Sequences, SequencesExt, FiniteSets

CONSTANTS
  Child,      \* the processes that serve requests
  Name,       \* names of files: 1 .. how many
  Request,    \* the requests that are made
  Index,      \* pszDirectoryIndex: a name, or 0
  FirstTree,  \* the tree at first
  MaxIno,     \* bound: files and directories that ever exist
  MaxTime,    \* bound: seconds
  MaxReq      \* bound: requests

Ino == 1 .. MaxIno
Root == 1
NoIno == [kind |-> "none", data |-> <<>>, mtime |-> 0, names |-> [n \in Name |-> 0]]

\* A tree: what is no directory has no entries, and entries lead to what exists.
\* A request: the headers of a condition and of a range (-1 for an end that is not
\* given), the size and contents of a PUT or the depth of a PROPFIND, the
\* destination of a MOVE and, of a method that looks at a file only, which it is.
\* The document root itself is neither moved nor deleted.
FilesAssumption ==
  /\ IsFiniteSet(Child) /\ IsFiniteSet(Name) /\ Name = 1 .. Cardinality(Name)
  /\ Index \in Name \cup {0} /\ {MaxIno, MaxTime, MaxReq} \subseteq Nat
  /\ FirstTree \in [Ino -> [kind : {"none", "file", "dir"}, data : Seq(Nat), mtime : Nat,
                            names : [Name -> Ino \cup {0}]]]
  /\ Root \in Ino /\ FirstTree[Root].kind = "dir"
  /\ \A i \in Ino : FirstTree[i].kind = "none" => FirstTree[i] = NoIno
  /\ \A i \in Ino, n \in Name : FirstTree[i].names[n] # 0 =>
       FirstTree[i].kind = "dir" /\ FirstTree[FirstTree[i].names[n]].kind # "none"
  /\ \A r \in Request :
       /\ r.op \in {"get", "stat", "put", "mkcol", "move", "delete", "propfind"}
       /\ {r.path, r.to} \subseteq Seq(Name) /\ r.cond \in {"", "since", "match"}
       /\ r.range \in {<<>>} \cup ((Nat \cup {-1}) \X (Nat \cup {-1}))
       /\ {r.size, r.body} \subseteq Nat
       /\ r.op \in {"move", "delete"} => r.path # <<>>
       /\ r.op = "move" => r.to # <<>>

VARIABLES
  ino,    \* the files and directories: contents and time, or entries
  clock,  \* in seconds, as st_mtime and the Date of an answer are
  child,  \* what each child is doing
  copy,   \* what the client last got as a whole, and when; history: whether it was
          \* disturbed, or a MOVE was made since it was asked for
  used    \* requests made; history: how many names the requests added to the tree

filesVars == <<ino, clock, child, copy, used>>

NoStat == [ino |-> 0, kind |-> "none", size |-> 0, mtime |-> 0]
NoCopy == [path |-> <<0>>, data |-> <<>>, size |-> 0, mtime |-> 0, at |-> 0, moved |-> FALSE]

\* fd is the inode that is open, off the place in it, want what was announced
\* (or is to be saved), got what was sent or saved, list the names a PROPFIND found.
\* at is the Date of the answer.  History: whether another changed, meanwhile,
\* what the request is about, or made a MOVE; the names that were in the directory
\* all the time; how many names it added to the tree, apart from what its answer
\* says.
Free == [pc |-> "free", req |-> [op |-> "none", cond |-> ""], path |-> <<>>, stat |-> NoStat,
         fd |-> 0, off |-> 0, want |-> 0, got |-> <<>>, list |-> {}, next |-> 1,
         at |-> 0, code |-> 0, disturbed |-> FALSE, moved |-> FALSE, kept |-> {}, net |-> 0]

FilesInit ==
  /\ ino = FirstTree /\ clock = 1 /\ copy = NoCopy
  /\ child = [c \in Child |-> Free] /\ used = [req |-> 0, net |-> 0]

-----------------------------------------------------------------------------
(* The file system *)

\* The inode a path leads to, 0 if none.
LookupIn(tree, path) ==
  LET at[k \in 0 .. Len(path)] ==
        IF k = 0 THEN Root
        ELSE IF at[k - 1] = 0 THEN 0 ELSE tree[at[k - 1]].names[path[k]]
  IN at[Len(path)]

Lookup(path) == LookupIn(ino, path)

Stat(path) ==
  LET i == Lookup(path) IN
  IF i = 0 THEN NoStat
  ELSE [ino |-> i, kind |-> ino[i].kind, size |-> Len(ino[i].data), mtime |-> ino[i].mtime]

IsDir(i) == i # 0 /\ ino[i].kind = "dir"
IsFile(i) == i # 0 /\ ino[i].kind = "file"
IsEmpty(i) == \A n \in Name : ino[i].names[n] = 0
Parent(path) == Lookup(Front(path))

Fresh == {i \in Ino : ino[i].kind = "none"}
NewIno == CHOOSE i \in Fresh : TRUE

\* The tree in which a path leads to another inode.
Bind(tree, path, i) == [tree EXCEPT ![Parent(path)].names[Last(path)] = i]

MayRename(old, new) ==
  LET o == Lookup(old)  n == Lookup(new) IN
  /\ o # 0 /\ IsDir(Parent(new))
  /\ n # 0 /\ n # o => ino[n].kind = ino[o].kind /\ IsEmpty(n)
  /\ IsDir(o) => ~IsStrictPrefix(old, new)

Renamed(old, new) ==
  IF Lookup(old) = Lookup(new) THEN ino
  ELSE [i \in Ino |-> [ino[i] EXCEPT !.names =
         [n \in Name |-> IF i = Parent(new) /\ n = Last(new) THEN Lookup(old)
                         ELSE IF i = Parent(old) /\ n = Last(old) THEN 0 ELSE @[n]]]]

-----------------------------------------------------------------------------
(* A request begins and ends *)

Accept(c) ==
  /\ child[c].pc = "free" /\ used.req < MaxReq
  /\ \E r \in Request :
       /\ r.cond # "" => copy.path = r.path
       /\ child' = [child EXCEPT ![c] = [Free EXCEPT !.pc = r.op, !.req = r, !.path = r.path]]
  /\ used' = [used EXCEPT !.req = @ + 1]
  /\ UNCHANGED <<ino, clock, copy>>

\* The rest of what a child does in one step, when that changes no file.
Now(c, r) == child' = [child EXCEPT ![c] = r] /\ UNCHANGED <<ino, clock, copy, used>>

At(c, pc) == child[c].pc = pc

Answer(r, code) == [r EXCEPT !.pc = "answered", !.code = code]

Entries(tree, path) ==
  LET i == LookupIn(tree, path) IN IF i = 0 THEN {} ELSE {n \in Name : tree[i].names[n] # 0}

\* A step that changes inode i, or what a path leads to.
Change(c, i, r) ==
  child' = [x \in Child |->
    IF x = c THEN r
    ELSE [child[x] EXCEPT
            !.disturbed = @ \/ (i # 0 /\ i \in {child[x].fd, child[x].stat.ino}),
            !.moved = @ \/ r.req.op = "move",
            !.kept = @ \cap Entries(ino', child[x].path)]]

\* What the answer says of the names in the tree.
Told(r) ==
  r.net + (IF r.code = 201 /\ r.req.op = "mkcol" THEN 1 ELSE 0)
        - (IF r.code = 204 /\ r.req.op = "delete" THEN 1 ELSE 0)

\* A copy that is being asked about is not replaced.
Finish(c) ==
  /\ At(c, "answered")
  /\ child' = [child EXCEPT ![c] = Free]
  /\ IF /\ child[c].code = 200 /\ child[c].req.op = "get" /\ Len(child[c].got) = child[c].want
        /\ \A x \in Child : child[x].req.cond = ""
     THEN copy' = [path |-> child[c].req.path, data |-> child[c].got, at |-> child[c].at,
                   size |-> child[c].stat.size, mtime |-> child[c].stat.mtime,
                   moved |-> child[c].disturbed \/ child[c].moved]
     ELSE UNCHANGED copy
  /\ used' = [used EXCEPT !.net = @ + Told(child[c])]
  /\ UNCHANGED <<ino, clock>>

Tick == clock < MaxTime /\ clock' = clock + 1 /\ UNCHANGED <<ino, child, copy, used>>

-----------------------------------------------------------------------------
(* GET and HEAD *)

\* A directory leads to its index, if one is configured.
GetStat(c) ==
  /\ At(c, "get")
  /\ LET r == [child[c] EXCEPT !.stat = Stat(child[c].path)] IN
     Now(c, IF r.stat.kind = "none" THEN Answer(r, 404)
            ELSE IF r.stat.kind = "file" THEN [r EXCEPT !.pc = "open"]
            ELSE IF Index # 0 /\ r.path = r.req.path THEN [r EXCEPT !.path = Append(@, Index)]
            ELSE Answer(r, 403))

GetOpen(c) ==
  /\ At(c, "open")
  /\ LET i == Lookup(child[c].path) IN
     Now(c, IF i = 0 THEN Answer(child[c], 404)
            ELSE [child[c] EXCEPT !.pc = "head", !.fd = i,
                                  !.disturbed = @ \/ i # child[c].stat.ino])

\* Mutant of NotModified: a copy of this very second is thought to be new.
NotModifiedYet(cond, stat) ==
  \/ cond = "since" /\ copy.at >= stat.mtime
  \/ cond = "match" /\ copy.size = stat.size /\ copy.mtime = stat.mtime

\* If-Modified-Since with the Date of the copy, If-None-Match with its ETag,
\* which is made of the path, the size and the time.
NotModified(cond, stat) ==
  \/ cond = "since" /\ copy.at > stat.mtime
  \/ cond = "match" /\ copy.size = stat.size /\ copy.mtime = stat.mtime

\* httpHeaderParseRange; -1 is for an end that is not given.
ParseRange(range, size) ==
  LET first == IF range[1] = -1 THEN 0 ELSE range[1]
      last == IF range[2] = -1 THEN size - 1 ELSE range[2]
  IN [ok |-> first <= last, from |-> first, size |-> last - first + 1]

\* What to send, and how to announce it: a range that makes no sense is as none.
Portion(r) ==
  LET range == ParseRange(r.req.range, r.stat.size) IN
  IF r.req.range # <<>> /\ range.ok THEN [from |-> range.from, size |-> range.size, code |-> 206]
  ELSE [from |-> 0, size |-> r.stat.size, code |-> 200]

\* The size and the ETag are those of stat, the bytes those of what was opened.
GetHead(c) ==
  /\ At(c, "head")
  /\ LET r == child[c]  p == Portion(r) IN
     Now(c, IF NotModified(r.req.cond, r.stat) THEN Answer(r, 304)
            ELSE [r EXCEPT !.pc = IF r.stat.size > 0 THEN "send" ELSE "answered",
                           !.off = p.from, !.want = p.size, !.code = p.code, !.at = clock])

\* streamSend, up to the end of the file.
GetSend(c) ==
  /\ At(c, "send")
  /\ LET r == child[c] IN
     Now(c, IF Len(r.got) < r.want /\ r.off < Len(ino[r.fd].data)
            THEN [r EXCEPT !.off = @ + 1, !.got = Append(@, ino[r.fd].data[r.off + 1])]
            ELSE [r EXCEPT !.pc = "answered"])

\* HEAD and PROPPATCH look at a file only; a LOCK keeps nobody from anything.
Look(c) ==
  /\ At(c, "stat")
  /\ LET r == [child[c] EXCEPT !.stat = Stat(child[c].path)] IN
     Now(c, Answer(r, CASE r.req.as = "unlock" -> 204
                        [] r.req.as = "lock" -> 200
                        [] r.stat.kind = "none" -> 404
                        [] r.req.as = "proppatch" -> 207
                        [] r.stat.kind = "dir" -> 403
                        [] OTHER -> 200))

-----------------------------------------------------------------------------
(* PUT *)

PutOpen(c) ==
  /\ At(c, "put")
  /\ LET r == child[c]  i == Lookup(r.path) IN
     IF IsFile(i)
     THEN /\ ino' = [ino EXCEPT ![i].data = <<>>, ![i].mtime = clock]
          /\ Change(c, i, [r EXCEPT !.pc = "save", !.fd = i, !.want = r.req.size,
                             !.disturbed = \E x \in Child \ {c} :
                                             child[x].fd = i /\ child[x].req.op = "put"])
     ELSE IF i = 0 /\ IsDir(Parent(r.path))
     THEN /\ Fresh # {}
          /\ ino' = Bind([ino EXCEPT ![NewIno] = [NoIno EXCEPT !.kind = "file", !.mtime = clock]],
                         r.path, NewIno)
          /\ Change(c, NewIno, [r EXCEPT !.pc = "save", !.fd = NewIno, !.want = r.req.size, !.net = 1])
     ELSE UNCHANGED ino /\ Change(c, 0, Answer(r, 403))
  /\ UNCHANGED <<clock, copy, used>>

\* Each child writes at its own place, wherever the file ends now.
Written(data, off, unit) ==
  [k \in 1 .. (IF off < Len(data) THEN Len(data) ELSE off + 1) |->
     IF k = off + 1 THEN unit ELSE IF k <= Len(data) THEN data[k] ELSE 0]

\* streamSave, a piece at a time, unless the client goes away; nothing to save
\* is a bad request, which has emptied the file.
PutSave(c) ==
  /\ At(c, "save")
  /\ LET r == child[c] IN
     \/ /\ r.off < r.want
        /\ ino' = [ino EXCEPT ![r.fd].data = Written(@, r.off, r.req.body), ![r.fd].mtime = clock]
        /\ Change(c, r.fd, [r EXCEPT !.off = @ + 1])
     \/ UNCHANGED ino /\ Change(c, 0, Answer(r, IF r.off = r.want /\ r.want > 0 THEN 201 ELSE 400))
  /\ UNCHANGED <<clock, copy, used>>

-----------------------------------------------------------------------------
(* MKCOL, MOVE and DELETE *)

MkcolStat(c) ==
  /\ At(c, "mkcol")
  /\ Now(c, IF Stat(child[c].path).kind # "none" THEN Answer(child[c], 403)
            ELSE [child[c] EXCEPT !.pc = "mkdir"])

\* Mutant of Mkdir: that the directory is there is good enough.
MkdirAnyway(c) ==
  /\ At(c, "mkdir")
  /\ LET p == child[c].path IN
     IF IsDir(Lookup(p)) THEN Now(c, Answer(child[c], 201))
     ELSE IF Lookup(p) = 0 /\ IsDir(Parent(p))
     THEN /\ Fresh # {}
          /\ ino' = Bind([ino EXCEPT ![NewIno] = [NoIno EXCEPT !.kind = "dir"]], p, NewIno)
          /\ Change(c, 0, Answer(child[c], 201))
          /\ UNCHANGED <<clock, copy, used>>
     ELSE Now(c, Answer(child[c], 500))

Mkdir(c) ==
  /\ At(c, "mkdir")
  /\ LET p == child[c].path IN
     IF Lookup(p) = 0 /\ IsDir(Parent(p))
     THEN /\ Fresh # {}
          /\ ino' = Bind([ino EXCEPT ![NewIno] = [NoIno EXCEPT !.kind = "dir"]], p, NewIno)
          /\ Change(c, 0, Answer(child[c], 201))
          /\ UNCHANGED <<clock, copy, used>>
     ELSE Now(c, Answer(child[c], 500))

Move(c) ==
  /\ At(c, "move")
  /\ LET old == child[c].path  new == child[c].req.to IN
     IF MayRename(old, new)
     THEN /\ ino' = Renamed(old, new)
          /\ Change(c, Lookup(new),
                    [Answer(child[c], 201) EXCEPT
                       !.net = IF Lookup(new) \in {0, Lookup(old)} THEN 0 ELSE -1])
          /\ copy' = [copy EXCEPT !.moved = TRUE]
          /\ UNCHANGED <<clock, used>>
     ELSE Now(c, Answer(child[c], 500))

DeleteStat(c) ==
  /\ At(c, "delete")
  /\ LET r == [child[c] EXCEPT !.stat = Stat(child[c].path)] IN
     Now(c, IF r.stat.kind = "none" THEN Answer(r, 404) ELSE [r EXCEPT !.pc = "remove"])

\* rmdir or unlink, as stat told.
Unlink(c) ==
  /\ At(c, "remove")
  /\ LET p == child[c].path  i == Lookup(p) IN
     IF i # 0 /\ ino[i].kind = child[c].stat.kind /\ IsEmpty(i)
     THEN ino' = Bind(ino, p, 0) /\ Change(c, i, Answer(child[c], 204)) /\ UNCHANGED <<clock, copy, used>>
     ELSE Now(c, Answer(child[c], 403))

-----------------------------------------------------------------------------
(* PROPFIND *)

\* The file itself is listed as stat saw it; with a depth, a directory is opened.
Propfind(c) ==
  /\ At(c, "propfind")
  /\ LET r == [child[c] EXCEPT !.stat = Stat(child[c].path)] IN
     Now(c, IF r.stat.kind = "none" THEN Answer(r, 404)
            ELSE IF r.req.size = 0 THEN Answer(r, 207)
            ELSE IF r.req.size > 1 THEN Answer(r, 501)
            ELSE IF r.stat.kind = "file" THEN Answer(r, 404)
            ELSE [r EXCEPT !.pc = "opendir"])

Opendir(c) ==
  /\ At(c, "opendir")
  /\ LET i == Lookup(child[c].path) IN
     Now(c, IF IsDir(i) THEN [child[c] EXCEPT !.pc = "readdir", !.fd = i,
                                                  !.kept = {n \in Name : ino[i].names[n] # 0}]
            ELSE Answer(child[c], 207))

Readdir(c) ==
  /\ At(c, "readdir")
  /\ LET r == child[c] IN
     Now(c, IF r.next \notin Name THEN Answer(r, 207)
            ELSE IF ino[r.fd].names[r.next] = 0 THEN [r EXCEPT !.next = @ + 1]
            ELSE [r EXCEPT !.pc = "entry"])

\* Mutant of Entry: an entry that is gone by now is the last.
EntryLast(c) ==
  /\ At(c, "entry")
  /\ LET r == child[c]  s == Stat(Append(r.path, r.next)) IN
     Now(c, IF s.kind = "none" THEN Answer(r, 207)
            ELSE [r EXCEPT !.pc = "readdir", !.next = @ + 1, !.list = @ \cup {r.next}])

\* What the name leads to now, if anything.
Entry(c) ==
  /\ At(c, "entry")
  /\ LET r == child[c]  s == Stat(Append(r.path, r.next)) IN
     Now(c, [r EXCEPT !.pc = "readdir", !.next = @ + 1,
                      !.list = IF s.kind = "none" THEN @ ELSE @ \cup {r.next}])

FilesNext ==
  \/ Tick
  \/ \E c \in Child :
       \/ Accept(c) \/ Finish(c)
       \/ GetStat(c) \/ GetOpen(c) \/ GetHead(c) \/ GetSend(c) \/ Look(c)
       \/ PutOpen(c) \/ PutSave(c)
       \/ MkcolStat(c) \/ Mkdir(c) \/ Move(c) \/ DeleteStat(c) \/ Unlink(c)
       \/ Propfind(c) \/ Opendir(c) \/ Readdir(c) \/ Entry(c)

FilesSpec == FilesInit /\ [][FilesNext]_filesVars

-----------------------------------------------------------------------------
(* Properties *)

Answered(c, op, codes) == At(c, "answered") /\ child[c].req.op = op /\ child[c].code \in codes

\* What a GET announces is what it sends, and that is the file or the range that
\* was asked for, unless a request of another child changed the file meanwhile
\* (then less may be sent), or the range does not end within the file.
GetHonest ==
  \A c \in Child : Answered(c, "get", {200, 206}) /\ ~child[c].disturbed =>
    LET r == child[c]
        data == ino[r.fd].data
        last == IF r.req.range = <<>> \/ r.req.range[2] = -1 THEN Len(data) - 1 ELSE r.req.range[2]
    IN /\ r.code = 200 => r.got = data
       /\ r.code = 206 =>
            LET first == IF r.req.range[1] = -1 THEN 0 ELSE r.req.range[1] IN
            r.got = SubSeq(data, first + 1, IF last < Len(data) THEN last + 1 ELSE Len(data))
       /\ last < Len(data) => Len(r.got) = r.want

\* A file that was created as the client is told holds all that it sent and
\* nothing else, unless two were storing it at once.
PutWhole ==
  \A c \in Child : Answered(c, "put", {201}) /\ ~child[c].disturbed =>
    ino[child[c].fd].data = [i \in 1 .. child[c].req.size |-> child[c].req.body]

\* A client that is told its copy is good has the file as it is, unless the copy
\* is of the second in which the file was changed and its ETag is asked for (the
\* time is in seconds), or a MOVE brought another, older file there.
CopyIsGoodStep ==
  \A c \in Child : At(c, "head") /\ child'[c].code = 304 =>
    \/ copy.data = ino[child[c].fd].data
    \/ child[c].disturbed \/ copy.moved
    \/ child[c].req.cond = "match" /\ copy.mtime >= copy.at

\* How many names a request added to the tree so far, or is told that it did.
Net(c) == IF At(c, "answered") THEN Told(child[c]) ELSE child[c].net

Bindings(tree) == {b \in Ino \X Name : tree[b[1]].names[b[2]] # 0}

\* No two requests are told that they made, or removed, the same thing: the names
\* in the tree are those there were and those the requests made, but for those
\* that they removed.
Accounted ==
  LET Times(n) == Cardinality({c \in Child : Net(c) = n}) IN
  Cardinality(Bindings(ino)) = Cardinality(Bindings(FirstTree)) + used.net + Times(1) - Times(-1)

\* A listing has everything that was there all the time, whatever else came and
\* went while it was made.
ListsAll == \A c \in Child : Answered(c, "propfind", {207}) => child[c].kept \subseteq child[c].list

\* What these make of an answer: it sends, or lists, what is there...
SendsWhatIsThere == GetHonest /\ ListsAll

\* ...it says what was done, once...
DidWhatItSays == PutWhole /\ Accounted

\* ...and a copy that it calls good is good.
CopyIsGood == [][CopyIsGoodStep]_filesVars
=============================================================================
