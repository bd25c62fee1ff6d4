----------------------------- MODULE HandlesProofs -----------------------------
(***************************************************************************)
(* Theorems about what clients hold on to, for any pages, tasks, programs   *)
(* run and bounds:                                                         *)
(*   TypeCorrect     every variable keeps its type                         *)
(*   StateGone       nothing of a page outlives its session                *)
(*   DialogReached   the dialog that is open is the one a client answers    *)
(***************************************************************************)
EXTENDS Handles, SequenceTheorems, TLAPS

------------------------------------------------------------------------------
(* Types.                                                                   *)

PCs == {"idle", "skips", "queried", "note", "clear", "count", "skip", "combine", "called",
        "combined", "evaluated", "used", "selected", "store", "described", "detailed",
        "fallback", "resolved", "printed"}
Words   == {"none", "query", "queryAll", "internal", "onObject", "user", "handle", "alert",
            "release", "dispose", "properties", "boxModel", "html", "quads", "focus", "setFiles",
            "document", "select", "selectAll", "evaluate", "function", "combined", "describe",
            "resolve", "dialog", "print", "read", "closeStream"}
Results == {"none", "sent", "blocked", "ok", "failed", "lost"}

AnyObject == Objects \cup {NoObject}
Runs      == 0 .. MaxRuns
Dialogs   == 0 .. MaxDialogs
Task      == [prog : DOMAIN Programs, at : Nat, run : Runs, obj : AnyObject, node : Nat,
              of : AnyObject, stream : Nat]
Command   == [task : Tasks \cup {0}, cmd : Words, id : Nat, retried : BOOLEAN]
CallRec   == [kind : Words, obj : AnyObject, dialog : Dialogs, result : Results]
NewsItem  == [kind : {"opened", "closed", "detached"}, page : Pages, dialog : Dialogs]

\* What a handler and its client's tasks are doing.
Control ==
    /\ pc \in [Pages -> PCs]
    /\ h \in [Pages -> Command]
    /\ call \in [Pages -> CallRec]
    /\ tasks \in [Pages -> [Tasks -> Task]]
    /\ \A p \in Pages : IF pc[p] = "idle" THEN h[p] = NoCommand
                        ELSE h[p].task \in Tasks /\ h[p].cmd # "none"

\* What the bridge keeps for them.
Stores ==
    /\ ctxCounter \in Nat /\ DOMAIN nodeObjects \subseteq 1 .. ctxCounter
    /\ \A i \in DOMAIN nodeObjects : nodeObjects[i] \in [obj : Objects, owner : Pages]
    /\ DOMAIN objectOwners \subseteq Objects
    /\ \A o \in DOMAIN objectOwners : objectOwners[o] \in Pages
    /\ streams \in Nat /\ DOMAIN pdfStreams \subseteq 1 .. streams
    /\ \A s \in DOMAIN pdfStreams : pdfStreams[s] \in Pages
    /\ lastQuery \in [Pages -> Runs] /\ lastQuerySkips \in [Pages -> -1 .. 3]
    /\ lastDialog \in [Pages -> Dialogs]
    /\ asked \in [Pages -> SUBSET Dialogs]

\* The browser, the pages' life, and the bounds.
World ==
    /\ scenario \in Scenarios
    /\ sessions \subseteq Pages /\ cleaned \subseteq Pages /\ live \subseteq Pages
    /\ late \subseteq Pages
    /\ ending \in [page : Pages \cup {NoPage}, at : {"none", "clear", "remove"}]
    /\ ending.at # "none" => ending.page \in cleaned
    /\ Pages \ sessions \subseteq cleaned
    /\ made \in [Pages -> 0 .. MaxObjects] /\ disposed \subseteq Objects
    /\ dialog \in [Pages -> Dialogs] /\ opened \in [Pages -> Dialogs]
    /\ \A p \in Pages : dialog[p] \in {0, opened[p]}
    /\ news \in Seq(NewsItem)
    /\ runs \in [Pages -> Runs]
    /\ left \in [Pages -> SUBSET Runs]

\* A call that is skipped was counted, unless the page's cleanup reset the count since.
Skipping ==
    \A p \in Pages :
        /\ lastQuerySkips[p] = -1 => p \in cleaned /\ pc[p] = "idle"
        /\ pc[p] = "skip" /\ lastQuerySkips[p] = 0 => p \in cleaned

\* A handler that is busy runs the command its task is at.
Running ==
    \A p \in Pages :
        pc[p] # "idle" =>
            LET t == tasks[p][h[p].task]
            IN  t.prog # "none" /\ h[p].cmd = Programs[t.prog][t.at]

\* An object found is one, in hand until it is noted; one that is stored is one, too, and
\* one that the browser is told to release.
InHand ==
    \A p \in Pages : /\ pc[p] = "note" => call[p].obj # NoObject /\ call[p].result = "ok"
                     /\ pc[p] \in {"store", "note"} => h[p].id \in 1 .. ctxCounter
                     /\ pc[p] = "store" => tasks[p][h[p].task].obj # NoObject
                     /\ call[p].kind = "dispose" /\ call[p].result = "sent" => call[p].obj # NoObject

\* Where a handler may be in its command.
QueryPCs == {"skips", "queried", "note"}
PCsOf(cmd) ==
    CASE cmd \in {"query", "queryAll"}                 -> QueryPCs
      [] cmd = "internal"                              -> {"clear", "called"}
      [] cmd \in {"onObject", "user"}                  -> {"count", "skip", "combine", "called", "combined"}
      [] cmd \in {"handle", "alert"}                   -> {"evaluated"}
      [] cmd \in {"document", "select", "selectAll"}   -> {"selected"}
      [] cmd = "describe"                              -> {"store", "described", "detailed", "fallback"}
      [] cmd = "resolve"                               -> {"resolved"}
      [] cmd = "dialog"                                -> {"called"}
      [] cmd = "print"                                 -> {"printed"}
      [] OTHER                                         -> {"used"}
Labelled == \A p \in Pages : pc[p] # "idle" => pc[p] \in PCsOf(h[p].cmd)

\* The programs that describe an element hold it from their first command on, and those
\* with any object from the start; which object was described they know from then on.
Describers == {"element", "elements", "eval", "evalAll", "click", "keep"}
Progresses(t) ==
    /\ t.at \in 1 .. Len(Programs[t.prog])
    /\ t.prog \in Describers /\ t.at >= 2 => t.obj # NoObject
    /\ t.prog \in OfAnyObject => t.obj # NoObject
    /\ t.of # NoObject => t.at >= 2 /\ t.prog \in Describers \cup {"adopted"}
    /\ \A n \in 1 .. t.at - 1 : Programs[t.prog][n] = "describe" => t.of # NoObject
Going == \A p \in Pages, k \in Tasks : tasks[p][k].prog # "none" => Progresses(tasks[p][k])

Typed == Control /\ Stores /\ World /\ Skipping /\ Running /\ InHand /\ Labelled /\ Going

------------------------------------------------------------------------------
(* The end of a page.                                                       *)

\* The page's state was cleared.
Past(p) == p \notin sessions \/ (ending.at = "remove" /\ ending.page = p)

Blank(p) ==
    /\ lastQuery[p] = 0 /\ lastQuerySkips[p] = 0 /\ lastDialog[p] = 0
    /\ \A s \in DOMAIN pdfStreams : pdfStreams[s] # p
    /\ \A o \in DOMAIN objectOwners : objectOwners[o] # p
    /\ \A i \in DOMAIN nodeObjects : nodeObjects[i].owner # p

Cleared == \A p \in Pages \ late : Past(p) => pc[p] = "idle" /\ Blank(p)

------------------------------------------------------------------------------
(* Dialogs.                                                                 *)

OpenedEvent(p, d) == [kind |-> "opened", page |-> p, dialog |-> d]
Unread(p) == \E i \in DOMAIN news : news[i] = OpenedEvent(p, opened[p])

\* The event of the page's last dialog is the last of its events.
LastUnread ==
    \A i \in DOMAIN news :
        news[i].kind = "opened"
            => \E j \in i .. Len(news) : news[j] = OpenedEvent(news[i].page, opened[news[i].page])

\* The last dialog of a page, once it was read of, is remembered or was answered.
Remembered ==
    \A p \in Pages \ cleaned :
        \/ opened[p] = 0 \/ Unread(p)
        \/ lastDialog[p] = opened[p] \/ opened[p] \in asked[p]

Dialoged == LastUnread /\ Remembered

------------------------------------------------------------------------------
(* The programs of clients.                                                 *)

\* What a sequence of literals holds.
LEMMA Tuples ==
    /\ Len(<<>>) = 0
    /\ \A a : Len(<<a>>) = 1 /\ <<a>>[1] = a
    /\ \A a, b : Len(<<a, b>>) = 2 /\ <<a, b>>[1] = a /\ <<a, b>>[2] = b
    /\ \A a, b, c :
          /\ Len(<<a, b, c>>) = 3 /\ <<a, b, c>>[1] = a /\ <<a, b, c>>[2] = b
          /\ <<a, b, c>>[3] = c
    /\ \A a, b, c, d :
          /\ Len(<<a, b, c, d>>) = 4 /\ <<a, b, c, d>>[1] = a /\ <<a, b, c, d>>[2] = b
          /\ <<a, b, c, d>>[3] = c /\ <<a, b, c, d>>[4] = d
    /\ \A a, b, c, d, e :
          /\ Len(<<a, b, c, d, e>>) = 5 /\ <<a, b, c, d, e>>[1] = a /\ <<a, b, c, d, e>>[2] = b
          /\ <<a, b, c, d, e>>[3] = c /\ <<a, b, c, d, e>>[4] = d /\ <<a, b, c, d, e>>[5] = e
    /\ \A a, b, c, d, e, f :
          /\ Len(<<a, b, c, d, e, f>>) = 6 /\ <<a, b, c, d, e, f>>[1] = a
          /\ <<a, b, c, d, e, f>>[2] = b /\ <<a, b, c, d, e, f>>[3] = c
          /\ <<a, b, c, d, e, f>>[4] = d /\ <<a, b, c, d, e, f>>[5] = e
          /\ <<a, b, c, d, e, f>>[6] = f
    /\ \A a, b, c, d, e, f, g :
          LET s == <<a, b, c, d, e, f, g>>
          IN  /\ Len(s) = 7 /\ s[1] = a /\ s[2] = b /\ s[3] = c /\ s[4] = d /\ s[5] = e
              /\ s[6] = f /\ s[7] = g
    /\ \A a, b, c, d, e, f, g, i, j, k :
          LET s == <<a, b, c, d, e, f, g, i, j, k>>
          IN  /\ Len(s) = 10 /\ s[1] = a /\ s[2] = b /\ s[3] = c /\ s[4] = d /\ s[5] = e
              /\ s[6] = f /\ s[7] = g /\ s[8] = i /\ s[9] = j /\ s[10] = k
  <1>1. \A a : Len(<<a>>) = 1 /\ <<a>>[1] = a
    OBVIOUS
  <1>2. \A a, b : Len(<<a, b>>) = 2 /\ <<a, b>>[1] = a /\ <<a, b>>[2] = b
    OBVIOUS
  <1>3. \A a, b, c :
           /\ Len(<<a, b, c>>) = 3 /\ <<a, b, c>>[1] = a /\ <<a, b, c>>[2] = b
           /\ <<a, b, c>>[3] = c
    OBVIOUS
  <1>4. \A a, b, c, d :
           /\ Len(<<a, b, c, d>>) = 4 /\ <<a, b, c, d>>[1] = a /\ <<a, b, c, d>>[2] = b
           /\ <<a, b, c, d>>[3] = c /\ <<a, b, c, d>>[4] = d
    OBVIOUS
  <1>5. \A a, b, c, d, e :
           /\ Len(<<a, b, c, d, e>>) = 5 /\ <<a, b, c, d, e>>[1] = a
           /\ <<a, b, c, d, e>>[2] = b /\ <<a, b, c, d, e>>[3] = c /\ <<a, b, c, d, e>>[4] = d
           /\ <<a, b, c, d, e>>[5] = e
    OBVIOUS
  <1>6. \A a, b, c, d, e, f :
           /\ Len(<<a, b, c, d, e, f>>) = 6 /\ <<a, b, c, d, e, f>>[1] = a
           /\ <<a, b, c, d, e, f>>[2] = b /\ <<a, b, c, d, e, f>>[3] = c
           /\ <<a, b, c, d, e, f>>[4] = d /\ <<a, b, c, d, e, f>>[5] = e
           /\ <<a, b, c, d, e, f>>[6] = f
    OBVIOUS
  <1>7. \A a, b, c, d, e, f, g :
           LET s == <<a, b, c, d, e, f, g>>
           IN  /\ Len(s) = 7 /\ s[1] = a /\ s[2] = b /\ s[3] = c /\ s[4] = d /\ s[5] = e
               /\ s[6] = f /\ s[7] = g
    OBVIOUS
  <1>8. \A a, b, c, d, e, f, g, i, j, k :
           LET s == <<a, b, c, d, e, f, g, i, j, k>>
           IN  /\ Len(s) = 10 /\ s[1] = a /\ s[2] = b /\ s[3] = c /\ s[4] = d /\ s[5] = e
               /\ s[6] = f /\ s[7] = g /\ s[8] = i /\ s[9] = j /\ s[10] = k
    OBVIOUS
  <1> QED BY <1>1, <1>2, <1>3, <1>4, <1>5, <1>6, <1>7, <1>8

LEMMA ProgramNames ==
    DOMAIN Programs = {"none", "element", "elements", "eval", "evalAll", "function", "click",
                       "keep", "use", "upload", "find", "findAll", "named", "given", "dropped",
                       "adopted", "spread", "filled", "alert", "dialog", "print", "stream"}
  BY DEF Programs

\* The commands of each program.
LEMMA ProgramSteps ==
    /\ /\ Len(Programs["none"]) = 0
    /\ /\ Len(Programs["element"]) = 4 /\ Programs["element"][1] = "query"
       /\ Programs["element"][2] = "describe" /\ Programs["element"][3] = "resolve"
       /\ Programs["element"][4] = "release"
    /\ /\ Len(Programs["elements"]) = 7 /\ Programs["elements"][1] = "queryAll"
       /\ Programs["elements"][2] = "internal" /\ Programs["elements"][3] = "internal"
       /\ Programs["elements"][4] = "properties" /\ Programs["elements"][5] = "describe"
       /\ Programs["elements"][6] = "resolve" /\ Programs["elements"][7] = "release"
    /\ /\ Len(Programs["eval"]) = 6 /\ Programs["eval"][1] = "query"
       /\ Programs["eval"][2] = "describe" /\ Programs["eval"][3] = "resolve"
       /\ Programs["eval"][4] = "release" /\ Programs["eval"][5] = "user"
       /\ Programs["eval"][6] = "release"
    /\ /\ Len(Programs["evalAll"]) = 10 /\ Programs["evalAll"][1] = "queryAll"
       /\ Programs["evalAll"][2] = "internal" /\ Programs["evalAll"][3] = "internal"
       /\ Programs["evalAll"][4] = "properties" /\ Programs["evalAll"][5] = "describe"
       /\ Programs["evalAll"][6] = "resolve" /\ Programs["evalAll"][7] = "release"
       /\ Programs["evalAll"][8] = "user" /\ Programs["evalAll"][9] = "user"
       /\ Programs["evalAll"][10] = "release"
    /\ /\ Len(Programs["function"]) = 1 /\ Programs["function"][1] = "user"
    /\ /\ Len(Programs["click"]) = 6 /\ Programs["click"][1] = "query"
       /\ Programs["click"][2] = "describe" /\ Programs["click"][3] = "resolve"
       /\ Programs["click"][4] = "release" /\ Programs["click"][5] = "internal"
       /\ Programs["click"][6] = "release"
    /\ /\ Len(Programs["keep"]) = 5 /\ Programs["keep"][1] = "handle"
       /\ Programs["keep"][2] = "describe" /\ Programs["keep"][3] = "resolve"
       /\ Programs["keep"][4] = "quads" /\ Programs["keep"][5] = "release"
    /\ /\ Len(Programs["use"]) = 3 /\ Programs["use"][1] = "handle"
       /\ Programs["use"][2] = "properties" /\ Programs["use"][3] = "release"
    /\ /\ Len(Programs["upload"]) = 2 /\ Programs["upload"][1] = "handle"
       /\ Programs["upload"][2] = "setFiles"
    /\ /\ Len(Programs["find"]) = 5 /\ Programs["find"][1] = "document"
       /\ Programs["find"][2] = "select" /\ Programs["find"][3] = "focus"
       /\ Programs["find"][4] = "resolve" /\ Programs["find"][5] = "boxModel"
    /\ /\ Len(Programs["findAll"]) = 4 /\ Programs["findAll"][1] = "selectAll"
       /\ Programs["findAll"][2] = "html" /\ Programs["findAll"][3] = "resolve"
       /\ Programs["findAll"][4] = "quads"
    /\ /\ Len(Programs["named"]) = 2 /\ Programs["named"][1] = "resolve"
       /\ Programs["named"][2] = "focus"
    /\ /\ Len(Programs["given"]) = 1 /\ Programs["given"][1] = "onObject"
    /\ /\ Len(Programs["dropped"]) = 1 /\ Programs["dropped"][1] = "release"
    /\ /\ Len(Programs["adopted"]) = 3 /\ Programs["adopted"][1] = "describe"
       /\ Programs["adopted"][2] = "resolve" /\ Programs["adopted"][3] = "release"
    /\ /\ Len(Programs["spread"]) = 2 /\ Programs["spread"][1] = "focus"
       /\ Programs["spread"][2] = "properties"
    /\ /\ Len(Programs["filled"]) = 1 /\ Programs["filled"][1] = "setFiles"
    /\ /\ Len(Programs["alert"]) = 1 /\ Programs["alert"][1] = "alert"
    /\ /\ Len(Programs["dialog"]) = 1 /\ Programs["dialog"][1] = "dialog"
    /\ /\ Len(Programs["print"]) = 3 /\ Programs["print"][1] = "print"
       /\ Programs["print"][2] = "read" /\ Programs["print"][3] = "closeStream"
    /\ /\ Len(Programs["stream"]) = 2 /\ Programs["stream"][1] = "read"
       /\ Programs["stream"][2] = "closeStream"
  <1>1. /\ Len(Programs["none"]) = 0
    <2>1. Programs["none"] = <<>>
      BY DEF Programs
    <2> QED BY <2>1, Tuples
  <1>2. /\ Len(Programs["element"]) = 4 /\ Programs["element"][1] = "query"
       /\ Programs["element"][2] = "describe" /\ Programs["element"][3] = "resolve"
       /\ Programs["element"][4] = "release"
    <2>1. Programs["element"] = <<"query", "describe", "resolve", "release">>
      BY DEF Programs
    <2> QED BY <2>1, Tuples
  <1>3. /\ Len(Programs["elements"]) = 7 /\ Programs["elements"][1] = "queryAll"
       /\ Programs["elements"][2] = "internal" /\ Programs["elements"][3] = "internal"
       /\ Programs["elements"][4] = "properties" /\ Programs["elements"][5] = "describe"
       /\ Programs["elements"][6] = "resolve" /\ Programs["elements"][7] = "release"
    <2>1. Programs["elements"] = <<"queryAll", "internal", "internal", "properties",
                                    "describe", "resolve",
                                    "release">>
      BY DEF Programs
    <2> QED BY <2>1, Tuples
  <1>4. /\ Len(Programs["eval"]) = 6 /\ Programs["eval"][1] = "query"
       /\ Programs["eval"][2] = "describe" /\ Programs["eval"][3] = "resolve"
       /\ Programs["eval"][4] = "release" /\ Programs["eval"][5] = "user"
       /\ Programs["eval"][6] = "release"
    <2>1. Programs["eval"] = <<"query", "describe", "resolve", "release", "user", "release">>
      BY DEF Programs
    <2> QED BY <2>1, Tuples
  <1>5. /\ Len(Programs["evalAll"]) = 10 /\ Programs["evalAll"][1] = "queryAll"
       /\ Programs["evalAll"][2] = "internal" /\ Programs["evalAll"][3] = "internal"
       /\ Programs["evalAll"][4] = "properties" /\ Programs["evalAll"][5] = "describe"
       /\ Programs["evalAll"][6] = "resolve" /\ Programs["evalAll"][7] = "release"
       /\ Programs["evalAll"][8] = "user" /\ Programs["evalAll"][9] = "user"
       /\ Programs["evalAll"][10] = "release"
    <2>1. Programs["evalAll"] = <<"queryAll", "internal", "internal", "properties", "describe",
                                   "resolve", "release",
                                   "user", "user", "release">>
      BY DEF Programs
    <2> QED BY <2>1, Tuples
  <1>6. /\ Len(Programs["function"]) = 1 /\ Programs["function"][1] = "user"
    <2>1. Programs["function"] = <<"user">>
      BY DEF Programs
    <2> QED BY <2>1, Tuples
  <1>7. /\ Len(Programs["click"]) = 6 /\ Programs["click"][1] = "query"
       /\ Programs["click"][2] = "describe" /\ Programs["click"][3] = "resolve"
       /\ Programs["click"][4] = "release" /\ Programs["click"][5] = "internal"
       /\ Programs["click"][6] = "release"
    <2>1. Programs["click"] = <<"query", "describe", "resolve", "release", "internal",
                                 "release">>
      BY DEF Programs
    <2> QED BY <2>1, Tuples
  <1>8. /\ Len(Programs["keep"]) = 5 /\ Programs["keep"][1] = "handle"
       /\ Programs["keep"][2] = "describe" /\ Programs["keep"][3] = "resolve"
       /\ Programs["keep"][4] = "quads" /\ Programs["keep"][5] = "release"
    <2>1. Programs["keep"] = <<"handle", "describe", "resolve", "quads", "release">>
      BY DEF Programs
    <2> QED BY <2>1, Tuples
  <1>9. /\ Len(Programs["use"]) = 3 /\ Programs["use"][1] = "handle"
       /\ Programs["use"][2] = "properties" /\ Programs["use"][3] = "release"
    <2>1. Programs["use"] = <<"handle", "properties", "release">>
      BY DEF Programs
    <2> QED BY <2>1, Tuples
  <1>10. /\ Len(Programs["upload"]) = 2 /\ Programs["upload"][1] = "handle"
        /\ Programs["upload"][2] = "setFiles"
    <2>1. Programs["upload"] = <<"handle", "setFiles">>
      BY DEF Programs
    <2> QED BY <2>1, Tuples
  <1>11. /\ Len(Programs["find"]) = 5 /\ Programs["find"][1] = "document"
        /\ Programs["find"][2] = "select" /\ Programs["find"][3] = "focus"
        /\ Programs["find"][4] = "resolve" /\ Programs["find"][5] = "boxModel"
    <2>1. Programs["find"] = <<"document", "select", "focus", "resolve", "boxModel">>
      BY DEF Programs
    <2> QED BY <2>1, Tuples
  <1>12. /\ Len(Programs["findAll"]) = 4 /\ Programs["findAll"][1] = "selectAll"
        /\ Programs["findAll"][2] = "html" /\ Programs["findAll"][3] = "resolve"
        /\ Programs["findAll"][4] = "quads"
    <2>1. Programs["findAll"] = <<"selectAll", "html", "resolve", "quads">>
      BY DEF Programs
    <2> QED BY <2>1, Tuples
  <1>13. /\ Len(Programs["named"]) = 2 /\ Programs["named"][1] = "resolve"
        /\ Programs["named"][2] = "focus"
    <2>1. Programs["named"] = <<"resolve", "focus">>
      BY DEF Programs
    <2> QED BY <2>1, Tuples
  <1>14. /\ Len(Programs["given"]) = 1 /\ Programs["given"][1] = "onObject"
    <2>1. Programs["given"] = <<"onObject">>
      BY DEF Programs
    <2> QED BY <2>1, Tuples
  <1>15. /\ Len(Programs["dropped"]) = 1 /\ Programs["dropped"][1] = "release"
    <2>1. Programs["dropped"] = <<"release">>
      BY DEF Programs
    <2> QED BY <2>1, Tuples
  <1>16. /\ Len(Programs["adopted"]) = 3 /\ Programs["adopted"][1] = "describe"
        /\ Programs["adopted"][2] = "resolve" /\ Programs["adopted"][3] = "release"
    <2>1. Programs["adopted"] = <<"describe", "resolve", "release">>
      BY DEF Programs
    <2> QED BY <2>1, Tuples
  <1>17. /\ Len(Programs["spread"]) = 2 /\ Programs["spread"][1] = "focus"
        /\ Programs["spread"][2] = "properties"
    <2>1. Programs["spread"] = <<"focus", "properties">>
      BY DEF Programs
    <2> QED BY <2>1, Tuples
  <1>18. /\ Len(Programs["filled"]) = 1 /\ Programs["filled"][1] = "setFiles"
    <2>1. Programs["filled"] = <<"setFiles">>
      BY DEF Programs
    <2> QED BY <2>1, Tuples
  <1>19. /\ Len(Programs["alert"]) = 1 /\ Programs["alert"][1] = "alert"
    <2>1. Programs["alert"] = <<"alert">>
      BY DEF Programs
    <2> QED BY <2>1, Tuples
  <1>20. /\ Len(Programs["dialog"]) = 1 /\ Programs["dialog"][1] = "dialog"
    <2>1. Programs["dialog"] = <<"dialog">>
      BY DEF Programs
    <2> QED BY <2>1, Tuples
  <1>21. /\ Len(Programs["print"]) = 3 /\ Programs["print"][1] = "print"
        /\ Programs["print"][2] = "read" /\ Programs["print"][3] = "closeStream"
    <2>1. Programs["print"] = <<"print", "read", "closeStream">>
      BY DEF Programs
    <2> QED BY <2>1, Tuples
  <1>22. /\ Len(Programs["stream"]) = 2 /\ Programs["stream"][1] = "read"
        /\ Programs["stream"][2] = "closeStream"
    <2>1. Programs["stream"] = <<"read", "closeStream">>
      BY DEF Programs
    <2> QED BY <2>1, Tuples
  <1> QED BY <1>1, <1>2, <1>3, <1>4, <1>5, <1>6, <1>7, <1>8, <1>9, <1>10, <1>11, <1>12, <1>13, <1>14, <1>15, <1>16, <1>17, <1>18, <1>19, <1>20, <1>21, <1>22

LEMMA ProgramFacts ==
    ASSUME NEW prog \in DOMAIN Programs
    PROVE  /\ Len(Programs[prog]) \in Nat
           /\ prog # "none" => Len(Programs[prog]) >= 1
           /\ prog \in Describers => /\ Len(Programs[prog]) >= 2
                                     /\ Programs[prog][1] \in {"query", "queryAll", "handle"}
           /\ \A n \in 1 .. Len(Programs[prog]) :
                 /\ Programs[prog][n] = "describe" =>
                        prog = "adopted" \/ (prog \in Describers /\ n >= 2)
                 /\ Programs[prog][n] \in {"query", "queryAll"} => n = 1 /\ prog \in Describers
                 /\ Programs[prog][n] = "alert" => prog = "alert"
                 /\ Programs[prog][n] = "handle" => n = 1 /\ prog \notin OfAnyObject
                 /\ Programs[prog][n] = "onObject" => prog \in OfAnyObject
                 /\ Programs[prog][n] \in {"document", "select", "selectAll"} =>
                        prog \in {"find", "findAll"}
                 /\ Programs[prog][n] = "release" =>
                        n = Len(Programs[prog]) \/ (n >= 3 /\ Programs[prog][n - 2] = "describe")
  <1>1. CASE prog = "none"
    BY <1>1, ProgramSteps DEF Describers, OfAnyObject
  <1>2. CASE prog = "element"
    BY <1>2, ProgramSteps DEF Describers, OfAnyObject
  <1>3. CASE prog = "elements"
    BY <1>3, ProgramSteps DEF Describers, OfAnyObject
  <1>4. CASE prog = "eval"
    BY <1>4, ProgramSteps DEF Describers, OfAnyObject
  <1>5. CASE prog = "evalAll"
    BY <1>5, ProgramSteps DEF Describers, OfAnyObject
  <1>6. CASE prog = "function"
    BY <1>6, ProgramSteps DEF Describers, OfAnyObject
  <1>7. CASE prog = "click"
    BY <1>7, ProgramSteps DEF Describers, OfAnyObject
  <1>8. CASE prog = "keep"
    BY <1>8, ProgramSteps DEF Describers, OfAnyObject
  <1>9. CASE prog = "use"
    BY <1>9, ProgramSteps DEF Describers, OfAnyObject
  <1>10. CASE prog = "upload"
    BY <1>10, ProgramSteps DEF Describers, OfAnyObject
  <1>11. CASE prog = "find"
    BY <1>11, ProgramSteps DEF Describers, OfAnyObject
  <1>12. CASE prog = "findAll"
    BY <1>12, ProgramSteps DEF Describers, OfAnyObject
  <1>13. CASE prog = "named"
    BY <1>13, ProgramSteps DEF Describers, OfAnyObject
  <1>14. CASE prog = "given"
    BY <1>14, ProgramSteps DEF Describers, OfAnyObject
  <1>15. CASE prog = "dropped"
    BY <1>15, ProgramSteps DEF Describers, OfAnyObject
  <1>16. CASE prog = "adopted"
    BY <1>16, ProgramSteps DEF Describers, OfAnyObject
  <1>17. CASE prog = "spread"
    BY <1>17, ProgramSteps DEF Describers, OfAnyObject
  <1>18. CASE prog = "filled"
    BY <1>18, ProgramSteps DEF Describers, OfAnyObject
  <1>19. CASE prog = "alert"
    BY <1>19, ProgramSteps DEF Describers, OfAnyObject
  <1>20. CASE prog = "dialog"
    BY <1>20, ProgramSteps DEF Describers, OfAnyObject
  <1>21. CASE prog = "print"
    BY <1>21, ProgramSteps DEF Describers, OfAnyObject
  <1>22. CASE prog = "stream"
    BY <1>22, ProgramSteps DEF Describers, OfAnyObject
  <1> QED BY <1>1, <1>2, <1>3, <1>4, <1>5, <1>6, <1>7, <1>8, <1>9, <1>10, <1>11, <1>12, <1>13, <1>14, <1>15, <1>16, <1>17, <1>18, <1>19, <1>20, <1>21, <1>22, ProgramNames

------------------------------------------------------------------------------
(* Proof of Typed.                                                          *)

LEMMA ObjectFacts ==
    /\ NoObject \in AnyObject /\ NoObject \notin Objects /\ Objects \subseteq AnyObject
    /\ \A p \in Pages, n \in 1 .. MaxObjects : <<p, n>> \in Objects
    /\ 0 \in Runs /\ 0 \in Dialogs /\ Runs \subseteq Nat /\ Dialogs \subseteq Nat
    /\ NoPage \notin Pages
  BY HandlesAssumption DEF NoObject, AnyObject, Objects, Runs, Dialogs

LEMMA TypeFacts ==
    /\ NoTask \in Task /\ NoTask.prog = "none" /\ NoTask.obj = NoObject /\ NoTask.of = NoObject
    /\ NoCommand \in Command /\ NoCommand.cmd = "none" /\ NoCommand.task = 0
    /\ NoCall \in CallRec /\ NoCall.obj = NoObject /\ NoCall.kind = "none" /\ NoCall.result = "none"
  <1>1. NoTask \in Task /\ NoTask.prog = "none" /\ NoTask.obj = NoObject /\ NoTask.of = NoObject
    BY ProgramNames, ObjectFacts DEF NoTask, Task
  <1>2. NoCommand \in Command /\ NoCommand.cmd = "none" /\ NoCommand.task = 0
    BY DEF NoCommand, Command, Words
  <1>3. NoCall \in CallRec /\ NoCall.obj = NoObject /\ NoCall.kind = "none" /\ NoCall.result = "none"
    BY ObjectFacts DEF NoCall, CallRec, Results, Words
  <1> QED BY <1>1, <1>2, <1>3

LEMMA TaskFields ==
    ASSUME NEW t \in Task
    PROVE  /\ t.prog \in DOMAIN Programs /\ t.at \in Nat /\ t.run \in Runs /\ t.obj \in AnyObject
           /\ t.node \in Nat /\ t.of \in AnyObject /\ t.stream \in Nat
           /\ [t EXCEPT !.at = @ + 1] \in Task
           /\ \A o \in AnyObject : [t EXCEPT !.obj = o] \in Task
           /\ \A s \in Nat : [t EXCEPT !.stream = s] \in Task
           /\ \A n \in Nat : [t EXCEPT !.node = n] \in Task
           /\ \A n \in Nat, o \in AnyObject : [t EXCEPT !.node = n, !.of = o] \in Task
  <1>1. /\ t.prog \in DOMAIN Programs /\ t.at \in Nat /\ t.run \in Runs /\ t.obj \in AnyObject
        /\ t.node \in Nat /\ t.of \in AnyObject /\ t.stream \in Nat
    BY DEF Task
  <1>2. [t EXCEPT !.at = @ + 1] \in Task
    <2>1. t.at + 1 \in Nat
      BY <1>1
    <2> QED BY <2>1 DEF Task
  <1>3. \A o \in AnyObject : [t EXCEPT !.obj = o] \in Task
    BY DEF Task
  <1>4. \A s \in Nat : [t EXCEPT !.stream = s] \in Task
    BY DEF Task
  <1>5. \A n \in Nat, o \in AnyObject : [t EXCEPT !.node = n, !.of = o] \in Task
    BY DEF Task
  <1>6. \A n \in Nat : [t EXCEPT !.node = n] \in Task
    BY DEF Task
  <1> QED BY <1>1, <1>2, <1>3, <1>4, <1>5, <1>6

LEMMA MineTyped ==
    ASSUME Control, NEW p \in Pages
    PROVE  /\ \A k \in Tasks : tasks[p][k] \in Task
           /\ pc[p] # "idle" => h[p].task \in Tasks /\ Mine(p) \in Task /\ Mine(p).obj \in AnyObject
           /\ call[p] \in CallRec /\ call[p].obj \in AnyObject /\ h[p] \in Command
  <1>1. \A k \in Tasks : tasks[p][k] \in Task
    BY DEF Control
  <1>2. pc[p] # "idle" => h[p].task \in Tasks
    BY DEF Control
  <1>3. call[p] \in CallRec /\ h[p] \in Command /\ call[p].obj \in AnyObject
    BY DEF Control, CallRec
  <1> QED BY <1>1, <1>2, <1>3, TaskFields DEF Mine

\* The three ways a handler moves: it answers, it calls, it goes on.
LEMMA AnswerControl ==
    ASSUME Control, NEW p \in Pages, NEW k \in Tasks, NEW t \in Task, NEW g, Answer(p, k, g, t)
    PROVE  /\ Control'
           /\ pc' = [pc EXCEPT ![p] = "idle"] /\ h' = [h EXCEPT ![p] = NoCommand]
           /\ call' = [call EXCEPT ![p] = NoCall]
           /\ \E u \in {NoTask, [t EXCEPT !.at = @ + 1]} : tasks' = [tasks EXCEPT ![p][k] = u]
  <1>1. /\ pc' = [pc EXCEPT ![p] = "idle"] /\ h' = [h EXCEPT ![p] = NoCommand]
        /\ call' = [call EXCEPT ![p] = NoCall]
    BY DEF Answer, Goto
  <1>2. PICK u \in {NoTask, [t EXCEPT !.at = @ + 1]} : tasks' = [tasks EXCEPT ![p][k] = u]
    BY DEF Answer
  <1>3. u \in Task
    BY <1>2, TypeFacts, TaskFields
  <1>4. tasks' \in [Pages -> [Tasks -> Task]]
    BY <1>2, <1>3 DEF Control
  <1> QED BY <1>1, <1>2, <1>4, TypeFacts DEF Control, PCs

LEMMA SendsControl ==
    ASSUME Control, NEW p \in Pages, NEW l \in PCs \ {"idle"}, NEW kind \in Words,
           NEW o \in AnyObject, Sends(p, l, kind, o),
           \/ h' = h /\ pc[p] # "idle"
           \/ h' \in [Pages -> Command] /\ h'[p].task \in Tasks /\ h'[p].cmd # "none"
              /\ \A q \in Pages : q # p => h'[q] = h[q]
    PROVE  Control' /\ pc' = [pc EXCEPT ![p] = l] /\ tasks' = tasks
           /\ call' = [call EXCEPT ![p] = [NoCall EXCEPT !.kind = kind, !.obj = o, !.result = "sent"]]
  <1>1. [NoCall EXCEPT !.kind = kind, !.obj = o, !.result = "sent"] \in CallRec
    BY TypeFacts DEF CallRec, Results
  <1> QED BY <1>1 DEF Control, Sends, Goto

LEMMA GotoControl ==
    ASSUME Control, NEW p \in Pages, NEW l \in PCs \ {"idle"}, Goto(p, l), UNCHANGED <<call, tasks>>,
           \/ h' = h /\ pc[p] # "idle"
           \/ h' \in [Pages -> Command] /\ h'[p].task \in Tasks /\ h'[p].cmd # "none"
              /\ \A q \in Pages : q # p => h'[q] = h[q]
    PROVE  Control' /\ pc' = [pc EXCEPT ![p] = l]
  BY DEF Control, Goto

LEMMA BeginsTyped ==
    ASSUME Control, NEW p \in Pages, NEW k \in Tasks, Begins(p, k), Cmd(p, k) \in Words,
           Cmd(p, k) # "none"
    PROVE  /\ h' \in [Pages -> Command] /\ h'[p].task \in Tasks /\ h'[p].cmd # "none"
           /\ \A q \in Pages : q # p => h'[q] = h[q]
           /\ h'[p].cmd = Cmd(p, k) /\ h'[p].task = k
  <1>1. [NoCommand EXCEPT !.task = k, !.cmd = Cmd(p, k)] \in Command
    BY TypeFacts DEF Command, NoCommand
  <1> QED BY <1>1 DEF Control, Begins, NoCommand

LEMMA ControlFound ==
    ASSUME Typed, NEW p \in Pages, NoteObject(p) \/ EvaluateReturns(p) \/ ResolveReturns(p)
                                   \/ DescribeReturns(p)
    PROVE  Control'
  <1>0. Control /\ pc[p] # "idle"
    BY DEF Typed, NoteObject, EvaluateReturns, ResolveReturns, DescribeReturns, Ended
  <1>1. h[p].task \in Tasks /\ Mine(p) \in Task /\ Mine(p).obj \in AnyObject
        /\ call[p].obj \in AnyObject /\ h[p].id \in Nat
    BY <1>0, MineTyped DEF Command
  <1>2. /\ [Mine(p) EXCEPT !.obj = call[p].obj] \in Task
        /\ [Mine(p) EXCEPT !.node = h[p].id, !.of = Mine(p).obj] \in Task
    BY <1>1, TaskFields
  <1>3. CASE NoteObject(p) \/ EvaluateReturns(p) \/ ResolveReturns(p)
    BY <1>0, <1>1, <1>2, <1>3, AnswerControl DEF NoteObject, EvaluateReturns, ResolveReturns
  <1>4. CASE DescribeReturns(p)
    <2>1. CASE \E l \in {"detailed", "fallback"} : Sends(p, l, "function", Mine(p).obj) /\ UNCHANGED h
      BY <1>0, <1>1, <2>1, SendsControl DEF PCs, Words
    <2>2. CASE Answer(p, h[p].task, TRUE, [Mine(p) EXCEPT !.node = h[p].id, !.of = Mine(p).obj])
      BY <1>0, <1>1, <1>2, <2>2, AnswerControl
    <2> QED BY <1>4, <2>1, <2>2 DEF DescribeReturns
  <1> QED BY <1>3, <1>4

LEMMA ControlReturns ==
    ASSUME Typed, NEW p \in Pages,
           \/ FunctionReturns(p) \/ UseReturns(p) \/ QuerySelector(p) \/ QuerySelectorAll(p)
           \/ Skip(p) \/ CombineReturns(p) \/ QueryReturns(p) \/ StoreStream(p)
    PROVE  Control'
  <1>0. Control /\ pc[p] # "idle"
    BY DEF Typed, FunctionReturns, UseReturns, QuerySelector, QuerySelectorAll, Skip,
           CombineReturns, QueryReturns, StoreStream, Ended
  <1>1. h[p].task \in Tasks /\ Mine(p) \in Task /\ h[p] \in Command /\ NoObject \in AnyObject
    BY <1>0, MineTyped, ObjectFacts
  <1>2. CASE FunctionReturns(p) \/ UseReturns(p) \/ QuerySelector(p) \/ QuerySelectorAll(p) \/ Skip(p)
    <2>1. NextCtxID \in Nat
      BY DEF Typed, Stores, NextCtxID
    <2>2. \A n \in Nat : [Mine(p) EXCEPT !.node = n] \in Task
      BY <1>1, TaskFields
    <2>3. CASE FunctionReturns(p) \/ UseReturns(p) \/ Skip(p)
      BY <1>0, <1>1, <2>3, AnswerControl DEF FunctionReturns, UseReturns, Skip
    <2>4. CASE QuerySelector(p) \/ QuerySelectorAll(p)
      <3>1. PICK n \in {NextCtxID, 1, 3} : \E g : Answer(p, h[p].task, g, [Mine(p) EXCEPT !.node = n])
        BY <2>4 DEF QuerySelector, QuerySelectorAll
      <3>2. [Mine(p) EXCEPT !.node = n] \in Task
        BY <2>1, <2>2
      <3> QED BY <1>0, <1>1, <3>1, <3>2, AnswerControl
    <2> QED BY <1>2, <2>3, <2>4
  <1>3. CASE CombineReturns(p)
    <2>1. CASE Answer(p, h[p].task, Ok(p), Mine(p))
      BY <1>0, <1>1, <2>1, AnswerControl
    <2>2. CASE h' = [h EXCEPT ![p].retried = TRUE] /\ Sends(p, "combined", "combined", NoObject)
      <3>1. h' \in [Pages -> Command] /\ h'[p].task = h[p].task /\ h'[p].cmd = h[p].cmd
            /\ \A q \in Pages : q # p => h'[q] = h[q]
        BY <1>0, <1>1, <2>2 DEF Control, Command
      <3>2. h[p].cmd # "none"
        BY <1>0 DEF Control
      <3> QED BY <1>0, <1>1, <2>2, <3>1, <3>2, SendsControl DEF PCs, Words
    <2> QED BY <1>3, <2>1, <2>2 DEF CombineReturns
  <1>4. CASE QueryReturns(p)
    <2>1. CASE Answer(p, h[p].task, FALSE, Mine(p))
      BY <1>0, <1>1, <2>1, AnswerControl
    <2>2. CASE h' = [h EXCEPT ![p].id = NextCtxID] /\ Goto(p, "note") /\ UNCHANGED <<call, tasks>>
      <3>1. NextCtxID \in Nat
        BY DEF Typed, Stores, NextCtxID
      <3>2. h' \in [Pages -> Command] /\ h'[p].task = h[p].task /\ h'[p].cmd = h[p].cmd
            /\ \A q \in Pages : q # p => h'[q] = h[q]
        BY <1>0, <1>1, <2>2, <3>1 DEF Control, Command
      <3>3. h[p].cmd # "none"
        BY <1>0 DEF Control
      <3> QED BY <1>0, <1>1, <2>2, <3>2, <3>3, GotoControl DEF PCs
    <2> QED BY <1>4, <2>1, <2>2 DEF QueryReturns
  <1>5. CASE StoreStream(p)
    <2>1. streams + 1 \in Nat
      BY DEF Typed, Stores
    <2>2. [Mine(p) EXCEPT !.stream = streams + 1] \in Task
      BY <1>1, <2>1, TaskFields
    <2> QED BY <1>0, <1>1, <1>5, <2>2, AnswerControl DEF StoreStream
  <1> QED BY <1>2, <1>3, <1>4, <1>5

LEMMA ControlGoesOn ==
    ASSUME Typed, NEW p \in Pages,
           StoreSkips(p) \/ ClearPending(p) \/ Count(p) \/ Combine(p) \/ StoreNode(p)
    PROVE  Control'
  <1>0. Control /\ pc[p] # "idle"
    BY DEF Typed, StoreSkips, ClearPending, Count, Combine, StoreNode
  <1>1. Mine(p).obj \in AnyObject /\ h[p].cmd \in Words /\ NoObject \in AnyObject
    BY <1>0, MineTyped, ObjectFacts DEF Command
  <1>2. CASE StoreSkips(p)
    BY <1>0, <1>1, <1>2, SendsControl DEF StoreSkips, PCs
  <1>3. CASE ClearPending(p) \/ Combine(p) \/ StoreNode(p)
    BY <1>0, <1>1, <1>3, SendsControl DEF ClearPending, Combine, StoreNode, PCs, Words
  <1>4. CASE Count(p)
    BY <1>0, <1>4, GotoControl DEF Count, PCs
  <1> QED BY <1>2, <1>3, <1>4

LEMMA ControlTaken ==
    ASSUME Typed, NEW p \in Pages, NEW k \in Tasks,
           \/ Refuse(p, k) \/ CallFunction(p, k) \/ ReleaseObject(p, k)
           \/ \E cmd \in Words \ {"none"} : UseObject(p, k, cmd)
           \/ ReadStream(p, k) \/ CloseStream(p, k)
    PROVE  Control'
  <1>0. Control
    BY DEF Typed
  <1>1. tasks[p][k] \in Task /\ tasks[p][k].obj \in AnyObject
    BY <1>0, MineTyped, TaskFields
  <1>2. CASE \E g : Answer(p, k, g, tasks[p][k])
    BY <1>0, <1>1, <1>2, AnswerControl
  <1>3. ASSUME Begins(p, k), Cmd(p, k) \in Words \ {"none"},
               NEW l \in PCs \ {"idle"}, NEW kind \in Words, Sends(p, l, kind, tasks[p][k].obj)
        PROVE  Control'
    BY <1>0, <1>1, <1>3, BeginsTyped, SendsControl
  <1>4. CASE Refuse(p, k) \/ ReadStream(p, k) \/ CloseStream(p, k)
    BY <1>2, <1>4 DEF Refuse, ReadStream, CloseStream
  <1>5. CASE CallFunction(p, k)
    <2>1. Cmd(p, k) \in Words \ {"none"}
      BY <1>5 DEF CallFunction, Takes, Words
    <2>2. CASE Begins(p, k) /\ Sends(p, "called", "function", tasks[p][k].obj)
      BY <1>3, <2>1, <2>2 DEF PCs, Words
    <2>3. CASE Begins(p, k) /\ UNCHANGED <<call, tasks>>
               /\ \E l \in {"clear", "count"} : Goto(p, l)
      BY <1>0, <2>1, <2>3, BeginsTyped, GotoControl DEF PCs
    <2> QED BY <1>2, <1>5, <2>2, <2>3 DEF CallFunction
  <1>6. CASE ReleaseObject(p, k)
    <2>1. Cmd(p, k) \in Words \ {"none"}
      BY <1>6 DEF ReleaseObject, Takes, Words
    <2> QED BY <1>2, <1>3, <1>6, <2>1 DEF ReleaseObject, PCs, Words
  <1>7. ASSUME NEW cmd \in Words \ {"none"}, UseObject(p, k, cmd) PROVE Control'
    <2>1. Cmd(p, k) = cmd
      BY <1>7 DEF UseObject, Takes
    <2> QED BY <1>2, <1>3, <1>7, <2>1 DEF UseObject, PCs
  <1> QED BY <1>4, <1>5, <1>6, <1>7

LEMMA ControlBegins ==
    ASSUME Typed, NEW p \in Pages, NEW k \in Tasks,
           \/ StoreSelector(p, k) \/ Evaluate(p, k) \/ GetDocument(p, k) \/ DescribeNode(p, k)
           \/ ResolveNode(p, k) \/ HandleDialog(p, k) \/ PrintToPDF(p, k)
    PROVE  Control'
  <1>0. Control /\ NoObject \in AnyObject
    BY ObjectFacts DEF Typed
  <1>1. tasks[p][k] \in Task /\ tasks[p][k].obj \in AnyObject
    BY <1>0, MineTyped, TaskFields
  <1>2. ASSUME NEW S \in SUBSET (Words \ {"none"}), Takes(p, k, S) PROVE Cmd(p, k) \in Words \ {"none"}
    BY <1>2 DEF Takes
  <1>3. ASSUME Begins(p, k), Cmd(p, k) \in Words \ {"none"},
               NEW l \in PCs \ {"idle"}, NEW kind \in Words, Sends(p, l, kind, NoObject)
        PROVE  Control'
    BY <1>0, <1>1, <1>3, BeginsTyped, SendsControl
  <1>4. CASE StoreSelector(p, k)
    <2>1. Cmd(p, k) \in Words \ {"none"}
      BY <1>4 DEF StoreSelector, Takes, Words
    <2> QED BY <1>0, <1>4, <2>1, BeginsTyped, GotoControl DEF StoreSelector, PCs
  <1>5. CASE Evaluate(p, k)
    <2>1. Cmd(p, k) \in Words \ {"none"}
      BY <1>5 DEF Evaluate, Takes, Words
    <2> QED BY <1>3, <1>5, <2>1 DEF Evaluate, PCs
  <1>6. CASE GetDocument(p, k) \/ PrintToPDF(p, k)
    <2>1. Cmd(p, k) \in Words \ {"none"}
      BY <1>6 DEF GetDocument, PrintToPDF, Takes, Words
    <2> QED BY <1>3, <1>6, <2>1 DEF GetDocument, PrintToPDF, PCs, Words
  <1>7. CASE DescribeNode(p, k)
    <2>0. NextCtxID \in Nat
      BY DEF Typed, Stores, NextCtxID
    <2>1. [NoCommand EXCEPT !.task = k, !.cmd = "describe", !.id = NextCtxID] \in Command
      BY <2>0 DEF NoCommand, Command, Words
    <2>2. /\ h' \in [Pages -> Command] /\ h'[p].task \in Tasks /\ h'[p].cmd # "none"
          /\ \A q \in Pages : q # p => h'[q] = h[q]
      BY <1>0, <1>7, <2>1 DEF DescribeNode, Control, NoCommand
    <2> QED BY <1>0, <1>7, <2>2, GotoControl DEF DescribeNode, PCs
  <1>8. CASE ResolveNode(p, k)
    <2>1. CASE tasks[p][k].node \in DOMAIN nodeObjects
      <3>1. nodeObjects[tasks[p][k].node].obj \in AnyObject
        BY <2>1, ObjectFacts DEF Typed, Stores
      <3>2. [tasks[p][k] EXCEPT !.obj = nodeObjects[tasks[p][k].node].obj] \in Task
        BY <1>1, <3>1, TaskFields
      <3> QED BY <1>0, <1>1, <1>8, <2>1, <3>2, AnswerControl DEF ResolveNode
    <2>2. CASE tasks[p][k].node \notin DOMAIN nodeObjects
      <3>1. Cmd(p, k) \in Words \ {"none"}
        BY <1>8 DEF ResolveNode, Takes, Words
      <3> QED BY <1>3, <1>8, <2>2, <3>1 DEF ResolveNode, PCs, Words
    <2> QED BY <2>1, <2>2
  <1>9. CASE HandleDialog(p, k)
    <2>1. Cmd(p, k) \in Words \ {"none"}
      BY <1>9 DEF HandleDialog, Takes, Words
    <2>2. [NoCall EXCEPT !.kind = "dialog", !.dialog = lastDialog[p], !.result = "sent"] \in CallRec
      BY TypeFacts DEF Typed, Stores, CallRec, Words, Results
    <2> QED BY <1>0, <1>9, <2>1, <2>2, BeginsTyped DEF HandleDialog, Goto, Control, PCs
  <1> QED BY <1>4, <1>5, <1>6, <1>7, <1>8, <1>9

LEMMA ControlHandler == ASSUME Typed, NEW p \in Pages, HandlerStep(p) PROVE Control'
  <1>1. ASSUME NEW k \in Tasks,
               \/ GetProperties(p, k) \/ GetBoxModel(p, k) \/ GetOuterHTML(p, k)
               \/ GetContentQuads(p, k) \/ Focus(p, k) \/ SetFileInputFiles(p, k)
        PROVE  \E cmd \in Words \ {"none"} : UseObject(p, k, cmd)
    BY <1>1 DEF GetProperties, GetBoxModel, GetOuterHTML, GetContentQuads, Focus, SetFileInputFiles,
                Words
  <1> QED BY <1>1, ControlTaken, ControlBegins, ControlFound, ControlReturns, ControlGoesOn
          DEF HandlerStep

\* The task of a program that begins.
LEMMA StartedTask ==
    ASSUME Typed, NEW p \in Pages, NEW k \in Tasks, StartProgram(p, k)
    PROVE  \E u \in Task :
               /\ tasks' = [tasks EXCEPT ![p][k] = u] /\ k \in DOMAIN scenario.programs[p]
               /\ u.prog \in scenario.programs[p][k] /\ u.prog \in DOMAIN Programs /\ u.at = 1
               /\ u.obj \in IF u.prog \in OfAnyObject THEN MadeObjects ELSE {NoObject}
               /\ u.of = NoObject /\ u.run = runs[p] + 1 /\ runs' = [runs EXCEPT ![p] = @ + 1]
               /\ u.run \in Runs
  <1>0. PICK prog \in scenario.programs[p][k] :
            \E n \in IF prog = "named" THEN DOMAIN nodeObjects ELSE {0},
               s \in IF prog = "stream" THEN 1 .. streams ELSE {0},
               o \in IF prog \in OfAnyObject THEN MadeObjects ELSE {NoObject} :
                tasks' = [tasks EXCEPT ![p][k] = [NoTask EXCEPT !.prog = prog, !.at = 1, !.obj = o,
                                                  !.run = runs[p] + 1, !.node = n, !.stream = s]]
    BY DEF StartProgram
  <1>1. PICK n \in IF prog = "named" THEN DOMAIN nodeObjects ELSE {0},
             s \in IF prog = "stream" THEN 1 .. streams ELSE {0},
             o \in IF prog \in OfAnyObject THEN MadeObjects ELSE {NoObject} :
                tasks' = [tasks EXCEPT ![p][k] = [NoTask EXCEPT !.prog = prog, !.at = 1, !.obj = o,
                                                  !.run = runs[p] + 1, !.node = n, !.stream = s]]
    BY <1>0
  <1>2. prog \in DOMAIN Programs /\ k \in DOMAIN scenario.programs[p]
        /\ scenario.runs \in [Pages -> Runs]
    BY HandlesAssumption DEF Typed, World, StartProgram, Runs
  <1>3. n \in Nat
    BY DEF Typed, Stores
  <1>4. s \in Nat
    BY DEF Typed, Stores
  <1>5. o \in AnyObject
    BY ObjectFacts DEF MadeObjects
  <1>6. runs[p] + 1 \in Runs
    BY <1>2, HandlesAssumption DEF Typed, World, Runs, StartProgram
  <1>7. [NoTask EXCEPT !.prog = prog, !.at = 1, !.obj = o,
                       !.run = runs[p] + 1, !.node = n, !.stream = s] \in Task
    BY <1>2, <1>3, <1>4, <1>5, <1>6, TypeFacts DEF Task
  <1>8. k \in DOMAIN scenario.programs[p] /\ runs' = [runs EXCEPT ![p] = @ + 1]
    BY DEF StartProgram
  <1>9. NoTask.of = NoObject
    BY TypeFacts
  <1> DEFINE u == [NoTask EXCEPT !.prog = prog, !.at = 1, !.obj = o,
                                 !.run = runs[p] + 1, !.node = n, !.stream = s]
  <1>10. u.prog = prog /\ u.at = 1 /\ u.obj = o /\ u.run = runs[p] + 1 /\ u.of = NoObject
    BY <1>9 DEF NoTask
  <1>11. u \in Task /\ tasks' = [tasks EXCEPT ![p][k] = u]
    BY <1>1, <1>7
  <1>12. o \in IF prog \in OfAnyObject THEN MadeObjects ELSE {NoObject}
    OBVIOUS
  <1> HIDE DEF u
  <1> QED BY <1>2, <1>6, <1>8, <1>10, <1>11, <1>12

LEMMA ControlStart ==
    ASSUME Typed, NEW p \in Pages, NEW k \in Tasks, StartProgram(p, k) PROVE Control'
  <1>1. PICK u \in Task : tasks' = [tasks EXCEPT ![p][k] = u]
    BY StartedTask
  <1>2. tasks' \in [Pages -> [Tasks -> Task]]
    BY <1>1 DEF Typed, Control
  <1> QED BY <1>2 DEF Typed, Control, StartProgram

\* A call changes in its result, and in the object it found.
LEMMA BrowserCalls ==
    ASSUME Typed, NEW p \in Pages, BrowserStep(p), call' # call
    PROVE  /\ call' \in [Pages -> CallRec] /\ \A q \in Pages : q # p => call'[q] = call[q]
           /\ call'[p].kind = call[p].kind /\ call'[p].result \in Results \ {"none", "sent"}
           /\ call[p].result \in {"sent", "blocked"}
           /\ \/ call'[p].obj \in {NoObject, call[p].obj}
              \/ /\ call[p].result = "sent" /\ call'[p].result = "ok"
                 /\ call[p].kind \in {"query", "queryAll", "handle"}
                 /\ made[p] < MaxObjects /\ made' = [made EXCEPT ![p] = @ + 1]
                 /\ call'[p].obj = <<p, made[p] + 1>>
  <1>0. call[p] \in CallRec /\ call[p].obj \in AnyObject /\ NoObject \in AnyObject
        /\ call \in [Pages -> CallRec] /\ made \in [Pages -> 0 .. MaxObjects]
    BY MineTyped, ObjectFacts DEF Typed, Control, World
  <1>1. ASSUME NEW r \in Results, NEW o \in AnyObject,
               call' = [call EXCEPT ![p].result = r, ![p].obj = o]
        PROVE  /\ call' \in [Pages -> CallRec] /\ \A q \in Pages : q # p => call'[q] = call[q]
               /\ call'[p].kind = call[p].kind /\ call'[p].result = r /\ call'[p].obj = o
    BY <1>0, <1>1 DEF CallRec
  <1>2. ASSUME NEW r \in Results, call' = [call EXCEPT ![p].result = r]
        PROVE  /\ call' \in [Pages -> CallRec] /\ \A q \in Pages : q # p => call'[q] = call[q]
               /\ call'[p].kind = call[p].kind /\ call'[p].result = r
               /\ call'[p].obj = call[p].obj
    BY <1>0, <1>2 DEF CallRec
  <1>3. {"ok", "failed", "lost", "blocked"} \subseteq Results \ {"none", "sent"}
    BY DEF Results
  <1>4. CASE TimesOut(p)
    BY <1>2, <1>3, <1>4 DEF TimesOut
  <1>5. CASE Serve(p)
    <2>1. CASE ServeObject(p)
      <3>1. CASE made[p] < MaxObjects /\ made' = [made EXCEPT ![p] = @ + 1]
                 /\ Becomes(p, "ok", <<p, made[p] + 1>>)
        <4>1. <<p, made[p] + 1>> \in AnyObject
          BY <1>0, <3>1, ObjectFacts, HandlesAssumption
        <4>2. call' = [call EXCEPT ![p].result = "ok", ![p].obj = <<p, made[p] + 1>>]
          BY <3>1 DEF Becomes
        <4>3. call[p].result = "sent" /\ call[p].kind \in {"query", "queryAll", "handle"}
          BY <1>5, <2>1 DEF Serve, ServeObject
        <4>4. "ok" \in Results
          BY <1>3
        <4>5. /\ call' \in [Pages -> CallRec] /\ \A q \in Pages : q # p => call'[q] = call[q]
              /\ call'[p].kind = call[p].kind /\ call'[p].result = "ok"
              /\ call'[p].obj = <<p, made[p] + 1>>
          BY <1>1, <4>1, <4>2, <4>4
        <4> QED BY <1>3, <3>1, <4>3, <4>5
      <3>2. CASE Becomes(p, "ok", NoObject)
        BY <1>0, <1>1, <1>3, <1>5, <3>2 DEF Serve, Becomes
      <3> QED BY <2>1, <3>1, <3>2 DEF ServeObject
    <2>2. ASSUME NEW r \in {"ok", "failed", "lost", "blocked"}, NEW o \in {NoObject, call[p].obj},
                 Becomes(p, r, o)
          PROVE  /\ call' \in [Pages -> CallRec] /\ \A q \in Pages : q # p => call'[q] = call[q]
                 /\ call'[p].kind = call[p].kind /\ call'[p].result \in Results \ {"none", "sent"}
                 /\ call[p].result \in {"sent", "blocked"} /\ call'[p].obj \in {NoObject, call[p].obj}
      <3>1. r \in Results /\ o \in AnyObject /\ call[p].result = "sent"
        BY <1>0, <1>3, <1>5 DEF Serve
      <3>2. call' = [call EXCEPT ![p].result = r, ![p].obj = o]
        BY <2>2 DEF Becomes
      <3>3. /\ call' \in [Pages -> CallRec] /\ \A q \in Pages : q # p => call'[q] = call[q]
            /\ call'[p].kind = call[p].kind /\ call'[p].result = r /\ call'[p].obj = o
        BY <1>1, <3>1, <3>2
      <3> QED BY <1>3, <3>1, <3>3
    <2>3. CASE \E r \in {"ok", "failed", "lost", "blocked"} : Becomes(p, r, NoObject)
      BY <2>2, <2>3
    <2>4. CASE ServeOther(p)
      BY <2>2, <2>4 DEF ServeOther
    <2>5. CASE ServeAlert(p) \/ ServeDialog(p)
      BY <2>2, <2>5 DEF ServeAlert, ServeDialog
    <2> QED BY <1>5, <2>1, <2>3, <2>4, <2>5 DEF Serve
  <1>6. CASE PageOpensDialog(p)
    BY <1>6 DEF PageOpensDialog
  <1>7. CASE UserAnswers(p) \/ PageEnds(p)
    BY <1>2, <1>3, <1>7 DEF UserAnswers, PageEnds
  <1> QED BY <1>4, <1>5, <1>6, <1>7 DEF BrowserStep

LEMMA ControlBrowser == ASSUME Typed, NEW p \in Pages, BrowserStep(p) PROVE Control'
  <1>0. UNCHANGED <<pc, h, tasks>>
    BY DEF BrowserStep
  <1>1. call' \in [Pages -> CallRec]
    BY BrowserCalls DEF Typed, Control
  <1> QED BY <1>0, <1>1 DEF Typed, Control

LEMMA ControlNext == Typed /\ [Next]_vars => Control'
  <1> SUFFICES ASSUME Typed, [Next]_vars PROVE Control'
    OBVIOUS
  <1>1. CASE ReaderStep \/ UNCHANGED vars
    BY <1>1 DEF ReaderStep, vars, Typed, Control
  <1> QED BY <1>1, ControlHandler, ControlStart, ControlBrowser DEF Next

------------------------------------------------------------------------------
(* Which steps change what is kept.                                         *)

\* The handler's steps that change something that is kept, and the others.
Storing(p) ==
    \/ \E k \in Tasks : StoreSelector(p, k) \/ DescribeNode(p, k) \/ HandleDialog(p, k)
                        \/ CloseStream(p, k)
    \/ StoreSkips(p) \/ QueryReturns(p) \/ NoteObject(p) \/ ClearPending(p) \/ Skip(p)
    \/ Combine(p) \/ QuerySelector(p) \/ StoreNode(p) \/ StoreStream(p)

Kepts == <<nodeObjects, objectOwners, ctxCounter, lastQuery, lastQuerySkips, lastDialog,
           pdfStreams, streams, asked>>

LEMMA QuietHandler ==
    ASSUME NEW p \in Pages, HandlerStep(p)
    PROVE  Storing(p) \/ UNCHANGED Kepts
  <1>1. ASSUME NEW k \in Tasks,
               \/ Refuse(p, k) \/ CallFunction(p, k) \/ Evaluate(p, k) \/ ReleaseObject(p, k)
               \/ GetDocument(p, k) \/ ResolveNode(p, k) \/ PrintToPDF(p, k) \/ ReadStream(p, k)
        PROVE  UNCHANGED Kepts
    BY <1>1 DEF Refuse, CallFunction, Evaluate, ReleaseObject, GetDocument, ResolveNode, PrintToPDF,
                ReadStream, Kepts, nodes, queries
  <1>2. ASSUME NEW k \in Tasks,
               \/ GetProperties(p, k) \/ GetBoxModel(p, k) \/ GetOuterHTML(p, k)
               \/ GetContentQuads(p, k) \/ Focus(p, k) \/ SetFileInputFiles(p, k)
        PROVE  UNCHANGED Kepts
    BY <1>2 DEF GetProperties, GetBoxModel, GetOuterHTML, GetContentQuads, Focus, SetFileInputFiles,
                UseObject, Kepts, nodes, queries
  <1>3. ASSUME \/ Count(p) \/ CombineReturns(p) \/ FunctionReturns(p) \/ EvaluateReturns(p)
               \/ UseReturns(p) \/ QuerySelectorAll(p) \/ DescribeReturns(p) \/ ResolveReturns(p)
        PROVE  UNCHANGED Kepts
    BY <1>3 DEF Count, CombineReturns, FunctionReturns, EvaluateReturns, UseReturns,
                QuerySelectorAll, DescribeReturns, ResolveReturns, Kepts, nodes, queries
  <1> QED BY <1>1, <1>2, <1>3 DEF HandlerStep, Storing

\* Besides, a page's cleanup changes what is kept, and the read loop remembers a dialog.
LEMMA QuietOthers ==
    ASSUME [Next]_vars
    PROVE  \/ UNCHANGED Kepts
           \/ \E p \in Pages : HandlerStep(p) /\ Storing(p)
           \/ ClearState /\ UNCHANGED <<streams, asked, pc, dialog, opened>>
           \/ TakeDialogOpened /\ UNCHANGED <<nodeObjects, objectOwners, ctxCounter, lastQuery,
                                              lastQuerySkips, pdfStreams, streams, asked>>
  <1>1. CASE ReaderStep
    BY <1>1 DEF ReaderStep, TakeDialogOpened, TakeDialogClosed, TakeDetached, RemoveSession, Kepts,
                nodes, queries
  <1>2. ASSUME NEW p \in Pages, BrowserStep(p) PROVE UNCHANGED Kepts
    BY <1>2 DEF BrowserStep, Kepts, nodes, queries
  <1>3. ASSUME NEW p \in Pages, NEW k \in Tasks, StartProgram(p, k) PROVE UNCHANGED Kepts
    BY <1>3 DEF StartProgram, Kepts, nodes, queries
  <1>4. CASE UNCHANGED vars
    BY <1>4 DEF vars, Kepts, nodes, queries
  <1> QED BY <1>1, <1>2, <1>3, <1>4, QuietHandler DEF Next

------------------------------------------------------------------------------
(* What is kept keeps its type.                                             *)

NodesTyped ==
    /\ ctxCounter \in Nat /\ DOMAIN nodeObjects \subseteq 1 .. ctxCounter
    /\ \A i \in DOMAIN nodeObjects : nodeObjects[i] \in [obj : Objects, owner : Pages]
    /\ DOMAIN objectOwners \subseteq Objects
    /\ \A o \in DOMAIN objectOwners : objectOwners[o] \in Pages
StreamsTyped ==
    /\ streams \in Nat /\ DOMAIN pdfStreams \subseteq 1 .. streams
    /\ \A s \in DOMAIN pdfStreams : pdfStreams[s] \in Pages
WordsTyped ==
    /\ lastQuery \in [Pages -> Runs] /\ lastQuerySkips \in [Pages -> -1 .. 3]
    /\ lastDialog \in [Pages -> Dialogs] /\ asked \in [Pages -> SUBSET Dialogs]

\* An object is stored under an id that was allocated, by its own handler.
LEMMA StoreTyped ==
    ASSUME Typed, NEW p \in Pages, NEW o \in Objects, h[p].id \in 1 .. ctxCounter,
           nodeObjects' = With(nodeObjects, h[p].id, [obj |-> o, owner |-> p]),
           objectOwners' = With(objectOwners, o, p), ctxCounter' = ctxCounter
    PROVE  NodesTyped'
  <1>1. /\ DOMAIN nodeObjects' = DOMAIN nodeObjects \cup {h[p].id}
        /\ nodeObjects'[h[p].id] = [obj |-> o, owner |-> p]
        /\ \A i \in DOMAIN nodeObjects : i # h[p].id => nodeObjects'[i] = nodeObjects[i]
    BY DEF With
  <1>2. /\ DOMAIN objectOwners' = DOMAIN objectOwners \cup {o} /\ objectOwners'[o] = p
        /\ \A q \in DOMAIN objectOwners : q # o => objectOwners'[q] = objectOwners[q]
    BY DEF With
  <1> QED BY <1>1, <1>2 DEF Typed, Stores, NodesTyped

LEMMA NodesNext == Typed /\ [Next]_vars => NodesTyped'
  <1> SUFFICES ASSUME Typed, [Next]_vars PROVE NodesTyped'
    OBVIOUS
  <1>0. NodesTyped
    BY DEF Typed, Stores, NodesTyped
  <1>1. CASE UNCHANGED <<nodeObjects, objectOwners, ctxCounter>>
    BY <1>0, <1>1 DEF NodesTyped
  <1>2. CASE UNCHANGED <<nodeObjects, objectOwners>> /\ ctxCounter' = NextCtxID
    <2>1. ctxCounter' \in Nat /\ 1 .. ctxCounter \subseteq 1 .. ctxCounter'
      BY <1>0, <1>2 DEF NodesTyped, NextCtxID
    <2> QED BY <1>0, <1>2, <2>1 DEF NodesTyped
  <1>3. CASE ClearState
    <2>1. PICK S, T : /\ nodeObjects' = Without(nodeObjects, S)
                      /\ objectOwners' = Without(objectOwners, T) /\ ctxCounter' = ctxCounter
      BY <1>3 DEF ClearState, ClearObjects
    <2> QED BY <1>0, <2>1 DEF NodesTyped, Without, Restrict
  <1>4. ASSUME NEW p \in Pages, HandlerStep(p), Storing(p) PROVE NodesTyped'
    <2>1. CASE NoteObject(p)
      <3>1. call[p].obj \in Objects /\ h[p].id \in 1 .. ctxCounter
        BY <2>1, MineTyped DEF Typed, InHand, NoteObject, AnyObject
      <3> QED BY <2>1, <3>1, StoreTyped DEF NoteObject
    <2>2. CASE StoreNode(p)
      <3>1. Mine(p).obj \in AnyObject /\ Mine(p).obj # NoObject
        BY <2>2, MineTyped DEF Typed, InHand, StoreNode, Mine
      <3>2. Mine(p).obj \in Objects /\ h[p].id \in 1 .. ctxCounter
        BY <2>2, <3>1 DEF Typed, InHand, StoreNode, AnyObject
      <3> QED BY <2>2, <3>2, StoreTyped DEF StoreNode
    <2>3. CASE \E k \in Tasks : StoreSelector(p, k) \/ HandleDialog(p, k) \/ CloseStream(p, k)
      BY <1>1, <2>3 DEF StoreSelector, HandleDialog, CloseStream, nodes
    <2>4. CASE \E k \in Tasks : DescribeNode(p, k)
      BY <1>2, <2>4 DEF DescribeNode
    <2>5. CASE StoreSkips(p) \/ ClearPending(p) \/ Skip(p) \/ Combine(p) \/ StoreStream(p)
      BY <1>1, <2>5 DEF StoreSkips, ClearPending, Skip, Combine, StoreStream, nodes
    <2>6. CASE QueryReturns(p) \/ QuerySelector(p)
      BY <1>1, <1>2, <2>6 DEF QueryReturns, QuerySelector
    <2> QED BY <1>4, <2>1, <2>2, <2>3, <2>4, <2>5, <2>6 DEF Storing
  <1> QED BY <1>1, <1>3, <1>4, QuietOthers DEF Kepts

LEMMA StreamsNext == Typed /\ [Next]_vars => StreamsTyped'
  <1> SUFFICES ASSUME Typed, [Next]_vars PROVE StreamsTyped'
    OBVIOUS
  <1>0. StreamsTyped
    BY DEF Typed, Stores, StreamsTyped
  <1>1. CASE UNCHANGED <<streams, pdfStreams>>
    BY <1>0, <1>1 DEF StreamsTyped
  <1>2. ASSUME NEW S, pdfStreams' = Without(pdfStreams, S), streams' = streams PROVE StreamsTyped'
    BY <1>0, <1>2 DEF StreamsTyped, Without, Restrict
  <1>3. CASE ClearState /\ UNCHANGED streams
    BY <1>2, <1>3 DEF ClearState
  <1>4. ASSUME NEW p \in Pages, HandlerStep(p), Storing(p) PROVE StreamsTyped'
    <2>1. CASE \E k \in Tasks : CloseStream(p, k)
      BY <1>1, <1>2, <2>1 DEF CloseStream
    <2>2. CASE StoreStream(p) /\ streams' = streams + 1 /\ pdfStreams' = With(pdfStreams, streams + 1, p)
      <3>1. streams' \in Nat /\ streams + 1 \in 1 .. streams' /\ 1 .. streams \subseteq 1 .. streams'
        BY <1>0, <2>2 DEF StreamsTyped
      <3>2. /\ DOMAIN pdfStreams' = DOMAIN pdfStreams \cup {streams + 1}
            /\ pdfStreams'[streams + 1] = p
            /\ \A s \in DOMAIN pdfStreams : s # streams + 1 => pdfStreams'[s] = pdfStreams[s]
        BY <2>2 DEF With
      <3> QED BY <1>0, <3>1, <3>2 DEF StreamsTyped
    <2>3. CASE StoreStream(p)
      BY <1>1, <2>2, <2>3 DEF StoreStream
    <2>4. CASE \E k \in Tasks : StoreSelector(p, k) \/ DescribeNode(p, k) \/ HandleDialog(p, k)
      BY <1>1, <2>4 DEF StoreSelector, DescribeNode, HandleDialog
    <2>5. CASE \/ StoreSkips(p) \/ QueryReturns(p) \/ NoteObject(p) \/ ClearPending(p) \/ Skip(p)
               \/ Combine(p) \/ QuerySelector(p) \/ StoreNode(p)
      BY <1>1, <2>5 DEF StoreSkips, QueryReturns, NoteObject, ClearPending, Skip, Combine,
                        QuerySelector, StoreNode
    <2> QED BY <1>4, <2>1, <2>3, <2>4, <2>5 DEF Storing
  <1> QED BY <1>1, <1>3, <1>4, QuietOthers DEF Kepts
------------------------------------------------------------------------------
(* How a handler moves: it answers its client, or goes on with its command. *)

LEMMA LabelFacts ==
    /\ PCsOf("query") = QueryPCs /\ PCsOf("queryAll") = QueryPCs
    /\ PCsOf("internal") = {"clear", "called"}
    /\ \A cmd \in {"onObject", "user"} :
          PCsOf(cmd) = {"count", "skip", "combine", "called", "combined"}
    /\ PCsOf("handle") = {"evaluated"} /\ PCsOf("alert") = {"evaluated"}
    /\ \A cmd \in {"document", "select", "selectAll"} : PCsOf(cmd) = {"selected"}
    /\ PCsOf("describe") = {"store", "described", "detailed", "fallback"}
    /\ PCsOf("resolve") = {"resolved"} /\ PCsOf("dialog") = {"called"}
    /\ PCsOf("print") = {"printed"}
    /\ \A cmd \in {"release", "properties", "boxModel", "html", "quads", "focus", "setFiles"} :
          PCsOf(cmd) = {"used"}
  BY DEF PCsOf

\* What a command can be of which the handler is at a label.
LEMMA LabelOf ==
    ASSUME NEW cmd
    PROVE  /\ \A l \in PCsOf(cmd) : l # "idle"
           /\ cmd \in {"query", "queryAll"} => \A l \in PCsOf(cmd) : l \in QueryPCs
           /\ cmd = "handle" => \A l \in PCsOf(cmd) : l = "evaluated"
           /\ \A l \in PCsOf(cmd) :
                 /\ l \in QueryPCs => cmd \in {"query", "queryAll"}
                 /\ l = "clear" => cmd = "internal"
                 /\ l \in {"count", "skip", "combine", "combined"} => cmd \in {"onObject", "user"}
                 /\ l = "called" => cmd \in {"internal", "onObject", "user", "dialog"}
                 /\ l = "evaluated" => cmd \in {"handle", "alert"}
                 /\ l = "selected" => cmd \in {"document", "select", "selectAll"}
                 /\ l \in {"store", "described", "detailed", "fallback"} => cmd = "describe"
                 /\ l = "resolved" => cmd = "resolve"
                 /\ l = "printed" => cmd = "print"
                 /\ l = "used" => cmd \notin {"query", "queryAll", "handle", "alert", "describe"}
  <1>1. CASE cmd \in {"query", "queryAll"}
    BY <1>1, LabelFacts DEF QueryPCs
  <1>2. CASE cmd = "internal"
    BY <1>2, LabelFacts DEF QueryPCs
  <1>3. CASE cmd \in {"onObject", "user"}
    BY <1>3, LabelFacts DEF QueryPCs
  <1>4. CASE cmd \in {"handle", "alert"}
    BY <1>4, LabelFacts DEF QueryPCs
  <1>5. CASE cmd \in {"document", "select", "selectAll"}
    BY <1>5, LabelFacts DEF QueryPCs
  <1>6. CASE cmd = "describe"
    BY <1>6, LabelFacts DEF QueryPCs
  <1>7. CASE cmd \in {"resolve", "dialog", "print"}
    BY <1>7, LabelFacts DEF QueryPCs
  <1>8. CASE cmd \notin {"query", "queryAll", "internal", "onObject", "user", "handle", "alert",
                        "document", "select", "selectAll", "describe", "resolve", "dialog", "print"}
    <2>1. PCsOf(cmd) = {"used"}
      BY <1>8 DEF PCsOf
    <2> QED BY <1>8, <2>1 DEF QueryPCs
  <1> QED BY <1>1, <1>2, <1>3, <1>4, <1>5, <1>6, <1>7, <1>8

Same(t, u) == t.prog = u.prog /\ t.at = u.at /\ t.run = u.run

\* What a task learns from the answer: an object found, or the one a node leads to; a node
\* id that was made up, or the one of the object it had.
Leads(p, i, o) == i \in DOMAIN nodeObjects /\ nodeObjects[i] = [obj |-> o, owner |-> p]
Learned(p, k, t) ==
    LET u == tasks[p][k]
    IN  /\ \/ t.obj = u.obj
           \/ pc[p] \in {"note", "evaluated", "resolved"} /\ t.obj = call[p].obj
           \/ pc[p] = "idle" /\ Leads(p, u.node, t.obj)
        /\ \/ t.of = u.of /\ t.node = u.node /\ Cmd(p, k) # "describe"
           \/ t.of = u.of /\ t.obj = u.obj /\ pc[p] = "selected"
           \/ t.of = u.obj /\ t.obj = u.obj /\ t.node = h[p].id /\ pc[p] \in {"detailed", "fallback"}

Answers(p) ==
    \E k \in Tasks, t \in Task : \E g :
        /\ Answer(p, k, g, t)
        /\ tasks[p][k].prog # "none" /\ Same(t, tasks[p][k])
        /\ pc[p] # "idle" => k = h[p].task
        /\ g => Learned(p, k, t)
        /\ g /\ t.obj = NoObject =>
              \/ Cmd(p, k) = "alert"
              \/ tasks[p][k].obj = NoObject /\ Cmd(p, k) \notin {"query", "queryAll", "handle"}

\* Steps before a call, calls that may find an object, and the calls of describeNode.
Quiet      == {"skips", "clear", "count", "skip", "combine", "store"}
Finding    == {"queried", "note", "evaluated", "resolved"}
Describing == {"described", "detailed", "fallback"}

\* A handler that goes on prepares its call, holds what it found, or sends a call, which
\* names its task's object or none.
Prepares(p) == call'[p] = call[p] /\ pc'[p] \in Quiet /\ pc[p] \in Quiet \cup {"idle"}
Found(p)    == call'[p] = call[p] /\ pc[p] = "queried" /\ pc'[p] = "note"
Asks(p) ==
    LET u == tasks[p][h'[p].task]
    IN  /\ call'[p].result = "sent" /\ pc'[p] \notin Quiet \cup {"note"}
        /\ call'[p].obj \in {NoObject, u.obj} /\ (pc'[p] \in Finding => call'[p].obj = NoObject)
        /\ call'[p].kind = "dispose" \/ h'[p].cmd = "release"
               => pc[p] = "idle" /\ pc'[p] = "used" /\ h'[p].cmd = "release" /\ ~IsStored(u.obj)
        /\ pc'[p] = "resolved" => pc[p] = "idle" /\ u.node \notin DOMAIN nodeObjects

Proceeds(p) ==
    /\ pc[p] # "used" /\ (Prepares(p) \/ Found(p) \/ Asks(p))
    /\ pc'[p] \in Describing => h'[p].id = h[p].id /\ pc[p] \in Describing \cup {"store"}

GoesOn(p) ==
    /\ tasks' = tasks /\ left' = left
    /\ \A q \in Pages : q # p => pc'[q] = pc[q] /\ h'[q] = h[q] /\ call'[q] = call[q]
    /\ h'[p].task \in Tasks /\ tasks[p][h'[p].task].prog # "none"
    /\ h'[p].cmd = Cmd(p, h'[p].task) /\ pc'[p] \in PCsOf(h'[p].cmd)
    /\ pc[p] # "idle" => h'[p].task = h[p].task
    /\ Proceeds(p)

LEMMA TakenMoves ==
    ASSUME Typed, NEW p \in Pages, NEW k \in Tasks,
           \/ Refuse(p, k) \/ CallFunction(p, k) \/ ReleaseObject(p, k) \/ ReadStream(p, k)
           \/ CloseStream(p, k) \/ ResolveNode(p, k)
           \/ \E cmd \in {"properties", "boxModel", "html", "quads", "focus", "setFiles"} :
                 UseObject(p, k, cmd)
    PROVE  Answers(p) \/ GoesOn(p)
  <1>0. /\ tasks[p][k] \in Task /\ h \in [Pages -> Command] /\ pc \in [Pages -> PCs]
        /\ pc[p] = "idle" /\ tasks[p][k].prog # "none" /\ call \in [Pages -> CallRec]
    BY MineTyped DEF Typed, Control, Refuse, CallFunction, ReleaseObject, ReadStream, CloseStream,
                     ResolveNode, UseObject, Takes
  <1>1. CASE Answer(p, k, FALSE, tasks[p][k])
    BY <1>0, <1>1 DEF Answers, Same
  <1>2. ASSUME NEW g, Answer(p, k, g, tasks[p][k]),
               Cmd(p, k) \notin {"query", "queryAll", "handle", "describe"}
        PROVE  Answers(p)
    BY <1>0, <1>2 DEF Answers, Same, Learned
  <1>3. ASSUME Begins(p, k)
        PROVE  h'[p].task = k /\ h'[p].cmd = Cmd(p, k) /\ \A q \in Pages : q # p => h'[q] = h[q]
    BY <1>0, <1>3 DEF Begins, NoCommand
  <1>4. ASSUME Begins(p, k), NEW l \in PCsOf(Cmd(p, k)), NEW kind \in Words,
               NEW o \in {NoObject, tasks[p][k].obj}, Sends(p, l, kind, o),
               l \in {"called", "used", "resolved"},
               l = "resolved" => o = NoObject /\ tasks[p][k].node \notin DOMAIN nodeObjects,
               kind = "dispose" \/ Cmd(p, k) = "release"
                  => l = "used" /\ Cmd(p, k) = "release" /\ ~IsStored(tasks[p][k].obj)
        PROVE  GoesOn(p)
    <2>1. /\ pc'[p] = l /\ \A q \in Pages : q # p => pc'[q] = pc[q] /\ call'[q] = call[q]
          /\ call'[p].result = "sent" /\ call'[p].obj = o /\ call'[p].kind = kind
      BY <1>0, <1>4 DEF Sends, Goto, NoCall
    <2>2. Asks(p)
      BY <1>0, <1>3, <1>4, <2>1 DEF Asks, Quiet, Finding
    <2>3. Proceeds(p)
      BY <1>0, <1>3, <1>4, <2>1, <2>2 DEF Proceeds, Describing
    <2> QED BY <1>0, <1>3, <1>4, <2>1, <2>3 DEF GoesOn, Sends
  <1>5. CASE Refuse(p, k) \/ ReadStream(p, k) \/ CloseStream(p, k)
    BY <1>1, <1>2, <1>5 DEF Refuse, ReadStream, CloseStream, Takes
  <1>6. CASE CallFunction(p, k)
    <2>1. Cmd(p, k) \in {"internal", "onObject", "user"}
      BY <1>6 DEF CallFunction, Takes
    <2>2. /\ "called" \in PCsOf(Cmd(p, k))
          /\ (IF IsInternal(Cmd(p, k)) THEN "clear" ELSE "count") \in PCsOf(Cmd(p, k))
      BY <2>1, LabelFacts DEF IsInternal
    <2>3. CASE Begins(p, k) /\ Sends(p, "called", "function", tasks[p][k].obj)
      BY <1>4, <2>1, <2>2, <2>3 DEF Words
    <2>4. CASE /\ Begins(p, k) /\ Goto(p, IF IsInternal(Cmd(p, k)) THEN "clear" ELSE "count")
               /\ UNCHANGED <<call, tasks, left>>
      <3>1. /\ pc'[p] \in {"clear", "count"} /\ pc'[p] \in PCsOf(Cmd(p, k))
            /\ \A q \in Pages : q # p => pc'[q] = pc[q] /\ call'[q] = call[q]
        BY <1>0, <2>2, <2>4 DEF Goto
      <3>2. Proceeds(p)
        BY <1>0, <1>3, <2>4, <3>1 DEF Proceeds, Prepares, Quiet, Describing
      <3> QED BY <1>0, <1>3, <2>4, <3>1, <3>2 DEF GoesOn
    <2> QED BY <1>1, <1>6, <2>3, <2>4 DEF CallFunction
  <1>7. CASE ReleaseObject(p, k)
    <2>1. Cmd(p, k) = "release"
      BY <1>7 DEF ReleaseObject, Takes
    <2>2. "used" \in PCsOf(Cmd(p, k))
      BY <2>1, LabelFacts
    <2>3. CASE /\ Begins(p, k) /\ ~IsStored(tasks[p][k].obj)
               /\ Sends(p, "used", "dispose", tasks[p][k].obj)
      BY <1>4, <2>1, <2>2, <2>3 DEF Words
    <2> QED BY <1>1, <1>2, <1>7, <2>1, <2>3 DEF ReleaseObject
  <1>8. ASSUME NEW cmd \in {"properties", "boxModel", "html", "quads", "focus", "setFiles"},
               UseObject(p, k, cmd)
        PROVE  Answers(p) \/ GoesOn(p)
    <2>1. Cmd(p, k) = cmd
      BY <1>8 DEF UseObject, Takes
    <2>2. "used" \in PCsOf(Cmd(p, k))
      BY <2>1, LabelFacts
    <2>3. CASE Begins(p, k) /\ Sends(p, "used", cmd, tasks[p][k].obj)
      BY <1>4, <2>1, <2>2, <2>3 DEF Words
    <2> QED BY <1>2, <1>8, <2>1, <2>3 DEF UseObject
  <1>9. CASE ResolveNode(p, k)
    <2>1. Cmd(p, k) = "resolve"
      BY <1>9 DEF ResolveNode, Takes
    <2>2. CASE tasks[p][k].node \in DOMAIN nodeObjects
      <3> DEFINE node == nodeObjects[tasks[p][k].node]
      <3>1. node.obj \in Objects
        BY <2>2 DEF Typed, Stores
      <3>2. CASE node.owner = p
        <4> DEFINE t == [tasks[p][k] EXCEPT !.obj = node.obj]
        <4>1. t \in Task /\ Same(t, tasks[p][k]) /\ t.obj # NoObject
          BY <1>0, <3>1, TaskFields, ObjectFacts DEF Same, Task
        <4>2. Answer(p, k, TRUE, t)
          BY <1>9, <2>2, <3>2 DEF ResolveNode
        <4>3. t.obj = node.obj /\ t.of = tasks[p][k].of /\ t.node = tasks[p][k].node
          BY <1>0 DEF Task
        <4>4. node = [obj |-> node.obj, owner |-> p]
          BY <2>2, <3>2 DEF Typed, Stores
        <4>5. Learned(p, k, t)
          BY <1>0, <2>1, <2>2, <4>3, <4>4 DEF Learned, Leads
        <4> QED BY <1>0, <4>1, <4>2, <4>5 DEF Answers
      <3>3. CASE node.owner # p
        BY <1>1, <1>9, <2>2, <3>3 DEF ResolveNode
      <3> QED BY <3>2, <3>3
    <2>3. CASE tasks[p][k].node \notin DOMAIN nodeObjects
      BY <1>4, <1>9, <2>1, <2>3, LabelFacts DEF ResolveNode, Words
    <2> QED BY <2>2, <2>3
  <1> QED BY <1>5, <1>6, <1>7, <1>8, <1>9

LEMMA BeginningMoves ==
    ASSUME Typed, NEW p \in Pages, NEW k \in Tasks,
           \/ StoreSelector(p, k) \/ Evaluate(p, k) \/ GetDocument(p, k) \/ DescribeNode(p, k)
           \/ HandleDialog(p, k) \/ PrintToPDF(p, k)
    PROVE  GoesOn(p)
  <1>0. /\ h \in [Pages -> Command] /\ pc \in [Pages -> PCs] /\ call \in [Pages -> CallRec]
        /\ pc[p] = "idle" /\ tasks[p][k].prog # "none"
    BY DEF Typed, Control, StoreSelector, Evaluate, GetDocument, DescribeNode, HandleDialog,
           PrintToPDF, Takes
  <1>1. ASSUME h'[p].task = k, h'[p].cmd = Cmd(p, k), \A q \in Pages : q # p => h'[q] = h[q],
               NEW l \in PCsOf(Cmd(p, k)), Goto(p, l), UNCHANGED <<tasks, left, call>>,
               l \in Quiet
        PROVE  GoesOn(p)
    <2>1. pc'[p] = l /\ \A q \in Pages : q # p => pc'[q] = pc[q]
      BY <1>0, <1>1 DEF Goto
    <2>2. Proceeds(p)
      BY <1>0, <1>1, <2>1 DEF Proceeds, Prepares, Quiet, Describing
    <2> QED BY <1>0, <1>1, <2>1, <2>2 DEF GoesOn
  <1>2. Begins(p, k) => h'[p].task = k /\ h'[p].cmd = Cmd(p, k) /\ \A q \in Pages : q # p => h'[q] = h[q]
    BY <1>0 DEF Begins, NoCommand
  <1>3. ASSUME Begins(p, k), NEW l \in PCsOf(Cmd(p, k)), l \in {"called", "evaluated", "selected", "printed"},
               Goto(p, l), UNCHANGED <<tasks, left>>, \A q \in Pages : q # p => call'[q] = call[q],
               call'[p].result = "sent", call'[p].obj = NoObject, call'[p].kind # "dispose",
               Cmd(p, k) # "release"
        PROVE  GoesOn(p)
    <2>1. pc'[p] = l /\ \A q \in Pages : q # p => pc'[q] = pc[q]
      BY <1>0, <1>3 DEF Goto
    <2>2. Asks(p)
      BY <1>2, <1>3, <2>1 DEF Asks, Quiet
    <2>3. Proceeds(p)
      BY <1>0, <1>2, <1>3, <2>1, <2>2 DEF Proceeds, Describing
    <2> QED BY <1>0, <1>2, <1>3, <2>1, <2>3 DEF GoesOn
  <1>10. ASSUME NEW l, NEW kind \in Words \ {"dispose"}, Sends(p, l, kind, NoObject)
         PROVE  /\ Goto(p, l) /\ UNCHANGED <<tasks, left>>
                /\ \A q \in Pages : q # p => call'[q] = call[q]
                /\ call'[p].result = "sent" /\ call'[p].obj = NoObject /\ call'[p].kind # "dispose"
    BY <1>0, <1>10 DEF Sends, NoCall
  <1>4. CASE StoreSelector(p, k)
    <2>1. "skips" \in PCsOf(Cmd(p, k)) /\ Cmd(p, k) \in {"query", "queryAll"}
      BY <1>4, LabelFacts DEF StoreSelector, Takes, QueryPCs
    <2> QED BY <1>1, <1>2, <1>4, <2>1 DEF StoreSelector, Quiet
  <1>5. CASE Evaluate(p, k)
    <2>1. "evaluated" \in PCsOf(Cmd(p, k)) /\ Cmd(p, k) \in {"handle", "alert"}
      BY <1>5, LabelFacts DEF Evaluate, Takes
    <2> QED BY <1>3, <1>5, <1>10, <2>1 DEF Evaluate, Words
  <1>6. CASE GetDocument(p, k)
    <2>1. "selected" \in PCsOf(Cmd(p, k)) /\ Cmd(p, k) \in {"document", "select", "selectAll"}
      BY <1>6, LabelFacts DEF GetDocument, Takes
    <2> QED BY <1>3, <1>6, <1>10, <2>1 DEF GetDocument, Words
  <1>7. CASE DescribeNode(p, k)
    <2>1. "store" \in PCsOf(Cmd(p, k)) /\ Cmd(p, k) = "describe"
      BY <1>7, LabelFacts DEF DescribeNode, Takes
    <2>2. h'[p].task = k /\ h'[p].cmd = Cmd(p, k) /\ \A q \in Pages : q # p => h'[q] = h[q]
      BY <1>0, <1>7, <2>1 DEF DescribeNode, NoCommand
    <2> QED BY <1>1, <1>7, <2>1, <2>2 DEF DescribeNode, Quiet
  <1>8. CASE HandleDialog(p, k)
    <2>1. "called" \in PCsOf(Cmd(p, k)) /\ Cmd(p, k) = "dialog"
      BY <1>8, LabelFacts DEF HandleDialog, Takes
    <2>2. /\ \A q \in Pages : q # p => call'[q] = call[q]
          /\ call'[p].result = "sent" /\ call'[p].obj = NoObject /\ call'[p].kind # "dispose"
      BY <1>0, <1>8 DEF HandleDialog, NoCall
    <2> QED BY <1>3, <1>8, <2>1, <2>2 DEF HandleDialog
  <1>9. CASE PrintToPDF(p, k)
    <2>1. "printed" \in PCsOf(Cmd(p, k)) /\ Cmd(p, k) = "print"
      BY <1>9, LabelFacts DEF PrintToPDF, Takes
    <2> QED BY <1>3, <1>9, <1>10, <2>1 DEF PrintToPDF, Words
  <1> QED BY <1>4, <1>5, <1>6, <1>7, <1>8, <1>9
LEMMA BusyFacts ==
    ASSUME Typed, NEW p \in Pages, pc[p] # "idle"
    PROVE  /\ h[p].task \in Tasks /\ Mine(p) \in Task /\ Mine(p).prog # "none"
           /\ Mine(p) = tasks[p][h[p].task]
           /\ h[p].cmd = Cmd(p, h[p].task) /\ pc[p] \in PCsOf(h[p].cmd)
           /\ h[p] \in Command /\ call[p] \in CallRec
           /\ h \in [Pages -> Command] /\ pc \in [Pages -> PCs] /\ call \in [Pages -> CallRec]
  BY MineTyped DEF Typed, Control, Running, Labelled, Mine, Cmd

\* A step that answers with what the task knew.
LEMMA ReturnsMove ==
    ASSUME Typed, NEW p \in Pages,
           \/ FunctionReturns(p) \/ UseReturns(p) \/ QuerySelector(p) \/ QuerySelectorAll(p)
           \/ Skip(p) \/ CombineReturns(p)
    PROVE  Answers(p) \/ GoesOn(p)
  <1>0. pc[p] \in {"called", "used", "selected", "skip", "combined"}
    BY DEF FunctionReturns, UseReturns, QuerySelector, QuerySelectorAll, Skip, CombineReturns, Ended
  <1>1. /\ h[p].task \in Tasks /\ Mine(p) \in Task /\ Mine(p).prog # "none" /\ pc[p] # "idle"
        /\ Mine(p) = tasks[p][h[p].task] /\ h[p].cmd = Cmd(p, h[p].task)
        /\ pc[p] \in PCsOf(h[p].cmd)
        /\ h \in [Pages -> Command] /\ pc \in [Pages -> PCs] /\ call \in [Pages -> CallRec]
    BY <1>0, BusyFacts
  <1>2. Cmd(p, h[p].task) \notin {"query", "queryAll", "handle", "describe"}
    BY <1>0, <1>1, LabelOf DEF QueryPCs
  <1>3. ASSUME NEW g, Answer(p, h[p].task, g, Mine(p)) PROVE Answers(p)
    BY <1>1, <1>2, <1>3 DEF Answers, Same, Learned
  <1>4. CASE FunctionReturns(p) \/ UseReturns(p) \/ Skip(p)
    BY <1>3, <1>4 DEF FunctionReturns, UseReturns, Skip
  <1>6. CASE QuerySelector(p) \/ QuerySelectorAll(p)
    <2>1. NextCtxID \in Nat
      BY DEF Typed, Stores, NextCtxID
    <2>2. PICK n \in {NextCtxID, 1, 3} : \E g : Answer(p, h[p].task, g, [Mine(p) EXCEPT !.node = n])
      BY <1>6 DEF QuerySelector, QuerySelectorAll
    <2> DEFINE t == [Mine(p) EXCEPT !.node = n]
    <2>3. t \in Task /\ Same(t, Mine(p)) /\ t.obj = Mine(p).obj /\ t.of = Mine(p).of
      BY <1>1, <2>1, TaskFields DEF Same, Task
    <2>4. pc[p] = "selected"
      BY <1>6 DEF QuerySelector, QuerySelectorAll, Ended
    <2>5. Learned(p, h[p].task, t)
      BY <1>1, <2>3, <2>4 DEF Learned
    <2>6. PICK g : Answer(p, h[p].task, g, t)
      BY <2>2
    <2> HIDE DEF t
    <2> QED BY <1>1, <1>2, <2>3, <2>5, <2>6 DEF Answers
  <1>5. CASE CombineReturns(p) /\ h' = [h EXCEPT ![p].retried = TRUE]
             /\ Sends(p, "combined", "combined", NoObject)
    <2>1. h'[p].task = h[p].task /\ h'[p].cmd = h[p].cmd /\ \A q \in Pages : q # p => h'[q] = h[q]
      BY <1>1, <1>5 DEF Command
    <2>2. /\ tasks' = tasks /\ left' = left /\ pc'[p] = "combined"
          /\ \A q \in Pages : q # p => pc'[q] = pc[q] /\ call'[q] = call[q]
          /\ call'[p].result = "sent" /\ call'[p].obj = NoObject /\ call'[p].kind = "combined"
      BY <1>1, <1>5 DEF Sends, Goto, NoCall
    <2>3. pc[p] = "combined" /\ h[p].cmd \in {"onObject", "user"}
      BY <1>1, <1>5, LabelOf DEF CombineReturns, Ended
    <2>4. Proceeds(p)
      BY <2>1, <2>2, <2>3 DEF Proceeds, Asks, Quiet, Finding, Describing
    <2> QED BY <1>1, <2>1, <2>2, <2>3, <2>4 DEF GoesOn
  <1> QED BY <1>3, <1>4, <1>5, <1>6 DEF CombineReturns

\* A step that answers with what the task learned.
LEMMA LearnsMove ==
    ASSUME Typed, NEW p \in Pages,
           \/ QueryReturns(p) \/ NoteObject(p) \/ EvaluateReturns(p) \/ DescribeReturns(p)
           \/ ResolveReturns(p) \/ StoreStream(p)
    PROVE  Answers(p) \/ GoesOn(p)
  <1>0. pc[p] \in {"queried", "note", "evaluated", "described", "detailed", "fallback", "resolved",
                   "printed"}
    BY DEF QueryReturns, NoteObject, EvaluateReturns, DescribeReturns, ResolveReturns, StoreStream,
           Ended
  <1>1. /\ h[p].task \in Tasks /\ Mine(p) \in Task /\ Mine(p).prog # "none" /\ pc[p] # "idle"
        /\ Mine(p) = tasks[p][h[p].task] /\ h[p].cmd = Cmd(p, h[p].task)
        /\ pc[p] \in PCsOf(h[p].cmd) /\ h[p] \in Command
        /\ h \in [Pages -> Command] /\ pc \in [Pages -> PCs] /\ call \in [Pages -> CallRec]
        /\ call[p].obj \in AnyObject
    BY <1>0, BusyFacts DEF CallRec
  <1>2. ASSUME NEW g, NEW t \in Task, Answer(p, h[p].task, g, t), Same(t, Mine(p)),
               \/ ~g \/ t.obj # NoObject \/ h[p].cmd = "alert"
               \/ t.obj = Mine(p).obj /\ h[p].cmd \notin {"query", "queryAll", "handle"},
               g => Learned(p, h[p].task, t)
        PROVE  Answers(p)
    BY <1>1, <1>2 DEF Answers
  <1>3. CASE QueryReturns(p)
    <2>1. CASE Answer(p, h[p].task, FALSE, Mine(p))
      BY <1>1, <1>2, <2>1 DEF Same
    <2>2. CASE h' = [h EXCEPT ![p].id = NextCtxID] /\ Goto(p, "note")
               /\ UNCHANGED <<call, tasks, left>>
      <3>1. h'[p].task = h[p].task /\ h'[p].cmd = h[p].cmd /\ \A q \in Pages : q # p => h'[q] = h[q]
        BY <1>1, <2>2 DEF Command
      <3>2. pc'[p] = "note" /\ \A q \in Pages : q # p => pc'[q] = pc[q]
        BY <1>1, <2>2 DEF Goto
      <3>3. h[p].cmd \in {"query", "queryAll"}
        BY <1>1, <1>3, LabelOf DEF QueryReturns, Ended, QueryPCs
      <3>4. "note" \in PCsOf(h[p].cmd)
        BY <3>3, LabelFacts DEF QueryPCs
      <3>5. Proceeds(p)
        BY <1>1, <1>3, <2>2, <3>2 DEF Proceeds, Found, Describing, QueryReturns, Ended
      <3> QED BY <1>1, <2>2, <3>1, <3>2, <3>4, <3>5 DEF GoesOn
    <2> QED BY <1>3, <2>1, <2>2 DEF QueryReturns
  <1>4. CASE NoteObject(p) \/ EvaluateReturns(p) \/ ResolveReturns(p)
    <2> DEFINE t == [Mine(p) EXCEPT !.obj = call[p].obj]
    <2>1. /\ t \in Task /\ Same(t, Mine(p)) /\ t.obj = call[p].obj
          /\ t.of = Mine(p).of /\ t.node = Mine(p).node
      BY <1>1, TaskFields DEF Same, Task
    <2>4. Learned(p, h[p].task, t)
      <3>1. pc[p] \in {"note", "evaluated", "resolved"}
        BY <1>4 DEF NoteObject, EvaluateReturns, ResolveReturns, Ended
      <3>2. Cmd(p, h[p].task) # "describe"
        BY <1>1, <3>1, LabelOf DEF QueryPCs
      <3> QED BY <1>1, <2>1, <3>1, <3>2 DEF Learned
    <2>2. CASE NoteObject(p)
      <3>1. call[p].obj # NoObject
        BY <2>2 DEF Typed, InHand, NoteObject
      <3> QED BY <1>2, <2>1, <2>2, <2>4, <3>1 DEF NoteObject
    <2>3. CASE EvaluateReturns(p) \/ ResolveReturns(p)
      BY <1>2, <2>1, <2>3, <2>4 DEF EvaluateReturns, ResolveReturns
    <2> QED BY <1>4, <2>2, <2>3
  <1>5. CASE DescribeReturns(p)
    <2>0. h[p].cmd = "describe"
      <3>1. pc[p] \in {"described", "detailed", "fallback"}
        BY <1>5 DEF DescribeReturns, Ended
      <3> QED BY <1>1, <3>1, LabelOf
    <2>1. CASE \E l \in {"detailed", "fallback"} : Sends(p, l, "function", Mine(p).obj) /\ UNCHANGED h
      <3>1. /\ tasks' = tasks /\ left' = left /\ pc'[p] \in {"detailed", "fallback"}
            /\ \A q \in Pages : q # p => pc'[q] = pc[q] /\ call'[q] = call[q]
            /\ call'[p].result = "sent" /\ call'[p].obj = Mine(p).obj /\ call'[p].kind = "function"
        BY <1>1, <2>1 DEF Sends, Goto, NoCall
      <3>2. pc'[p] \in PCsOf(h[p].cmd)
        BY <2>0, <3>1, LabelFacts
      <3>3. Asks(p)
        BY <1>1, <2>0, <2>1, <3>1 DEF Asks, Quiet, Finding
      <3>4. Proceeds(p)
        BY <1>1, <1>5, <2>1, <3>1, <3>3 DEF Proceeds, Describing, DescribeReturns, Ended
      <3> QED BY <1>1, <2>1, <3>1, <3>2, <3>4 DEF GoesOn
    <2>2. CASE Answer(p, h[p].task, TRUE, [Mine(p) EXCEPT !.node = h[p].id, !.of = Mine(p).obj])
      <3> DEFINE t == [Mine(p) EXCEPT !.node = h[p].id, !.of = Mine(p).obj]
      <3>1. h[p].id \in Nat /\ Mine(p).obj \in AnyObject
        BY <1>1, TaskFields DEF Command
      <3>2. /\ t \in Task /\ Same(t, Mine(p)) /\ t.obj = Mine(p).obj
            /\ t.of = Mine(p).obj /\ t.node = h[p].id
        BY <1>1, <3>1, TaskFields DEF Same, Task
      <3>3. pc[p] \in {"detailed", "fallback"}
        <4>1. pc'[p] = "idle"
          BY <1>1, <2>2 DEF Answer, Goto
        <4> QED BY <1>1, <1>5, <4>1 DEF DescribeReturns, Ended, Sends, Goto
      <3>4. Learned(p, h[p].task, t)
        BY <1>1, <3>2, <3>3 DEF Learned
      <3> QED BY <1>2, <2>0, <2>2, <3>2, <3>4
    <2> QED BY <1>5, <2>1, <2>2 DEF DescribeReturns
  <1>6. CASE StoreStream(p)
    <2> DEFINE t == [Mine(p) EXCEPT !.stream = streams + 1]
    <2>1. streams + 1 \in Nat
      BY DEF Typed, Stores
    <2>2. /\ t \in Task /\ Same(t, Mine(p)) /\ t.obj = Mine(p).obj
          /\ t.of = Mine(p).of /\ t.node = Mine(p).node
      BY <1>1, <2>1, TaskFields DEF Same, Task
    <2>3. h[p].cmd = "print"
      BY <1>1, <1>6, LabelOf DEF StoreStream, Ended
    <2>4. Mine(p) \in Task /\ Same(Mine(p), Mine(p))
      BY <1>1 DEF Same
    <2>5. Learned(p, h[p].task, t) /\ Learned(p, h[p].task, Mine(p))
      BY <1>1, <2>2, <2>3 DEF Learned
    <2> QED BY <1>2, <1>6, <2>2, <2>3, <2>4, <2>5 DEF StoreStream
  <1> QED BY <1>3, <1>4, <1>5, <1>6

LEMMA StayingMoves ==
    ASSUME Typed, NEW p \in Pages,
           StoreSkips(p) \/ ClearPending(p) \/ Count(p) \/ Combine(p) \/ StoreNode(p)
    PROVE  GoesOn(p)
  <1>0. pc[p] \in {"skips", "clear", "count", "combine", "store"}
    BY DEF StoreSkips, ClearPending, Count, Combine, StoreNode
  <1>1. /\ h[p].task \in Tasks /\ tasks[p][h[p].task].prog # "none" /\ pc[p] # "idle"
        /\ h[p].cmd = Cmd(p, h[p].task) /\ pc[p] \in PCsOf(h[p].cmd)
        /\ h \in [Pages -> Command] /\ pc \in [Pages -> PCs] /\ call \in [Pages -> CallRec]
    BY <1>0, BusyFacts
  <1>2. ASSUME NEW l \in PCsOf(h[p].cmd), pc' = [pc EXCEPT ![p] = l], UNCHANGED <<h, tasks, left>>,
               \A q \in Pages : q # p => call'[q] = call[q], Proceeds(p)
        PROVE  GoesOn(p)
    BY <1>1, <1>2 DEF GoesOn
  <1>3. ASSUME NEW l \in PCsOf(h[p].cmd), NEW kind, NEW o \in {NoObject, Mine(p).obj},
               Sends(p, l, kind, o), UNCHANGED h, l \notin Quiet \cup {"note", "resolved"},
               kind # "dispose",
               l \in Finding => o = NoObject, l \in Describing => pc[p] = "store"
        PROVE  GoesOn(p)
    <2>1. /\ pc' = [pc EXCEPT ![p] = l] /\ pc'[p] = l /\ \A q \in Pages : q # p => call'[q] = call[q]
          /\ call'[p].result = "sent" /\ call'[p].obj = o /\ call'[p].kind = kind
      BY <1>1, <1>3 DEF Sends, Goto, NoCall
    <2>2. h[p].cmd # "release"
      BY <1>0, <1>1, LabelOf DEF QueryPCs
    <2>3. Asks(p)
      BY <1>3, <2>1, <2>2 DEF Asks, Mine
    <2>4. Proceeds(p)
      BY <1>0, <1>1, <1>3, <2>1, <2>3 DEF Proceeds
    <2> QED BY <1>2, <1>3, <2>1, <2>4 DEF Sends
  <1>4. CASE StoreSkips(p)
    <2>1. "queried" \in PCsOf(h[p].cmd)
      BY <1>1, <1>4, LabelOf, LabelFacts DEF StoreSkips, QueryPCs
    <2>2. h[p].cmd # "dispose"
      BY <1>1, <1>4, LabelOf DEF StoreSkips, QueryPCs
    <2> QED BY <1>3, <1>4, <2>1, <2>2 DEF StoreSkips, Quiet, Describing
  <1>5. CASE ClearPending(p)
    <2>1. "called" \in PCsOf(h[p].cmd)
      BY <1>1, <1>5, LabelOf, LabelFacts DEF ClearPending
    <2> QED BY <1>3, <1>5, <2>1 DEF ClearPending, Quiet, Finding, Describing
  <1>6. CASE Count(p)
    <2>1. "skip" \in PCsOf(h[p].cmd) /\ "combine" \in PCsOf(h[p].cmd)
      BY <1>1, <1>6, LabelOf, LabelFacts DEF Count
    <2>2. pc' = [pc EXCEPT ![p] = IF lastQuerySkips[p] > 0 THEN "skip" ELSE "combine"]
      BY <1>6 DEF Count, Goto
    <2>3. Proceeds(p)
      BY <1>1, <1>6, <2>2 DEF Count, Proceeds, Prepares, Quiet, Describing
    <2> QED BY <1>2, <1>6, <2>1, <2>2, <2>3 DEF Count
  <1>7. CASE Combine(p)
    <2>1. "combined" \in PCsOf(h[p].cmd)
      BY <1>1, <1>7, LabelOf, LabelFacts DEF Combine
    <2> QED BY <1>3, <1>7, <2>1 DEF Combine, Quiet, Describing
  <1>8. CASE StoreNode(p)
    <2>1. "described" \in PCsOf(h[p].cmd)
      BY <1>1, <1>8, LabelOf, LabelFacts DEF StoreNode
    <2> QED BY <1>3, <1>8, <2>1 DEF StoreNode, Quiet, Finding
  <1> QED BY <1>4, <1>5, <1>6, <1>7, <1>8

LEMMA HandlerMoves ==
    ASSUME Typed, NEW p \in Pages, HandlerStep(p)
    PROVE  Answers(p) \/ GoesOn(p)
  <1>1. ASSUME NEW k \in Tasks,
               \/ GetProperties(p, k) \/ GetBoxModel(p, k) \/ GetOuterHTML(p, k)
               \/ GetContentQuads(p, k) \/ Focus(p, k) \/ SetFileInputFiles(p, k)
        PROVE  \E cmd \in {"properties", "boxModel", "html", "quads", "focus", "setFiles"} :
                  UseObject(p, k, cmd)
    BY <1>1 DEF GetProperties, GetBoxModel, GetOuterHTML, GetContentQuads, Focus, SetFileInputFiles
  <1> QED BY <1>1, TakenMoves, BeginningMoves, ReturnsMove, LearnsMove, StayingMoves DEF HandlerStep
------------------------------------------------------------------------------
(* What a move does to the task and the handler of a page.                  *)

LEMMA AnswerEffect ==
    ASSUME Typed, NEW p \in Pages, NEW k \in Tasks, NEW t \in Task, NEW g, Answer(p, k, g, t)
    PROVE  /\ pc'[p] = "idle" /\ h'[p] = NoCommand /\ call'[p] = NoCall
           /\ \A q \in Pages : q # p => pc'[q] = pc[q] /\ h'[q] = h[q] /\ call'[q] = call[q]
                                        /\ tasks'[q] = tasks[q]
           /\ \A l \in Tasks : l # k => tasks'[p][l] = tasks[p][l]
           /\ tasks'[p][k] = IF g /\ t.at < Len(Programs[t.prog]) THEN [t EXCEPT !.at = @ + 1]
                             ELSE NoTask
           /\ left' \in {left, [left EXCEPT ![p] = @ \cup {t.run}]}
           /\ ~g \/ (t.prog = "element" /\ ~(t.at < Len(Programs[t.prog])))
                 => left' = [left EXCEPT ![p] = @ \cup {t.run}]
  BY DEF Answer, Goto, Typed, Control

LEMMA ProgressNext == Typed /\ [Next]_vars => Running' /\ Labelled' /\ Going'
  <1> SUFFICES ASSUME Typed, [Next]_vars PROVE Running' /\ Labelled' /\ Going'
    OBVIOUS
  <1>0. Running /\ Labelled /\ Going
    BY DEF Typed
  <1>1. CASE UNCHANGED <<pc, h, tasks>>
    BY <1>0, <1>1 DEF Running, Labelled, Going
  <1>2. ASSUME NEW p \in Pages, Answers(p) PROVE Running' /\ Labelled' /\ Going'
    <2>1. PICK k \in Tasks, t \in Task : \E g :
              /\ Answer(p, k, g, t) /\ tasks[p][k].prog # "none" /\ Same(t, tasks[p][k])
              /\ pc[p] # "idle" => k = h[p].task
              /\ g => Learned(p, k, t)
              /\ g /\ t.obj = NoObject =>
                    \/ Cmd(p, k) = "alert"
                    \/ tasks[p][k].obj = NoObject /\ Cmd(p, k) \notin {"query", "queryAll", "handle"}
      BY <1>2 DEF Answers
    <2>2. PICK g :
              /\ Answer(p, k, g, t) /\ tasks[p][k].prog # "none" /\ Same(t, tasks[p][k])
              /\ pc[p] # "idle" => k = h[p].task
              /\ g => Learned(p, k, t)
              /\ g /\ t.obj = NoObject =>
                    \/ Cmd(p, k) = "alert"
                    \/ tasks[p][k].obj = NoObject /\ Cmd(p, k) \notin {"query", "queryAll", "handle"}
      BY <2>1
    <2>3. /\ pc'[p] = "idle"
          /\ \A q \in Pages : q # p => pc'[q] = pc[q] /\ h'[q] = h[q] /\ tasks'[q] = tasks[q]
          /\ \A l \in Tasks : l # k => tasks'[p][l] = tasks[p][l]
          /\ tasks'[p][k] = IF g /\ t.at < Len(Programs[t.prog]) THEN [t EXCEPT !.at = @ + 1]
                            ELSE NoTask
      BY <2>2, AnswerEffect
    <2>4. Running' /\ Labelled'
      BY <1>0, <2>3 DEF Running, Labelled
    <2>5. \A q \in Pages, l \in Tasks : (q # p \/ l # k) => tasks'[q][l] = tasks[q][l]
      BY <2>3
    <2>6. CASE tasks'[p][k] = NoTask
      <3>1. tasks'[p][k].prog = "none"
        BY <2>6, TypeFacts
      <3> QED BY <1>0, <2>4, <2>5, <3>1 DEF Going
    <2>7. CASE g /\ t.at < Len(Programs[t.prog]) /\ tasks'[p][k] = [t EXCEPT !.at = @ + 1]
      <3>1. /\ t.prog \in DOMAIN Programs /\ t.at \in Nat /\ t.prog # "none"
            /\ t.prog = tasks[p][k].prog /\ t.at = tasks[p][k].at
        BY <2>2, TaskFields DEF Same
      <3>2. Len(Programs[t.prog]) \in Nat /\ t.at \in 1 .. Len(Programs[t.prog])
        BY <1>0, <3>1, <2>2, ProgramFacts DEF Going, Progresses
      <3>3. /\ tasks'[p][k].prog = t.prog /\ tasks'[p][k].at = t.at + 1
            /\ tasks'[p][k].obj = t.obj /\ tasks'[p][k].of = t.of
        BY <2>7, <3>1 DEF Task
      <3>4. t.at + 1 \in 1 .. Len(Programs[t.prog])
        BY <2>7, <3>2
      <3>7. ASSUME t.prog \in OfAnyObject PROVE t.obj # NoObject
        <4>1. Cmd(p, k) = Programs[t.prog][t.at]
          BY <3>1 DEF Cmd
        <4>2. Cmd(p, k) # "alert"
          BY <3>1, <3>2, <3>7, <4>1, ProgramFacts DEF OfAnyObject
        <4>3. tasks[p][k].obj # NoObject
          BY <1>0, <2>2, <3>1, <3>7 DEF Going, Progresses
        <4> QED BY <2>2, <2>7, <4>2, <4>3
      <3>9. ASSUME NEW n \in 1 .. t.at, Programs[t.prog][n] = "describe" PROVE t.of # NoObject
        <4>1. CASE n = t.at
          <5>1. Cmd(p, k) = "describe"
            BY <3>1, <3>9, <4>1 DEF Cmd
          <5>2. pc[p] # "selected"
            <6> SUFFICES ASSUME pc[p] = "selected" PROVE FALSE
              OBVIOUS
            <6>1. k = h[p].task
              BY <2>2
            <6> QED BY <5>1, <6>1, BusyFacts, LabelOf
          <5>3. t.of = tasks[p][k].obj
            BY <2>2, <2>7, <5>1, <5>2 DEF Learned
          <5>4. tasks[p][k].obj # NoObject
            BY <1>0, <2>2, <3>1, <3>2, <3>9, <4>1, ProgramFacts DEF Going, Progresses, OfAnyObject
          <5> QED BY <5>3, <5>4
        <4>2. CASE n # t.at
          <5>1. n \in 1 .. t.at - 1
            BY <3>1, <4>2
          <5>2. tasks[p][k].of # NoObject
            BY <1>0, <2>2, <3>1, <3>9, <5>1 DEF Going, Progresses
          <5>3. t.of = tasks[p][k].of \/ t.of = tasks[p][k].obj
            BY <2>2, <2>7 DEF Learned
          <5>4. tasks[p][k].obj # NoObject
            BY <1>0, <2>2, <3>1, <5>2 DEF Going, Progresses, OfAnyObject
          <5> QED BY <5>2, <5>3, <5>4
        <4> QED BY <4>1, <4>2
      <3>8. t.of # NoObject => t.prog \in Describers \cup {"adopted"}
        <4>1. tasks[p][k].of # NoObject => t.prog \in Describers \cup {"adopted"}
          BY <1>0, <2>2, <3>1 DEF Going, Progresses
        <4>2. CASE t.of = tasks[p][k].of
          BY <4>1, <4>2
        <4>3. CASE pc[p] \in {"detailed", "fallback"}
          <5>1. k = h[p].task
            BY <2>2, <4>3
          <5>2. Cmd(p, k) = "describe"
            BY <4>3, <5>1, BusyFacts, LabelOf
          <5>3. Programs[t.prog][t.at] = "describe"
            BY <3>1, <5>2 DEF Cmd
          <5> QED BY <3>1, <3>2, <5>3, ProgramFacts
        <4> QED BY <2>2, <2>7, <4>2, <4>3 DEF Learned
      <3>5. ASSUME t.prog \in Describers PROVE t.obj # NoObject
        <4>1. Cmd(p, k) = Programs[t.prog][t.at]
          BY <3>1 DEF Cmd
        <4>2. Cmd(p, k) # "alert"
          BY <3>1, <3>2, <3>5, <4>1, ProgramFacts DEF Describers
        <4>3. CASE t.at >= 2
          <5>1. tasks[p][k].obj # NoObject
            BY <1>0, <2>2, <3>1, <3>5, <4>3 DEF Going, Progresses
          <5> QED BY <2>2, <2>7, <4>2, <5>1
        <4>4. CASE t.at = 1
          <5>1. Cmd(p, k) \in {"query", "queryAll", "handle"}
            BY <3>1, <3>5, <4>1, <4>4, ProgramFacts
          <5> QED BY <2>2, <2>7, <4>2, <5>1
        <4> QED BY <3>2, <4>3, <4>4
      <3>6. Progresses(tasks'[p][k])
        <4>1. tasks'[p][k].at - 1 = t.at /\ t.at + 1 >= 2
          BY <3>1, <3>2, <3>3
        <4>2. \A n \in 1 .. tasks'[p][k].at - 1 :
                 Programs[tasks'[p][k].prog][n] = "describe" => tasks'[p][k].of # NoObject
          BY <3>3, <3>9, <4>1
        <4> QED BY <3>1, <3>3, <3>4, <3>5, <3>7, <3>8, <4>1, <4>2 DEF Progresses
      <3>10. \A q \in Pages, l \in Tasks : tasks'[q][l].prog # "none" => Progresses(tasks'[q][l])
        BY <1>0, <2>5, <3>6 DEF Going
      <3> QED BY <2>4, <3>10 DEF Going, Progresses
    <2> QED BY <2>3, <2>4, <2>6, <2>7
  <1>3. ASSUME NEW p \in Pages, GoesOn(p) PROVE Running' /\ Labelled' /\ Going'
    <2>1. /\ tasks' = tasks /\ \A q \in Pages : q # p => pc'[q] = pc[q] /\ h'[q] = h[q]
          /\ tasks[p][h'[p].task].prog # "none" /\ pc'[p] \in PCsOf(h'[p].cmd)
          /\ h'[p].cmd = Programs[tasks[p][h'[p].task].prog][tasks[p][h'[p].task].at]
      BY <1>3 DEF GoesOn, Cmd
    <2>2. Running'
      BY <1>0, <2>1 DEF Running
    <2>3. Labelled'
      BY <1>0, <2>1 DEF Labelled
    <2>4. Going'
      BY <1>0, <2>1 DEF Going
    <2> QED BY <2>2, <2>3, <2>4
  <1>4. ASSUME NEW p \in Pages, NEW k \in Tasks, StartProgram(p, k)
        PROVE  Running' /\ Labelled' /\ Going'
    <2>1. \E u \in Task : /\ tasks' = [tasks EXCEPT ![p][k] = u] /\ u.at = 1
                          /\ u.prog \in DOMAIN Programs /\ u.of = NoObject
                          /\ u.prog \in OfAnyObject => u.obj \in MadeObjects
      BY <1>4, StartedTask
    <2>2. PICK u \in Task : /\ tasks' = [tasks EXCEPT ![p][k] = u] /\ u.at = 1
                            /\ u.prog \in DOMAIN Programs /\ u.of = NoObject
                            /\ u.prog \in OfAnyObject => u.obj \in MadeObjects
      BY <2>1
    <2>3. UNCHANGED <<pc, h>> /\ tasks[p][k].prog = "none"
      BY <1>4 DEF StartProgram
    <2>4. /\ tasks'[p][k] = u
          /\ \A q \in Pages, l \in Tasks : (q # p \/ l # k) => tasks'[q][l] = tasks[q][l]
      BY <2>2 DEF Typed, Control
    <2>5. Labelled'
      BY <1>0, <2>3 DEF Labelled
    <2>6. Running'
      <3>1. \A q \in Pages : pc[q] # "idle" => h[q].task \in Tasks
        BY DEF Typed, Control
      <3> QED BY <1>0, <2>3, <2>4, <3>1 DEF Running
    <2>7. Going'
      <3>1. u.prog # "none" => u.at \in 1 .. Len(Programs[u.prog])
        BY <2>2, ProgramFacts
      <3>3. MadeObjects \subseteq Objects /\ NoObject \notin Objects
        BY ObjectFacts DEF MadeObjects
      <3>2. u.prog # "none" => Progresses(u)
        BY <2>2, <3>1, <3>3 DEF Progresses
      <3> QED BY <1>0, <2>4, <3>2 DEF Going
    <2> QED BY <2>5, <2>6, <2>7
  <1>5. CASE ReaderStep \/ UNCHANGED vars
    BY <1>1, <1>5 DEF ReaderStep, vars
  <1>6. ASSUME NEW p \in Pages, BrowserStep(p) PROVE UNCHANGED <<pc, h, tasks>>
    BY <1>6 DEF BrowserStep
  <1> QED BY <1>1, <1>2, <1>3, <1>4, <1>5, <1>6, HandlerMoves DEF Next
------------------------------------------------------------------------------
(* The rest of the types.                                                   *)

\* A handler's step is its own page's.
LEMMA OtherPages ==
    ASSUME Typed, NEW p \in Pages, HandlerStep(p), NEW q \in Pages, q # p
    PROVE  /\ pc'[q] = pc[q] /\ h'[q] = h[q] /\ call'[q] = call[q] /\ tasks'[q] = tasks[q]
           /\ left'[q] = left[q]
           /\ lastQuery'[q] = lastQuery[q] /\ lastQuerySkips'[q] = lastQuerySkips[q]
           /\ lastDialog'[q] = lastDialog[q] /\ asked'[q] = asked[q]
  <1>1. ASSUME Answers(p)
        PROVE  /\ pc'[q] = pc[q] /\ h'[q] = h[q] /\ call'[q] = call[q] /\ tasks'[q] = tasks[q]
               /\ left'[q] = left[q]
    <2>1. PICK k \in Tasks, t \in Task : \E g : Answer(p, k, g, t)
      BY <1>1 DEF Answers
    <2>2. PICK g : Answer(p, k, g, t)
      BY <2>1
    <2>3. left \in [Pages -> SUBSET Runs]
      BY DEF Typed, World
    <2>4. left' = left \/ left' = [left EXCEPT ![p] = @ \cup {t.run}]
      BY <2>2 DEF Answer
    <2>5. left'[q] = left[q]
      BY <2>3, <2>4
    <2> QED BY <2>2, <2>5, AnswerEffect
  <1>2. ASSUME GoesOn(p)
        PROVE  /\ pc'[q] = pc[q] /\ h'[q] = h[q] /\ call'[q] = call[q] /\ tasks'[q] = tasks[q]
               /\ left'[q] = left[q]
    BY <1>2 DEF GoesOn
  <1>3. /\ lastQuery'[q] = lastQuery[q] /\ lastQuerySkips'[q] = lastQuerySkips[q]
        /\ lastDialog'[q] = lastDialog[q] /\ asked'[q] = asked[q]
    <2>1. CASE UNCHANGED Kepts
      BY <2>1 DEF Kepts
    <2>2. CASE \E k \in Tasks : StoreSelector(p, k) \/ DescribeNode(p, k) \/ HandleDialog(p, k)
                                \/ CloseStream(p, k)
      BY <2>2 DEF StoreSelector, DescribeNode, HandleDialog, CloseStream, queries, Typed, Stores
    <2>3. CASE StoreSkips(p) \/ ClearPending(p) \/ Skip(p) \/ Combine(p)
      BY <2>3 DEF StoreSkips, ClearPending, Skip, Combine, Typed, Stores
    <2>4. CASE QueryReturns(p) \/ NoteObject(p) \/ QuerySelector(p) \/ StoreNode(p) \/ StoreStream(p)
      BY <2>4 DEF QueryReturns, NoteObject, QuerySelector, StoreNode, StoreStream, queries
    <2> QED BY <2>1, <2>2, <2>3, <2>4, QuietHandler DEF Storing
  <1> QED BY <1>1, <1>2, <1>3, HandlerMoves

\* No command of a page that ended begins.
LEMMA NoneBegins ==
    ASSUME Typed, NEW p \in Pages, HandlerStep(p), pc[p] = "idle", p \in cleaned
    PROVE  UNCHANGED Kepts /\ \E k \in Tasks : Refuse(p, k)
  <1>1. \A k \in Tasks : \A S : ~Takes(p, k, S)
    BY DEF Takes, Authorized
  <1>2. PICK k \in Tasks : Refuse(p, k)
    <2>1. ASSUME NEW k \in Tasks
          PROVE  /\ ~StoreSelector(p, k) /\ ~CallFunction(p, k) /\ ~Evaluate(p, k)
                 /\ ~ReleaseObject(p, k) /\ ~GetDocument(p, k) /\ ~DescribeNode(p, k)
                 /\ ~ResolveNode(p, k) /\ ~HandleDialog(p, k) /\ ~PrintToPDF(p, k)
                 /\ ~ReadStream(p, k) /\ ~CloseStream(p, k)
      BY <1>1 DEF StoreSelector, CallFunction, Evaluate, ReleaseObject, GetDocument, DescribeNode,
                  ResolveNode, HandleDialog, PrintToPDF, ReadStream, CloseStream
    <2>2. ASSUME NEW k \in Tasks
          PROVE  /\ ~GetProperties(p, k) /\ ~GetBoxModel(p, k) /\ ~GetOuterHTML(p, k)
                 /\ ~GetContentQuads(p, k) /\ ~Focus(p, k) /\ ~SetFileInputFiles(p, k)
      BY <1>1 DEF GetProperties, GetBoxModel, GetOuterHTML, GetContentQuads, Focus,
                  SetFileInputFiles, UseObject
    <2>3. /\ ~StoreSkips(p) /\ ~QueryReturns(p) /\ ~NoteObject(p) /\ ~ClearPending(p) /\ ~Count(p)
          /\ ~Skip(p) /\ ~Combine(p) /\ ~CombineReturns(p) /\ ~FunctionReturns(p)
          /\ ~EvaluateReturns(p) /\ ~UseReturns(p) /\ ~QuerySelector(p) /\ ~QuerySelectorAll(p)
          /\ ~StoreNode(p) /\ ~DescribeReturns(p) /\ ~ResolveReturns(p) /\ ~StoreStream(p)
      BY DEF StoreSkips, QueryReturns, NoteObject, ClearPending, Count, Skip, Combine,
             CombineReturns, FunctionReturns, EvaluateReturns, UseReturns, QuerySelector,
             QuerySelectorAll, StoreNode, DescribeReturns, ResolveReturns, StoreStream, Ended
    <2> QED BY <2>1, <2>2, <2>3 DEF HandlerStep
  <1> QED BY <1>2 DEF Refuse, Kepts, nodes, queries

\* Where a handler goes that goes on, and with which call.
LEMMA Enters ==
    ASSUME Typed, NEW p \in Pages, HandlerStep(p)
    PROVE  /\ pc'[p] = "skip" => Count(p) /\ lastQuerySkips[p] > 0
           /\ pc'[p] = "note" => pc[p] = "queried" /\ call'[p] = call[p] /\ call[p].obj # NoObject
                                 /\ call[p].result = "ok"
                                 /\ h'[p].id = NextCtxID /\ ctxCounter' = NextCtxID
           /\ pc'[p] = "store" => \E k \in Tasks : DescribeNode(p, k)
           /\ call'[p].kind = "dispose" =>
                 call'[p] = call[p] \/ \E k \in Tasks : ReleaseObject(p, k) /\ Begins(p, k)
                                          /\ Sends(p, "used", "dispose", tasks[p][k].obj)
  <1>0. /\ pc \in [Pages -> PCs] /\ call \in [Pages -> CallRec] /\ h \in [Pages -> Command]
        /\ NoCall \in CallRec /\ NoCall.kind = "none"
    BY TypeFacts DEF Typed, Control
  <1> DEFINE Goal ==
           /\ pc'[p] = "skip" => Count(p) /\ lastQuerySkips[p] > 0
           /\ pc'[p] = "note" => pc[p] = "queried" /\ call'[p] = call[p] /\ call[p].obj # NoObject
                                 /\ call[p].result = "ok"
                                 /\ h'[p].id = NextCtxID /\ ctxCounter' = NextCtxID
           /\ pc'[p] = "store" => \E k \in Tasks : DescribeNode(p, k)
           /\ call'[p].kind = "dispose" =>
                 call'[p] = call[p] \/ \E k \in Tasks : ReleaseObject(p, k) /\ Begins(p, k)
                                          /\ Sends(p, "used", "dispose", tasks[p][k].obj)
  <1>1. ASSUME NEW k, NEW g, NEW t, Answer(p, k, g, t) PROVE Goal
    BY <1>0, <1>1 DEF Answer, Goto
  <1>2. ASSUME NEW l, NEW kind, NEW o, Sends(p, l, kind, o), l \notin {"skip", "note", "store"},
               kind # "dispose"
        PROVE  Goal
    BY <1>0, <1>2 DEF Sends, Goto, CallRec
  <1>3. ASSUME NEW l, Goto(p, l), UNCHANGED call, l \notin {"skip", "note", "store"} PROVE Goal
    BY <1>0, <1>3 DEF Goto
  <1>4. ASSUME NEW k \in Tasks, Refuse(p, k) \/ ReadStream(p, k) \/ CloseStream(p, k) PROVE Goal
    BY <1>1, <1>4 DEF Refuse, ReadStream, CloseStream
  <1>5. ASSUME NEW k \in Tasks, StoreSelector(p, k) PROVE Goal
    BY <1>3, <1>5 DEF StoreSelector
  <1>6. ASSUME NEW k \in Tasks, CallFunction(p, k) PROVE Goal
    <2>1. \/ \E g : Answer(p, k, g, tasks[p][k])
          \/ Sends(p, "called", "function", tasks[p][k].obj)
          \/ \E l \in {"clear", "count"} : Goto(p, l) /\ UNCHANGED call
      BY <1>6 DEF CallFunction
    <2> QED BY <1>1, <1>2, <1>3, <2>1
  <1>7. ASSUME NEW k \in Tasks, Evaluate(p, k) \/ GetDocument(p, k) \/ PrintToPDF(p, k) PROVE Goal
    BY <1>2, <1>7 DEF Evaluate, GetDocument, PrintToPDF, Takes
  <1>8. ASSUME NEW k \in Tasks, ReleaseObject(p, k) PROVE Goal
    <2>1. CASE Begins(p, k) /\ Sends(p, "used", "dispose", tasks[p][k].obj)
      BY <1>0, <1>8, <2>1 DEF Sends, Goto
    <2> QED BY <1>1, <1>8, <2>1 DEF ReleaseObject
  <1>9. ASSUME NEW k \in Tasks, NEW cmd \in {"properties", "boxModel", "html", "quads", "focus", "setFiles"},
               UseObject(p, k, cmd)
        PROVE  Goal
    <2>1. (\E g : Answer(p, k, g, tasks[p][k])) \/ Sends(p, "used", cmd, tasks[p][k].obj)
      BY <1>9 DEF UseObject
    <2>2. cmd # "dispose"
      OBVIOUS
    <2> QED BY <1>1, <1>2, <2>1, <2>2
  <1>10. ASSUME NEW k \in Tasks, DescribeNode(p, k) PROVE Goal
    BY <1>0, <1>10 DEF DescribeNode, Goto
  <1>11. ASSUME NEW k \in Tasks, ResolveNode(p, k) PROVE Goal
    <2>1. \/ \E g, t : Answer(p, k, g, t)
          \/ Sends(p, "resolved", "handle", NoObject)
      BY <1>11 DEF ResolveNode
    <2> QED BY <1>1, <1>2, <2>1
  <1>12. ASSUME NEW k \in Tasks, HandleDialog(p, k) PROVE Goal
    BY <1>0, <1>12 DEF HandleDialog, Goto, CallRec
  <1>13. ASSUME StoreSkips(p)
        PROVE  Goal
    <2>1. h[p].cmd # "dispose"
      BY <1>13, LabelOf DEF Typed, Labelled, StoreSkips, QueryPCs
    <2> QED BY <1>2, <1>13, <2>1 DEF StoreSkips
  <1>14. ASSUME QueryReturns(p)
        PROVE  Goal
    <2>1. ASSUME Answer(p, h[p].task, FALSE, Mine(p)) PROVE Goal
      BY <1>1, <2>1
    <2>2. CASE ctxCounter' = NextCtxID /\ h' = [h EXCEPT ![p].id = NextCtxID] /\ Goto(p, "note")
               /\ UNCHANGED call /\ call[p].obj # NoObject /\ Ok(p)
      <3>1. h'[p].id = NextCtxID
        BY <1>0, <2>2 DEF Command
      <3> QED BY <1>0, <1>14, <2>2, <3>1 DEF Goto, QueryReturns, Ended, Ok
    <2> QED BY <1>14, <2>1, <2>2 DEF QueryReturns
  <1>15. ASSUME Count(p)
        PROVE  Goal
    BY <1>0, <1>15 DEF Count, Goto
  <1>16. ASSUME \/ FunctionReturns(p) \/ EvaluateReturns(p) \/ UseReturns(p) \/ QuerySelector(p)
                \/ QuerySelectorAll(p) \/ ResolveReturns(p) \/ StoreStream(p) \/ NoteObject(p) \/ Skip(p)
        PROVE  Goal
    <2>1. \E k, g, t : Answer(p, k, g, t)
      BY <1>16 DEF FunctionReturns, EvaluateReturns, UseReturns, QuerySelector, QuerySelectorAll,
                   ResolveReturns, StoreStream, NoteObject, Skip
    <2> QED BY <1>1, <2>1
  <1>17. ASSUME ClearPending(p) \/ Combine(p) \/ StoreNode(p)
        PROVE  Goal
    <2>1. \E l \in {"called", "combined", "described"}, kind \in {"function", "combined", "describe"} :
             \E o : Sends(p, l, kind, o)
      BY <1>17 DEF ClearPending, Combine, StoreNode
    <2> QED BY <1>2, <2>1
  <1>18. ASSUME CombineReturns(p) \/ DescribeReturns(p)
        PROVE  Goal
    <2>1. \/ \E k, g, t : Answer(p, k, g, t)
          \/ \E l \in {"combined", "detailed", "fallback"}, kind \in {"combined", "function"} :
                \E o : Sends(p, l, kind, o)
      BY <1>18 DEF CombineReturns, DescribeReturns
    <2> QED BY <1>1, <1>2, <2>1
  <1>19. ASSUME NEW k \in Tasks,
               \/ GetProperties(p, k) \/ GetBoxModel(p, k) \/ GetOuterHTML(p, k)
               \/ GetContentQuads(p, k) \/ Focus(p, k) \/ SetFileInputFiles(p, k)
        PROVE  Goal
    BY <1>9, <1>19 DEF GetProperties, GetBoxModel, GetOuterHTML, GetContentQuads, Focus,
                       SetFileInputFiles
  <1> HIDE DEF Goal
  <1>20. ASSUME NEW k \in Tasks,
               \/ Refuse(p, k) \/ StoreSelector(p, k) \/ CallFunction(p, k) \/ Evaluate(p, k)
               \/ ReleaseObject(p, k) \/ GetDocument(p, k) \/ DescribeNode(p, k)
               \/ ResolveNode(p, k) \/ HandleDialog(p, k) \/ PrintToPDF(p, k)
               \/ ReadStream(p, k) \/ CloseStream(p, k)
        PROVE  Goal
    BY <1>4, <1>5, <1>6, <1>7, <1>8, <1>10, <1>11, <1>12, <1>20
  <1>21. ASSUME \E k \in Tasks :
                  \/ Refuse(p, k) \/ StoreSelector(p, k) \/ CallFunction(p, k) \/ Evaluate(p, k)
                  \/ ReleaseObject(p, k) \/ GetProperties(p, k) \/ GetBoxModel(p, k)
                  \/ GetOuterHTML(p, k) \/ GetContentQuads(p, k) \/ Focus(p, k)
                  \/ SetFileInputFiles(p, k) \/ GetDocument(p, k) \/ DescribeNode(p, k)
                  \/ ResolveNode(p, k) \/ HandleDialog(p, k) \/ PrintToPDF(p, k)
                  \/ ReadStream(p, k) \/ CloseStream(p, k)
        PROVE  Goal
    BY <1>19, <1>20, <1>21
  <1>22. ASSUME \/ StoreSkips(p) \/ QueryReturns(p) \/ NoteObject(p) \/ ClearPending(p) \/ Count(p)
                \/ Skip(p) \/ Combine(p) \/ CombineReturns(p) \/ FunctionReturns(p)
                \/ EvaluateReturns(p) \/ UseReturns(p) \/ QuerySelector(p) \/ QuerySelectorAll(p)
                \/ StoreNode(p) \/ DescribeReturns(p) \/ ResolveReturns(p) \/ StoreStream(p)
        PROVE  Goal
    BY <1>13, <1>14, <1>15, <1>16, <1>17, <1>18, <1>22
  <1>23. Goal
    BY <1>21, <1>22 DEF HandlerStep
  <1> QED BY <1>23 DEF Goal
LEMMA WordsNext == Typed /\ [Next]_vars => WordsTyped'
  <1> SUFFICES ASSUME Typed, [Next]_vars PROVE WordsTyped'
    OBVIOUS
  <1>0. WordsTyped /\ 0 \in Runs /\ 0 \in Dialogs /\ 0 \in -1 .. 3
    BY ObjectFacts DEF Typed, Stores, WordsTyped
  <1>1. CASE UNCHANGED <<lastQuery, lastQuerySkips, lastDialog, asked>>
    BY <1>0, <1>1 DEF WordsTyped
  <1>2. CASE ClearState /\ UNCHANGED asked
    BY <1>0, <1>2 DEF ClearState, WordsTyped
  <1>3. CASE TakeDialogOpened /\ UNCHANGED <<lastQuery, lastQuerySkips, asked>>
    <2>1. news # <<>> /\ news \in Seq(NewsItem)
      BY <1>3 DEF TakeDialogOpened, Takes1, Typed, World
    <2>2. Head(news) \in NewsItem
      BY <2>1
    <2>3. Head(news).page \in Pages /\ Head(news).dialog \in Dialogs
      BY <2>2 DEF NewsItem
    <2>4. lastDialog' \in [Pages -> Dialogs]
      BY <1>0, <1>3, <2>3 DEF TakeDialogOpened, LastDialog, WordsTyped
    <2> QED BY <1>0, <1>3, <2>4 DEF WordsTyped
  <1>4. ASSUME NEW p \in Pages, HandlerStep(p), Storing(p) PROVE WordsTyped'
    <2>1. CASE \E k \in Tasks : StoreSelector(p, k)
      <3>1. PICK k \in Tasks : StoreSelector(p, k)
        BY <2>1
      <3>2. tasks[p][k].run \in Runs
        BY MineTyped, TaskFields DEF Typed
      <3> QED BY <1>0, <3>1, <3>2 DEF StoreSelector, WordsTyped
    <2>2. CASE \E k \in Tasks : HandleDialog(p, k)
      BY <1>0, <2>2 DEF HandleDialog, WordsTyped, queries
    <2>3. CASE StoreSkips(p)
      <3>1. Skips(h[p].cmd) \in -1 .. 3
        BY DEF Skips
      <3> QED BY <1>0, <2>3, <3>1 DEF StoreSkips, WordsTyped
    <2>4. CASE Skip(p)
      <3>1. lastQuerySkips[p] \in -1 .. 3 /\ lastQuerySkips[p] # -1
        BY <1>0, <2>4 DEF Skip, Typed, Skipping, WordsTyped
      <3>2. lastQuerySkips[p] - 1 \in -1 .. 3
        BY <3>1
      <3> QED BY <1>0, <2>4, <3>2 DEF Skip, WordsTyped
    <2>5. CASE ClearPending(p) \/ Combine(p)
      BY <1>0, <2>5 DEF ClearPending, Combine, WordsTyped
    <2>6. CASE \E k \in Tasks : DescribeNode(p, k) \/ CloseStream(p, k)
      BY <1>1, <2>6 DEF DescribeNode, CloseStream, queries
    <2>7. CASE QueryReturns(p) \/ NoteObject(p) \/ QuerySelector(p) \/ StoreNode(p) \/ StoreStream(p)
      BY <1>1, <2>7 DEF QueryReturns, NoteObject, QuerySelector, StoreNode, StoreStream, queries
    <2> QED BY <1>4, <2>1, <2>2, <2>3, <2>4, <2>5, <2>6, <2>7 DEF Storing
  <1> QED BY <1>1, <1>2, <1>3, <1>4, QuietOthers DEF Kepts

LEMMA StoresNext == Typed /\ [Next]_vars => Stores'
  BY NodesNext, StreamsNext, WordsNext DEF NodesTyped, StreamsTyped, WordsTyped, Stores

\* The pages' life, and what the clients have begun.
Life ==
    /\ scenario \in Scenarios
    /\ sessions \subseteq Pages /\ cleaned \subseteq Pages /\ live \subseteq Pages
    /\ late \subseteq Pages
    /\ ending \in [page : Pages \cup {NoPage}, at : {"none", "clear", "remove"}]
    /\ ending.at # "none" => ending.page \in cleaned
    /\ Pages \ sessions \subseteq cleaned
    /\ runs \in [Pages -> Runs]
    /\ left \in [Pages -> SUBSET Runs]
Browser ==
    /\ made \in [Pages -> 0 .. MaxObjects] /\ disposed \subseteq Objects
    /\ dialog \in [Pages -> Dialogs] /\ opened \in [Pages -> Dialogs]
    /\ \A p \in Pages : dialog[p] \in {0, opened[p]}
    /\ news \in Seq(NewsItem)

LEMMA LifeNext == Typed /\ [Next]_vars => Life'
  <1> SUFFICES ASSUME Typed, [Next]_vars PROVE Life'
    OBVIOUS
  <1>0. Life
    BY DEF Typed, World, Life
  <1>1. CASE ReaderStep
    <2>1. CASE TakeDetached
      <3>1. news # <<>> /\ news \in Seq(NewsItem)
        BY <2>1 DEF TakeDetached, Takes1, Typed, World
      <3>2. Head(news) \in NewsItem
        BY <3>1
      <3>3. Head(news).page \in Pages
        BY <3>2 DEF NewsItem
      <3>4. ending' \in [page : Pages \cup {NoPage}, at : {"none", "clear", "remove"}]
        BY <2>1, <3>3 DEF TakeDetached
      <3> QED BY <1>0, <1>1, <2>1, <3>3, <3>4 DEF TakeDetached, ReaderStep, Life
    <2>2. CASE TakeDialogOpened \/ TakeDialogClosed
      BY <1>0, <1>1, <2>2 DEF TakeDialogOpened, TakeDialogClosed, ReaderStep, Life
    <2>3. CASE ClearState
      <3>1. ending' \in [page : Pages \cup {NoPage}, at : {"none", "clear", "remove"}]
            /\ ending'.page = ending.page /\ ending.page \in cleaned
        BY <1>0, <2>3 DEF ClearState, Life
      <3>2. late' \subseteq Pages
        BY <1>0, <2>3, <3>1 DEF ClearState, Life
      <3> QED BY <1>0, <1>1, <2>3, <3>1, <3>2 DEF ClearState, ReaderStep, Life
    <2>4. CASE RemoveSession
      <3>1. ending' \in [page : Pages \cup {NoPage}, at : {"none", "clear", "remove"}]
            /\ ending'.at = "none" /\ ending.page \in cleaned
        BY <1>0, <2>4 DEF RemoveSession, Life
      <3> QED BY <1>0, <1>1, <2>4, <3>1 DEF RemoveSession, ReaderStep, Life
    <2> QED BY <1>1, <2>1, <2>2, <2>3, <2>4 DEF ReaderStep
  <1>2. ASSUME NEW p \in Pages, HandlerStep(p) PROVE Life'
    <2>1. UNCHANGED <<scenario, sessions, cleaned, ending, live, runs, late>>
      BY <1>2 DEF HandlerStep, browser
    <2>2. CASE left' = left
      BY <1>0, <2>1, <2>2 DEF Life
    <2>3. CASE Answers(p)
      <3>1. PICK k \in Tasks, t \in Task : \E g : Answer(p, k, g, t)
        BY <2>3 DEF Answers
      <3>2. left' = left \/ left' = [left EXCEPT ![p] = @ \cup {t.run}]
        BY <3>1 DEF Answer
      <3>3. t.run \in Runs
        BY TaskFields
      <3> QED BY <1>0, <2>1, <3>2, <3>3 DEF Life
    <2> QED BY <1>2, <2>2, <2>3, HandlerMoves DEF GoesOn
  <1>3. ASSUME NEW p \in Pages, BrowserStep(p) PROVE Life'
    <2>1. UNCHANGED <<scenario, sessions, cleaned, ending, runs, late, left>>
      BY <1>3 DEF BrowserStep
    <2>2. live' \subseteq live
      BY <1>3 DEF BrowserStep, Serve, PageOpensDialog, UserAnswers, PageEnds, browser
    <2> QED BY <1>0, <2>1, <2>2 DEF Life
  <1>4. ASSUME NEW p \in Pages, NEW k \in Tasks, StartProgram(p, k) PROVE Life'
    <2>1. PICK u \in Task : runs' = [runs EXCEPT ![p] = @ + 1] /\ u.run = runs[p] + 1 /\ u.run \in Runs
      BY <1>4, StartedTask
    <2>2. UNCHANGED <<scenario, sessions, cleaned, ending, live, late, left>>
      BY <1>4 DEF StartProgram, browser
    <2> QED BY <1>0, <2>1, <2>2 DEF Life
  <1>5. CASE UNCHANGED vars
    BY <1>0, <1>5 DEF vars, browser, Life
  <1> QED BY <1>1, <1>2, <1>3, <1>4, <1>5 DEF Next
\* A page opens a dialog, or one is closed.
LEMMA DialogTyped ==
    ASSUME Typed, NEW p \in Pages
    PROVE  /\ Opens(p) => /\ dialog' \in [Pages -> Dialogs] /\ opened' \in [Pages -> Dialogs]
                          /\ \A q \in Pages : dialog'[q] \in {0, opened'[q]}
                          /\ news' \in Seq(NewsItem)
           /\ dialog' = [dialog EXCEPT ![p] = 0] /\ opened' = opened =>
                 dialog' \in [Pages -> Dialogs] /\ \A q \in Pages : dialog'[q] \in {0, opened'[q]}
           /\ \A kind \in {"opened", "closed", "detached"} : Event(kind, p) \in NewsItem
  <1>0. /\ dialog \in [Pages -> Dialogs] /\ opened \in [Pages -> Dialogs]
        /\ \A q \in Pages : dialog[q] \in {0, opened[q]} /\ opened[q] \in Dialogs
        /\ news \in Seq(NewsItem) /\ 0 \in Dialogs
    BY ObjectFacts DEF Typed, World
  <1>1. \A kind \in {"opened", "closed", "detached"} : Event(kind, p) \in NewsItem
    BY <1>0 DEF Event, NewsItem
  <1>2. ASSUME Opens(p)
        PROVE  /\ dialog' \in [Pages -> Dialogs] /\ opened' \in [Pages -> Dialogs]
               /\ \A q \in Pages : dialog'[q] \in {0, opened'[q]}
               /\ news' \in Seq(NewsItem)
    <2>1. opened[p] + 1 \in Dialogs
      BY <1>0, <1>2, HandlesAssumption DEF Opens, Dialogs
    <2>2. OpenedNext(p) \in NewsItem
      BY <1>0, <2>1 DEF OpenedNext, Event, NewsItem
    <2>3. news' \in Seq(NewsItem)
      BY <1>0, <1>2, <2>2 DEF Opens
    <2> QED BY <1>0, <1>2, <2>1, <2>3 DEF Opens
  <1>3. ASSUME dialog' = [dialog EXCEPT ![p] = 0], opened' = opened
        PROVE  dialog' \in [Pages -> Dialogs] /\ \A q \in Pages : dialog'[q] \in {0, opened'[q]}
    BY <1>0, <1>3
  <1> QED BY <1>1, <1>2, <1>3

LEMMA BrowserNext == Typed /\ [Next]_vars => Browser'
  <1> SUFFICES ASSUME Typed, [Next]_vars PROVE Browser'
    OBVIOUS
  <1>0. Browser
    BY DEF Typed, World, Browser
  <1>1. CASE UNCHANGED <<made, disposed, dialog, opened, news>>
    BY <1>0, <1>1 DEF Browser
  <1>2. CASE UNCHANGED <<made, disposed, dialog, opened>> /\ news # <<>> /\ news' = Tail(news)
    BY <1>0, <1>2 DEF Browser
  <1>3. CASE ReaderStep
    BY <1>1, <1>2, <1>3 DEF ReaderStep, TakeDialogOpened, TakeDialogClosed, TakeDetached, Takes1,
                            ClearState, RemoveSession
  <1>4. ASSUME NEW p \in Pages, HandlerStep(p) \/ \E k \in Tasks : StartProgram(p, k) PROVE Browser'
    BY <1>1, <1>4 DEF HandlerStep, StartProgram, browser
  <1>5. CASE UNCHANGED vars
    BY <1>1, <1>5 DEF vars, browser
  <1>6. ASSUME NEW p \in Pages, BrowserStep(p) PROVE Browser'
    <2>0. \A kind \in {"closed", "detached"} : Append(news, Event(kind, p)) \in Seq(NewsItem)
      <3>1. \A kind \in {"closed", "detached"} : Event(kind, p) \in NewsItem
        BY DialogTyped
      <3>2. news \in Seq(NewsItem)
        BY <1>0 DEF Browser
      <3> QED BY <3>1, <3>2, AppendProperties
    <2>1. CASE TimesOut(p) /\ UNCHANGED browser
      BY <1>1, <2>1 DEF browser
    <2>2. CASE Serve(p)
      <3>1. CASE ServeObject(p)
        <4>0. made[p] \in 0 .. MaxObjects /\ made \in [Pages -> 0 .. MaxObjects]
          BY <1>0 DEF Browser
        <4>3. made[p] < MaxObjects => made[p] + 1 \in 0 .. MaxObjects
          BY <4>0, HandlesAssumption
        <4>1. made' \in [Pages -> 0 .. MaxObjects]
          BY <3>1, <4>0, <4>3 DEF ServeObject
        <4>2. UNCHANGED <<disposed, dialog, opened, news>>
          BY <3>1 DEF ServeObject
        <4> QED BY <1>0, <4>1, <4>2 DEF Browser
      <3>2. CASE ServeAlert(p)
        BY <1>0, <3>2, DialogTyped DEF ServeAlert, Browser
      <3>3. CASE ServeDialog(p)
        <4>1. news' = Append(news, Event("closed", p)) \/ news' = news
          BY <3>3 DEF ServeDialog
        <4>2. news' \in Seq(NewsItem)
          BY <1>0, <2>0, <4>1 DEF Browser
        <4>3. UNCHANGED <<made, disposed, opened>>
              /\ (dialog' = [dialog EXCEPT ![p] = 0] \/ dialog' = dialog)
          BY <3>3 DEF ServeDialog
        <4> QED BY <1>0, <4>2, <4>3, DialogTyped DEF Browser
      <3>4. CASE ServeOther(p)
        <4>1. call[p].kind = "dispose" => call[p].obj \in Objects
          BY <2>2, MineTyped DEF Serve, Typed, InHand, AnyObject
        <4> QED BY <1>0, <3>4, <4>1 DEF ServeOther, Browser
      <3> QED BY <1>1, <2>2, <3>1, <3>2, <3>3, <3>4 DEF Serve
    <2>3. CASE PageOpensDialog(p)
      BY <1>0, <2>3, DialogTyped DEF PageOpensDialog, Browser
    <2>4. CASE UserAnswers(p) \/ PageEnds(p)
      <3>1. dialog' = [dialog EXCEPT ![p] = 0] /\ opened' = opened
            /\ UNCHANGED <<made, disposed>>
        BY <2>4 DEF UserAnswers, PageEnds
      <3>2. news' \in {Append(news, Event("closed", p)), Append(news, Event("detached", p))}
        BY <2>4 DEF UserAnswers, PageEnds
      <3>3. news' \in Seq(NewsItem)
        BY <1>0, <2>0, <3>2 DEF Browser
      <3>4. dialog' \in [Pages -> Dialogs] /\ \A q \in Pages : dialog'[q] \in {0, opened'[q]}
        BY <3>1, DialogTyped
      <3> QED BY <1>0, <3>1, <3>3, <3>4 DEF Browser
    <2> QED BY <1>6, <2>1, <2>2, <2>3, <2>4 DEF BrowserStep
  <1> QED BY <1>3, <1>4, <1>5, <1>6 DEF Next

LEMMA SkippingNext == Typed /\ [Next]_vars => Skipping'
  <1> SUFFICES ASSUME Typed, [Next]_vars PROVE Skipping'
    OBVIOUS
  <1>0. /\ Skipping /\ lastQuerySkips \in [Pages -> -1 .. 3]
        /\ ending.at # "none" => ending.page \in cleaned
    BY DEF Typed, Stores, World
  <1>1. CASE UNCHANGED <<pc, lastQuerySkips>> /\ cleaned \subseteq cleaned'
    BY <1>0, <1>1 DEF Skipping
  <1>2. CASE ReaderStep
    <2>1. CASE ClearState
      BY <1>0, <1>2, <2>1 DEF ClearState, ReaderStep, Skipping, Typed, World
    <2> QED BY <1>1, <1>2, <2>1 DEF ReaderStep, TakeDialogOpened, TakeDialogClosed, TakeDetached,
                                    RemoveSession, queries
  <1>3. ASSUME NEW p \in Pages, BrowserStep(p) \/ \E k \in Tasks : StartProgram(p, k) PROVE Skipping'
    BY <1>1, <1>3 DEF BrowserStep, StartProgram, queries
  <1>4. CASE UNCHANGED vars
    BY <1>1, <1>4 DEF vars, queries
  <1>5. ASSUME NEW p \in Pages, HandlerStep(p) PROVE Skipping'
    <2>1. cleaned' = cleaned
      BY <1>5 DEF HandlerStep
    <2>2. \A q \in Pages : q # p => pc'[q] = pc[q] /\ lastQuerySkips'[q] = lastQuerySkips[q]
      BY <1>5, OtherPages
    <2>3. /\ lastQuerySkips'[p] = -1 => p \in cleaned /\ pc'[p] = "idle"
          /\ pc'[p] = "skip" /\ lastQuerySkips'[p] = 0 => p \in cleaned
      <3>1. CASE StoreSkips(p) \/ ClearPending(p)
        <4>1. lastQuerySkips'[p] \in {0, 3}
          BY <1>0, <3>1 DEF StoreSkips, ClearPending, Skips
        <4>2. pc'[p] # "skip"
          BY <3>1 DEF StoreSkips, ClearPending, Sends, Goto, Typed, Control
        <4> QED BY <4>1, <4>2
      <3>2. CASE Skip(p)
        <4>1. lastQuerySkips'[p] = lastQuerySkips[p] - 1 /\ lastQuerySkips[p] \in -1 .. 3
          BY <1>0, <3>2 DEF Skip
        <4>2. pc'[p] = "idle"
          BY <3>2 DEF Skip, Answer, Goto, Typed, Control
        <4>3. lastQuerySkips[p] = 0 => p \in cleaned
          BY <1>0, <3>2 DEF Skip, Skipping
        <4> QED BY <4>1, <4>2, <4>3
      <3>3. CASE UNCHANGED lastQuerySkips
        <4>1. lastQuerySkips[p] = -1 => p \in cleaned /\ pc[p] = "idle"
          BY <1>0 DEF Skipping
        <4>2. pc[p] = "idle" /\ p \in cleaned => pc'[p] = "idle"
          BY <1>5, NoneBegins DEF Refuse, Answer, Goto, Typed, Control
        <4>3. pc'[p] = "skip" => lastQuerySkips[p] > 0
          BY <1>5, Enters
        <4>4. lastQuerySkips[p] \in -1 .. 3
          BY <1>0
        <4> QED BY <3>3, <4>1, <4>2, <4>3, <4>4
      <3>4. CASE UNCHANGED Kepts
        BY <3>3, <3>4 DEF Kepts
      <3>5. CASE Storing(p)
        BY <3>1, <3>2, <3>3, <3>5
           DEF Storing, StoreSelector, DescribeNode, HandleDialog, CloseStream, QueryReturns,
               NoteObject, Combine, QuerySelector, StoreNode, StoreStream, queries
      <3> QED BY <1>5, <3>4, <3>5, QuietHandler
    <2> QED BY <1>0, <2>1, <2>2, <2>3 DEF Skipping
  <1> QED BY <1>2, <1>3, <1>4, <1>5 DEF Next
LEMMA InHandNext == Typed /\ [Next]_vars => InHand'
  <1> SUFFICES ASSUME Typed, [Next]_vars PROVE InHand'
    OBVIOUS
  <1>0. InHand /\ ctxCounter \in Nat
    BY DEF Typed, Stores
  <1>1. ctxCounter' \in Nat /\ 1 .. ctxCounter \subseteq 1 .. ctxCounter'
    <2>1. ctxCounter' \in {ctxCounter, NextCtxID}
      <3>1. CASE UNCHANGED Kepts \/ ClearState \/ UNCHANGED ctxCounter
        BY <3>1 DEF Kepts, ClearState
      <3>2. ASSUME NEW p \in Pages, Storing(p) PROVE ctxCounter' \in {ctxCounter, NextCtxID}
        BY <3>2 DEF Storing, StoreSelector, DescribeNode, HandleDialog, CloseStream, StoreSkips,
                    QueryReturns, NoteObject, ClearPending, Skip, Combine, QuerySelector, StoreNode,
                    StoreStream, nodes
      <3> QED BY <3>1, <3>2, QuietOthers
    <2> QED BY <1>0, <2>1 DEF NextCtxID
  <1>2. CASE UNCHANGED <<pc, h, call, tasks>>
    BY <1>0, <1>1, <1>2 DEF InHand
  <1>3. CASE ReaderStep \/ UNCHANGED vars
    BY <1>2, <1>3 DEF ReaderStep, vars
  <1>4. ASSUME NEW p \in Pages, BrowserStep(p) PROVE InHand'
    <2>1. UNCHANGED <<pc, h, tasks>>
      BY <1>4 DEF BrowserStep
    <2>2. CASE call' = call
      BY <1>2, <2>1, <2>2
    <2>3. CASE call' # call
      <3>1. /\ \A q \in Pages : q # p => call'[q] = call[q]
            /\ call'[p].result # "sent" /\ call[p].result \in {"sent", "blocked"}
        BY <1>4, <2>3, BrowserCalls
      <3>2. pc[p] # "note"
        BY <3>1 DEF Typed, InHand
      <3> QED BY <1>0, <1>1, <2>1, <3>1, <3>2 DEF InHand
    <2> QED BY <2>2, <2>3
  <1>5. ASSUME NEW p \in Pages, NEW k \in Tasks, StartProgram(p, k) PROVE InHand'
    <2>1. PICK u \in Task : tasks' = [tasks EXCEPT ![p][k] = u]
      BY <1>5, StartedTask
    <2>2. UNCHANGED <<pc, h, call>> /\ tasks[p][k].prog = "none"
      BY <1>5 DEF StartProgram
    <2>3. \A q \in Pages : pc[q] # "idle" => tasks'[q][h[q].task] = tasks[q][h[q].task]
      BY <2>1, <2>2 DEF Typed, Control, Running
    <2> QED BY <1>0, <1>1, <2>2, <2>3 DEF InHand
  <1>6. ASSUME NEW p \in Pages, HandlerStep(p) PROVE InHand'
    <2>1. \A q \in Pages : q # p => /\ pc'[q] = pc[q] /\ h'[q] = h[q] /\ call'[q] = call[q]
                                    /\ tasks'[q] = tasks[q]
      BY <1>6, OtherPages
    <2>2. pc'[p] = "note" => /\ call'[p].obj # NoObject /\ call'[p].result = "ok"
                              /\ h'[p].id \in 1 .. ctxCounter'
      BY <1>0, <1>6, Enters DEF NextCtxID
    <2>3. pc'[p] = "store" => h'[p].id \in 1 .. ctxCounter' /\ tasks'[p][h'[p].task].obj # NoObject
      <3> SUFFICES ASSUME pc'[p] = "store"
                   PROVE  h'[p].id \in 1 .. ctxCounter' /\ tasks'[p][h'[p].task].obj # NoObject
        OBVIOUS
      <3>1. PICK k \in Tasks : DescribeNode(p, k)
        BY <1>6, Enters
      <3>2. h'[p].id = NextCtxID /\ h'[p].task = k /\ ctxCounter' = NextCtxID /\ tasks' = tasks
        BY <3>1 DEF DescribeNode, Typed, Control, NoCommand
      <3>3. tasks[p][k].prog # "none" /\ Programs[tasks[p][k].prog][tasks[p][k].at] = "describe"
            /\ tasks[p][k].prog \in DOMAIN Programs
        BY <3>1, MineTyped, TaskFields DEF DescribeNode, Takes, Cmd, Typed
      <3>4. Progresses(tasks[p][k])
        BY <3>3 DEF Typed, Going
      <3>5. \/ tasks[p][k].prog \in Describers /\ tasks[p][k].at >= 2
            \/ tasks[p][k].prog \in OfAnyObject
        BY <3>3, <3>4, ProgramFacts DEF Progresses, OfAnyObject
      <3>6. tasks[p][k].obj # NoObject
        BY <3>4, <3>5 DEF Progresses
      <3> QED BY <1>0, <3>2, <3>6 DEF NextCtxID
    <2>4. call'[p].kind = "dispose" /\ call'[p].result = "sent" => call'[p].obj # NoObject
      <3>1. CASE call'[p] = call[p]
        BY <1>0, <3>1 DEF InHand
      <3>2. ASSUME NEW k \in Tasks, ReleaseObject(p, k), Begins(p, k),
                   Sends(p, "used", "dispose", tasks[p][k].obj)
            PROVE  call'[p].obj # NoObject
        <4>1. call'[p].obj = tasks[p][k].obj
          BY <3>2, TypeFacts DEF Sends, Typed, Control, CallRec
        <4>2. tasks[p][k].obj # NoObject
          <5>1. pc'[p] = "used"
            BY <3>2 DEF Sends, Goto, Typed, Control
          <5>2. ~Answer(p, k, TRUE, tasks[p][k]) /\ ~Answer(p, k, FALSE, tasks[p][k])
            BY <5>1 DEF Answer, Goto, Typed, Control
          <5> QED BY <3>2, <5>2 DEF ReleaseObject
        <4> QED BY <4>1, <4>2
      <3> QED BY <1>6, <3>1, <3>2, Enters
    <2> QED BY <1>0, <1>1, <2>1, <2>2, <2>3, <2>4 DEF InHand
  <1> QED BY <1>3, <1>4, <1>5, <1>6 DEF Next

LEMMA TypedInit == Init => Typed
  <1> SUFFICES ASSUME Init PROVE Typed
    OBVIOUS
  <1>1. Control
    BY TypeFacts DEF Init, Control, PCs
  <1>2. Stores
    <2>1. DOMAIN nodeObjects = {} /\ DOMAIN objectOwners = {} /\ DOMAIN pdfStreams = {}
      BY Tuples DEF Init
    <2> QED BY <2>1, ObjectFacts DEF Init, Stores
  <1>3. World
    <2>1. /\ ending \in [page : Pages \cup {NoPage}, at : {"none", "clear", "remove"}]
          /\ ending.at = "none"
      BY DEF Init
    <2>2. made \in [Pages -> 0 .. MaxObjects] /\ runs \in [Pages -> Runs]
      BY ObjectFacts, HandlesAssumption DEF Init
    <2>3. news \in Seq(NewsItem)
      BY DEF Init
    <2> QED BY <2>1, <2>2, <2>3, ObjectFacts DEF Init, World
  <1>4. Skipping /\ Running /\ Labelled
    BY DEF Init, Skipping, Running, Labelled
  <1>5. InHand
    BY TypeFacts DEF Init, InHand
  <1>6. Going
    BY TypeFacts DEF Init, Going
  <1> QED BY <1>1, <1>2, <1>3, <1>4, <1>5, <1>6 DEF Typed

LEMMA TypedNext == Typed /\ [Next]_vars => Typed'
  BY ControlNext, StoresNext, LifeNext, BrowserNext, SkippingNext, ProgressNext, InHandNext
     DEF Typed, Life, Browser, World

LEMMA AlwaysTyped == Spec => []Typed
  BY TypedInit, TypedNext, PTL DEF Spec

\* Every variable keeps its type, and a handler that is idle has no command.
THEOREM TypeCorrect == Spec => []TypeOK
  <1>1. Typed => TypeOK
    <2> SUFFICES ASSUME Typed PROVE TypeOK
      OBVIOUS
    <2>1. Range(objectOwners) \subseteq Pages /\ Range(pdfStreams) \subseteq Pages
      BY DEF Typed, Stores, Range
    <2>2. \A p \in Pages : /\ call[p].obj \in Objects \cup {NoObject}
                           /\ (pc[p] = "idle") = (h[p] = NoCommand)
                           /\ dialog[p] <= opened[p]
      <3> TAKE p \in Pages
      <3>1. call[p].obj \in Objects \cup {NoObject}
        BY MineTyped DEF Typed, AnyObject
      <3>2. (pc[p] = "idle") = (h[p] = NoCommand)
        BY TypeFacts DEF Typed, Control
      <3>3. dialog[p] <= opened[p]
        <4>1. dialog[p] \in {0, opened[p]} /\ opened[p] \in Nat
          BY ObjectFacts DEF Typed, World
        <4> QED BY <4>1
      <3> QED BY <3>1, <3>2, <3>3
    <2> QED BY <2>1, <2>2 DEF Typed, Stores, World, TypeOK, Runs, Dialogs
  <1> QED BY <1>1, AlwaysTyped, PTL
------------------------------------------------------------------------------
(* Proof of Cleared.                                                        *)

\* What a handler stores is its own page's.
LEMMA BlankStays ==
    ASSUME Typed, NEW p \in Pages, HandlerStep(p), NEW q \in Pages, q # p, Blank(q)
    PROVE  Blank(q)'
  <1>1. lastQuery'[q] = 0 /\ lastQuerySkips'[q] = 0 /\ lastDialog'[q] = 0
    BY OtherPages DEF Blank
  <1>2. \A s \in DOMAIN pdfStreams' : pdfStreams'[s] # q
    <2>1. CASE pdfStreams' = pdfStreams
      BY <2>1 DEF Blank
    <2>2. CASE \E s : pdfStreams' = With(pdfStreams, s, p)
      BY <2>2 DEF Blank, With
    <2>3. CASE \E S : pdfStreams' = Without(pdfStreams, S)
      BY <2>3 DEF Blank, Without, Restrict
    <2>4. CASE Storing(p)
      BY <2>1, <2>2, <2>3, <2>4
         DEF Storing, StoreSelector, DescribeNode, HandleDialog, CloseStream, StoreSkips,
             QueryReturns, NoteObject, ClearPending, Skip, Combine, QuerySelector, StoreNode,
             StoreStream
    <2> QED BY <2>1, <2>4, QuietHandler DEF Kepts
  <1>3. /\ \A o \in DOMAIN objectOwners' : objectOwners'[o] # q
        /\ \A i \in DOMAIN nodeObjects' : nodeObjects'[i].owner # q
    <2>1. CASE UNCHANGED <<nodeObjects, objectOwners>>
      BY <2>1 DEF Blank
    <2>2. CASE \E i, o : /\ nodeObjects' = With(nodeObjects, i, [obj |-> o, owner |-> p])
                         /\ objectOwners' = With(objectOwners, o, p)
      BY <2>2 DEF Blank, With
    <2>3. CASE NoteObject(p) \/ StoreNode(p)
      BY <2>2, <2>3 DEF NoteObject, StoreNode
    <2>4. CASE Storing(p)
      BY <2>1, <2>3, <2>4
         DEF Storing, StoreSelector, DescribeNode, HandleDialog, CloseStream, StoreSkips,
             QueryReturns, ClearPending, Skip, Combine, QuerySelector, StoreStream, nodes
    <2> QED BY <2>1, <2>4, QuietHandler DEF Kepts
  <1> QED BY <1>1, <1>2, <1>3 DEF Blank

LEMMA ClearedNext == Typed /\ Cleared /\ [Next]_vars => Cleared'
  <1> SUFFICES ASSUME Typed, Cleared, [Next]_vars PROVE Cleared'
    OBVIOUS
  <1>0. \A p \in Pages : Past(p) => p \in cleaned
    BY DEF Typed, World, Past
  <1>1. CASE UNCHANGED <<Kepts, pc, sessions, ending, late>>
    BY <1>1 DEF Kepts, Cleared, Past, Blank
  <1>2. ASSUME NEW p \in Pages, HandlerStep(p) PROVE Cleared'
    <2> SUFFICES ASSUME NEW q \in Pages, q \notin late', Past(q)'
                 PROVE  pc'[q] = "idle" /\ Blank(q)'
      BY DEF Cleared
    <2>1. UNCHANGED <<sessions, cleaned, ending, late>>
      BY <1>2 DEF HandlerStep
    <2>2. Past(q) /\ pc[q] = "idle" /\ Blank(q) /\ q \in cleaned
      BY <1>0, <2>1 DEF Past, Cleared
    <2>3. CASE q # p
      BY <1>2, <2>2, <2>3, BlankStays, OtherPages
    <2>4. CASE q = p
      <3>1. UNCHANGED Kepts
        BY <1>2, <2>2, <2>4, NoneBegins
      <3>2. pc'[p] = "idle"
        BY <1>2, <2>2, <2>4, NoneBegins DEF Refuse, Answer, Goto, Typed, Control
      <3> QED BY <2>2, <2>4, <3>1, <3>2 DEF Kepts, Blank
    <2> QED BY <2>3, <2>4
  <1>3. CASE ReaderStep
    <2>0. UNCHANGED <<pc, streams, asked>>
      BY <1>3 DEF ReaderStep
    <2>1. CASE TakeDialogOpened
      <3>1. /\ UNCHANGED <<sessions, ending, late, nodeObjects, objectOwners, lastQuery,
                           lastQuerySkips, pdfStreams>>
            /\ ending.at = "none"
        BY <2>1 DEF TakeDialogOpened, Takes1, nodes, queries
      <3>2. \A q \in Pages : q \notin sessions => lastDialog'[q] = lastDialog[q]
        BY <2>1 DEF TakeDialogOpened, Typed, Stores
      <3> QED BY <2>0, <3>1, <3>2 DEF Cleared, Past, Blank
    <2>2. CASE TakeDialogClosed
      BY <1>1, <2>0, <2>2 DEF TakeDialogClosed, Kepts, nodes, queries
    <2>3. CASE TakeDetached
      <3>1. UNCHANGED <<Kepts, sessions, late>> /\ ending'.at = "clear" /\ ending.at = "none"
        BY <2>0, <2>3 DEF TakeDetached, Takes1, Kepts, nodes, queries
      <3> QED BY <2>0, <3>1 DEF Kepts, Cleared, Past, Blank
    <2>4. CASE ClearState
      <3> DEFINE p == ending.page
      <3>1. /\ ending.at = "clear" /\ ending'.at = "remove" /\ ending'.page = p
            /\ UNCHANGED sessions /\ p \in Pages
        BY <2>4 DEF ClearState, Typed, World
      <3>2. /\ lastQuery' = [lastQuery EXCEPT ![p] = 0]
            /\ lastQuerySkips' = [lastQuerySkips EXCEPT ![p] = 0]
            /\ lastDialog' = [lastDialog EXCEPT ![p] = 0]
            /\ late' = IF pc[p] = "idle" THEN late ELSE late \cup {p}
        BY <2>4 DEF ClearState
      <3>3. /\ \A s \in DOMAIN pdfStreams' : s \in DOMAIN pdfStreams /\ pdfStreams'[s] = pdfStreams[s]
                                             /\ pdfStreams'[s] # p
            /\ \A o \in DOMAIN objectOwners' :
                  o \in DOMAIN objectOwners /\ objectOwners'[o] = objectOwners[o] /\ objectOwners'[o] # p
            /\ \A i \in DOMAIN nodeObjects' :
                  i \in DOMAIN nodeObjects /\ nodeObjects'[i] = nodeObjects[i] /\ nodeObjects'[i].owner # p
        <4>1. pdfStreams' = Without(pdfStreams, {s \in DOMAIN pdfStreams : pdfStreams[s] = p})
          BY <2>4 DEF ClearState
        <4>2. /\ objectOwners' = Without(objectOwners, {o \in DOMAIN objectOwners : objectOwners[o] = p})
              /\ nodeObjects' = Without(nodeObjects, {i \in DOMAIN nodeObjects : nodeObjects[i].owner = p})
          BY <2>4 DEF ClearState, ClearObjects
        <4> HIDE DEF p
        <4> QED BY <4>1, <4>2 DEF Without, Restrict
      <3> HIDE DEF p
      <3> SUFFICES ASSUME NEW q \in Pages, q \notin late', Past(q)'
                   PROVE  pc'[q] = "idle" /\ Blank(q)'
        BY DEF Cleared
      <3>4. /\ lastQuery \in [Pages -> Runs] /\ lastQuerySkips \in [Pages -> -1 .. 3]
            /\ lastDialog \in [Pages -> Dialogs]
        BY DEF Typed, Stores
      <3>5. CASE q = p
        BY <2>0, <3>1, <3>2, <3>3, <3>4, <3>5 DEF Blank
      <3>6. CASE q # p
        <4>1. Past(q) /\ q \notin late
          BY <3>1, <3>2, <3>6 DEF Past
        <4>2. pc[q] = "idle" /\ Blank(q)
          BY <4>1 DEF Cleared
        <4> QED BY <2>0, <3>2, <3>3, <3>4, <3>6, <4>2 DEF Blank
      <3> QED BY <3>5, <3>6
    <2>5. CASE RemoveSession
      <3>1. UNCHANGED <<Kepts, late>> /\ ending.at = "remove" /\ sessions' = sessions \ {ending.page}
            /\ ending'.at = "none"
        BY <2>0, <2>5 DEF RemoveSession, Kepts, nodes, queries
      <3> QED BY <2>0, <3>1 DEF Kepts, Cleared, Past, Blank
    <2> QED BY <1>3, <2>1, <2>2, <2>3, <2>4, <2>5 DEF ReaderStep
  <1>4. ASSUME NEW p \in Pages, BrowserStep(p) \/ \E k \in Tasks : StartProgram(p, k) PROVE Cleared'
    BY <1>1, <1>4 DEF BrowserStep, StartProgram, Kepts, nodes, queries
  <1>5. CASE UNCHANGED vars
    BY <1>1, <1>5 DEF vars, Kepts, nodes, queries
  <1> QED BY <1>2, <1>3, <1>4, <1>5 DEF Next

\* Nothing of a page outlives its session, unless a command of it was still running when
\* its state was cleared.
THEOREM StateGone == Spec => []CleanedUp
  <1>1. Init => Cleared
    BY HandlesAssumption DEF Init, Cleared, Past
  <1>2. Typed /\ Cleared => CleanedUp
    <2> SUFFICES ASSUME Cleared, NEW p \in Pages, p \notin sessions, p \notin late
                 PROVE  /\ lastQuery[p] = 0 /\ lastQuerySkips[p] = 0 /\ lastDialog[p] = 0
                        /\ p \notin Range(pdfStreams) /\ p \notin Range(objectOwners)
                        /\ \A i \in DOMAIN nodeObjects : nodeObjects[i].owner # p
      BY DEF CleanedUp
    <2>1. Blank(p)
      BY DEF Cleared, Past
    <2> QED BY <2>1 DEF Blank, Range
  <1> QED BY <1>1, <1>2, ClearedNext, AlwaysTyped, PTL DEF Spec
------------------------------------------------------------------------------
(* Proof of Dialoged.                                                       *)

LEMMA TailFacts ==
    ASSUME NEW S, NEW s \in Seq(S), s # <<>>
    PROVE  /\ Len(s) \in Nat /\ Len(s) >= 1 /\ DOMAIN s = 1 .. Len(s) /\ Head(s) = s[1]
           /\ Tail(s) \in Seq(S) /\ Len(Tail(s)) = Len(s) - 1 /\ DOMAIN Tail(s) = 1 .. Len(s) - 1
           /\ \A i \in 1 .. Len(s) - 1 : Tail(s)[i] = s[i + 1]
  OBVIOUS

\* Unread events move up when one is read.
LEMMA ReadsOn ==
    ASSUME Typed, news # <<>>, news' = Tail(news), opened' = opened, LastUnread
    PROVE  /\ LastUnread'
           /\ \A p \in Pages : Unread(p) /\ news[1] # OpenedEvent(p, opened[p]) => Unread(p)'
           /\ Head(news) = news[1]
           /\ \A p \in Pages : news[1].kind = "opened" /\ news[1].page = p =>
                               news[1] = OpenedEvent(p, opened[p]) \/ Unread(p)'
           /\ news[1] \in NewsItem
  <1>1. /\ Len(news) \in Nat /\ Len(news) >= 1 /\ DOMAIN news = 1 .. Len(news) /\ Head(news) = news[1]
        /\ Len(news') = Len(news) - 1 /\ DOMAIN news' = 1 .. Len(news) - 1
        /\ \A i \in 1 .. Len(news) - 1 : news'[i] = news[i + 1]
        /\ news[1] \in NewsItem
    <2>1. news \in Seq(NewsItem)
      BY DEF Typed, World
    <2> QED BY <2>1, TailFacts
  <1>2. ASSUME NEW j \in 2 .. Len(news)
        PROVE  j - 1 \in 1 .. Len(news) - 1 /\ news'[j - 1] = news[j]
    <2>1. j - 1 \in 1 .. Len(news) - 1 /\ (j - 1) + 1 = j
      BY <1>1
    <2> QED BY <1>1, <2>1
  <1>3. LastUnread'
    <2> SUFFICES ASSUME NEW i \in DOMAIN news', news'[i].kind = "opened"
                 PROVE  \E j \in i .. Len(news') :
                            news'[j] = OpenedEvent(news'[i].page, opened[news'[i].page])
      BY DEF LastUnread, OpenedEvent
    <2>1. i + 1 \in DOMAIN news /\ news'[i] = news[i + 1] /\ i \in 1 .. Len(news) - 1
      BY <1>1
    <2>2. PICK j \in (i + 1) .. Len(news) :
              news[j] = OpenedEvent(news[i + 1].page, opened[news[i + 1].page])
      BY <2>1 DEF LastUnread
    <2>3. j \in 2 .. Len(news) /\ j - 1 \in i .. Len(news')
      BY <1>1, <2>1
    <2>4. news'[j - 1] = news[j]
      BY <1>2, <2>3
    <2> QED BY <2>1, <2>2, <2>3, <2>4
  <1>4. ASSUME NEW p \in Pages, NEW j \in 2 .. Len(news), news[j] = OpenedEvent(p, opened[p])
        PROVE  Unread(p)'
    <2>1. j - 1 \in DOMAIN news' /\ news'[j - 1] = OpenedEvent(p, opened'[p])
      BY <1>1, <1>2, <1>4
    <2> QED BY <2>1 DEF Unread, OpenedEvent
  <1>5. ASSUME NEW p \in Pages, Unread(p), news[1] # OpenedEvent(p, opened[p]) PROVE Unread(p)'
    <2>1. PICK j \in DOMAIN news : news[j] = OpenedEvent(p, opened[p])
      BY <1>5 DEF Unread
    <2>2. j \in 2 .. Len(news)
      BY <1>1, <1>5, <2>1
    <2> QED BY <1>4, <2>1, <2>2
  <1>6. ASSUME NEW p \in Pages, news[1].kind = "opened", news[1].page = p,
               news[1] # OpenedEvent(p, opened[p])
        PROVE  Unread(p)'
    <2>1. 1 \in DOMAIN news
      BY <1>1
    <2>2. PICK j \in 1 .. Len(news) : news[j] = OpenedEvent(p, opened[p])
      BY <1>6, <2>1 DEF LastUnread
    <2>3. j \in 2 .. Len(news)
      BY <1>1, <1>6, <2>2
    <2> QED BY <1>4, <2>2, <2>3
  <1> QED BY <1>1, <1>3, <1>5, <1>6

\* Events come last.
LEMMA ComesLast ==
    ASSUME Typed, LastUnread, NEW e, news' = Append(news, e), NEW p \in Pages,
           \/ opened' = opened /\ e.kind # "opened"
           \/ opened' = [opened EXCEPT ![p] = @ + 1] /\ e = OpenedEvent(p, opened[p] + 1)
    PROVE  /\ LastUnread'
           /\ \A q \in Pages : Unread(q) => Unread(q)'
           /\ opened' # opened => Unread(p)'
  <1>1. /\ news \in Seq(NewsItem) /\ Len(news) \in Nat /\ DOMAIN news = 1 .. Len(news)
        /\ Len(news') = Len(news) + 1 /\ DOMAIN news' = 1 .. Len(news) + 1
        /\ \A i \in 1 .. Len(news) : news'[i] = news[i] /\ news'[Len(news) + 1] = e
        /\ news'[Len(news) + 1] = e
    BY DEF Typed, World
  <1>2. opened \in [Pages -> Dialogs] /\ opened' \in [Pages -> Nat]
    <2>1. opened \in [Pages -> Dialogs] /\ opened[p] \in Nat /\ opened \in [Pages -> Nat]
      BY ObjectFacts DEF Typed, World
    <2>2. opened[p] + 1 \in Nat
      BY <2>1
    <2> QED BY <2>1, <2>2
  <1>3. ASSUME opened' # opened
        PROVE  /\ e = OpenedEvent(p, opened'[p]) /\ \A q \in Pages : q # p => opened'[q] = opened[q]
               /\ Len(news) + 1 \in DOMAIN news' /\ news'[Len(news) + 1] = e
    BY <1>1, <1>2, <1>3
  <1>4. ASSUME opened' # opened PROVE Unread(p)'
    BY <1>3, <1>4 DEF Unread, OpenedEvent
  <1>5. ASSUME NEW q \in Pages, Unread(q) PROVE Unread(q)'
    <2>1. CASE opened'[q] = opened[q]
      BY <1>1, <1>5, <2>1 DEF Unread, OpenedEvent
    <2> QED BY <1>3, <1>4, <2>1
  <1>6. LastUnread'
    <2> SUFFICES ASSUME NEW i \in DOMAIN news', news'[i].kind = "opened"
                 PROVE  \E j \in i .. Len(news') :
                            news'[j] = OpenedEvent(news'[i].page, opened'[news'[i].page])
      BY DEF LastUnread, OpenedEvent
    <2>1. Len(news) + 1 \in i .. Len(news')
      BY <1>1
    <2>2. CASE i = Len(news) + 1
      <3>1. e.kind = "opened" /\ opened' # opened
        BY <1>1, <1>2, <2>2 DEF OpenedEvent
      <3>2. e.page = p
        BY <1>3, <3>1 DEF OpenedEvent
      <3> QED BY <1>1, <1>3, <2>1, <2>2, <3>1, <3>2
    <2>3. CASE i \in 1 .. Len(news)
      <3>1. news'[i] = news[i] /\ i \in DOMAIN news /\ news[i].page \in Pages
        <4>1. news[i] \in NewsItem
          BY <1>1, <2>3
        <4> QED BY <1>1, <2>3, <4>1 DEF NewsItem
      <3>2. CASE opened'[news[i].page] = opened[news[i].page]
        <4>1. PICK j \in i .. Len(news) : news[j] = OpenedEvent(news[i].page, opened[news[i].page])
          BY <3>1 DEF LastUnread
        <4>2. j \in i .. Len(news') /\ news'[j] = news[j]
          BY <1>1, <2>3
        <4> QED BY <3>1, <3>2, <4>1, <4>2
      <3>3. CASE opened'[news[i].page] # opened[news[i].page]
        <4>1. news[i].page = p /\ opened' # opened
          BY <1>3, <3>1, <3>3
        <4> QED BY <1>1, <1>3, <2>1, <3>1, <4>1
      <3> QED BY <3>2, <3>3
    <2> QED BY <1>1, <2>2, <2>3
  <1> QED BY <1>4, <1>5, <1>6

LEMMA DialogedNext == Typed /\ Dialoged /\ [Next]_vars => Dialoged'
  <1> SUFFICES ASSUME Typed, Dialoged, [Next]_vars PROVE Dialoged'
    OBVIOUS
  <1>0. /\ opened \in [Pages -> Dialogs] /\ lastDialog \in [Pages -> Dialogs]
        /\ asked \in [Pages -> SUBSET Dialogs] /\ Pages \ sessions \subseteq cleaned
        /\ ending.at # "none" => ending.page \in cleaned
    BY DEF Typed, Stores, World
  <1>1. CASE UNCHANGED <<opened, news, lastDialog, asked, cleaned>>
    BY <1>1 DEF Dialoged, LastUnread, Remembered, Unread, OpenedEvent
  <1>2. ASSUME NEW p \in Pages, HandlerStep(p) PROVE Dialoged'
    <2>1. UNCHANGED <<opened, news, cleaned>>
      BY <1>2 DEF HandlerStep, browser
    <2>2. CASE UNCHANGED <<lastDialog, asked>>
      BY <1>1, <2>1, <2>2
    <2>3. CASE \E k \in Tasks : HandleDialog(p, k)
      <3>1. asked' = [asked EXCEPT ![p] = @ \cup {lastDialog[p]}]
            /\ lastDialog' = [lastDialog EXCEPT ![p] = 0]
        BY <2>3 DEF HandleDialog
      <3>2. ASSUME NEW q \in Pages, q \notin cleaned
            PROVE  \/ opened[q] = 0 \/ Unread(q)
                   \/ lastDialog'[q] = opened[q] \/ opened[q] \in asked'[q]
        BY <1>0, <3>1, <3>2 DEF Dialoged, Remembered
      <3> QED BY <2>1, <3>2 DEF Dialoged, LastUnread, Remembered, Unread, OpenedEvent
    <2>4. CASE UNCHANGED Kepts
      BY <2>2, <2>4 DEF Kepts
    <2>5. CASE Storing(p)
      BY <2>2, <2>3, <2>5
         DEF Storing, StoreSelector, DescribeNode, CloseStream, StoreSkips, QueryReturns, NoteObject,
             ClearPending, Skip, Combine, QuerySelector, StoreNode, StoreStream
    <2> QED BY <1>2, <2>4, <2>5, QuietHandler
  <1>3. ASSUME NEW p \in Pages, BrowserStep(p) PROVE Dialoged'
    <2>1. UNCHANGED <<lastDialog, asked, cleaned>>
      BY <1>3 DEF BrowserStep
    <2>2. ASSUME LastUnread', \A q \in Pages : Unread(q) => Unread(q)',
                 \A q \in Pages : opened'[q] # opened[q] => Unread(q)'
          PROVE  Dialoged'
      BY <2>1, <2>2 DEF Dialoged, Remembered
    <2>3. CASE Opens(p)
      <3>1. news' = Append(news, OpenedNext(p)) /\ opened' = [opened EXCEPT ![p] = @ + 1]
            /\ OpenedNext(p) = OpenedEvent(p, opened[p] + 1)
        BY <2>3 DEF Opens, OpenedNext, OpenedEvent, Event
      <3>2. \A q \in Pages : opened'[q] # opened[q] => q = p /\ opened' # opened
        BY <1>0, <3>1
      <3> QED BY <2>2, <3>1, <3>2, ComesLast DEF Dialoged
    <2>4. CASE opened' = opened /\ \E kind \in {"closed", "detached"} : news' = Append(news, Event(kind, p))
      <3>1. \A kind \in {"closed", "detached"} : Event(kind, p).kind # "opened"
        BY DEF Event
      <3> QED BY <2>2, <2>4, <3>1, ComesLast DEF Dialoged
    <2>5. CASE opened' = opened /\ news' = news
      BY <1>1, <2>1, <2>5
    <2>6. CASE Serve(p)
      BY <2>3, <2>4, <2>5, <2>6 DEF Serve, ServeObject, ServeAlert, ServeDialog, ServeOther
    <2>7. CASE PageOpensDialog(p) \/ UserAnswers(p) \/ PageEnds(p)
      BY <2>3, <2>4, <2>7 DEF PageOpensDialog, UserAnswers, PageEnds
    <2> QED BY <1>3, <2>5, <2>6, <2>7 DEF BrowserStep, browser
  <1>4. ASSUME NEW p \in Pages, NEW k \in Tasks, StartProgram(p, k) PROVE Dialoged'
    BY <1>1, <1>4 DEF StartProgram, browser
  <1>5. CASE UNCHANGED vars
    BY <1>1, <1>5 DEF vars, browser
  <1>6. CASE ReaderStep
    <2>0. UNCHANGED <<opened, asked>>
      BY <1>6 DEF ReaderStep
    <2>1. ASSUME news # <<>>, news' = Tail(news), cleaned \subseteq cleaned',
                 Head(news).kind # "opened", lastDialog' = lastDialog
          PROVE  Dialoged'
      <3>1. /\ LastUnread' /\ Head(news) = news[1]
            /\ \A p \in Pages : Unread(p) /\ news[1] # OpenedEvent(p, opened[p]) => Unread(p)'
        BY <2>0, <2>1, ReadsOn DEF Dialoged
      <3>2. \A p \in Pages : news[1] # OpenedEvent(p, opened[p])
        BY <2>1, <3>1 DEF OpenedEvent
      <3> QED BY <2>0, <2>1, <3>1, <3>2 DEF Dialoged, Remembered
    <2>2. CASE TakeDialogClosed \/ TakeDetached
      BY <2>1, <2>2 DEF TakeDialogClosed, TakeDetached, Takes1
    <2>3. CASE TakeDialogOpened
      <3>1. /\ news # <<>> /\ news' = Tail(news) /\ cleaned' = cleaned /\ Head(news).kind = "opened"
            /\ lastDialog' = IF Head(news).page \in sessions
                             THEN [lastDialog EXCEPT ![Head(news).page] = Head(news).dialog]
                             ELSE lastDialog
        BY <2>3 DEF TakeDialogOpened, Takes1, LastDialog
      <3>2. /\ LastUnread' /\ Head(news) = news[1] /\ news[1] \in NewsItem
            /\ \A p \in Pages : Unread(p) /\ news[1] # OpenedEvent(p, opened[p]) => Unread(p)'
            /\ \A p \in Pages : news[1].kind = "opened" /\ news[1].page = p =>
                                  news[1] = OpenedEvent(p, opened[p]) \/ Unread(p)'
        BY <2>0, <3>1, ReadsOn DEF Dialoged
      <3>3. ASSUME NEW p \in Pages, p \notin cleaned
            PROVE  \/ opened[p] = 0 \/ Unread(p)'
                   \/ lastDialog'[p] = opened[p] \/ opened[p] \in asked[p]
        <4>1. p \in sessions
          BY <1>0, <3>3
        <4>2. CASE news[1].page = p
          <5>1. news[1] = OpenedEvent(p, opened[p]) \/ Unread(p)'
            BY <3>1, <3>2, <4>2
          <5>2. lastDialog'[p] = news[1].dialog
            BY <1>0, <3>1, <3>2, <4>1, <4>2
          <5> QED BY <5>1, <5>2 DEF OpenedEvent
        <4>3. CASE news[1].page # p
          <5>1. news[1] # OpenedEvent(p, opened[p])
            BY <4>3 DEF OpenedEvent
          <5>2. lastDialog'[p] = lastDialog[p]
            BY <1>0, <3>1, <3>2, <4>3
          <5> QED BY <3>2, <3>3, <5>1, <5>2 DEF Dialoged, Remembered
        <4> QED BY <4>2, <4>3
      <3> QED BY <2>0, <3>1, <3>2, <3>3 DEF Dialoged, Remembered
    <2>4. CASE ClearState
      <3>1. UNCHANGED <<news, cleaned>> /\ ending.page \in cleaned
            /\ lastDialog' = [lastDialog EXCEPT ![ending.page] = 0]
        BY <1>0, <2>4 DEF ClearState
      <3>2. \A p \in Pages \ cleaned : lastDialog'[p] = lastDialog[p]
        BY <1>0, <3>1
      <3> QED BY <2>0, <3>1, <3>2 DEF Dialoged, LastUnread, Remembered, Unread, OpenedEvent
    <2>5. CASE RemoveSession
      BY <1>1, <2>0, <2>5 DEF RemoveSession
    <2> QED BY <1>6, <2>2, <2>3, <2>4, <2>5 DEF ReaderStep
  <1> QED BY <1>2, <1>3, <1>4, <1>5, <1>6 DEF Next

\* An open dialog whose event was read, and which no client was told to answer, is the one
\* Page.handleJavaScriptDialog answers, whoever answered the dialogs before it.
THEOREM DialogReached == Spec => []DialogKnown
  <1>1. Init => Dialoged
    <2> SUFFICES ASSUME Init PROVE Dialoged
      OBVIOUS
    <2>1. DOMAIN news = {}
      BY Tuples DEF Init
    <2>2. \A p \in Pages : opened[p] = 0
      BY DEF Init
    <2> QED BY <2>1, <2>2 DEF Dialoged, LastUnread, Remembered
  <1>2. Typed /\ Dialoged => DialogKnown
    <2> SUFFICES ASSUME Typed, Dialoged, NEW p \in sessions \ cleaned, dialog[p] # 0,
                        dialog[p] \notin asked[p],
                        \A i \in DOMAIN news : news[i] # OpenedEvent(p, dialog[p])
                 PROVE  lastDialog[p] = dialog[p]
      BY DEF DialogKnown, OpenedEvent
    <2>1. p \in Pages /\ dialog[p] = opened[p]
      BY DEF Typed, World
    <2> QED BY <2>1 DEF Dialoged, Remembered, Unread
  <1> QED BY <1>1, <1>2, DialogedNext, AlwaysTyped, PTL DEF Spec
=============================================================================
