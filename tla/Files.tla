------------------------------- MODULE Files -------------------------------
(***************************************************************************)
(* File handles.  The loader (c_loader.c) answers requests of the system   *)
(* commands that come over USB and Bluetooth (c_comm.c), of the system     *)
(* calls of the running program (c_cmd.c) and of the menus                 *)
(* (Functions.inl.h).  All of them share one table of handles, kept by the *)
(* file system of the hardware layer, and a handle is a small number that  *)
(* is given out again as soon as it is free: whoever keeps a number that   *)
(* has been closed behind his back uses the file of another.               *)
(*                                                                         *)
(* The file system is not part of the repository.  Here it hands out any   *)
(* free handle and may refuse any request; truncating a file closes it, as *)
(* c_cmd.c:2300 takes for granted.  Names and contents are left out, so    *)
(* whether a file exists is open each time.                                *)
(*                                                                         *)
(* who in open, and held, are history: who has asked for a handle, and the *)
(* handles that a client has been given and may still use.  "lost" is a    *)
(* handle that the code leaves open although nobody knows it any more.     *)
(*                                                                         *)
(* A file that is cropped over USB is closed, and its handle stays noted:  *)
(* when the cable is pulled, the file of whoever has got the number since  *)
(* is closed behind his back.  From then on nobody knows whose the number  *)
(* is.  cropped and struck, of usb, are the history of that: the notes     *)
(* that have outlived their files, and the numbers that have come to harm. *)
(***************************************************************************)
EXTENDS Naturals, FiniteSets

CONSTANTS
    MaxHandles,  \* MAX_HANDLES
    Channels     \* where system commands come from, of "usb" and "bt"

Handles == 0 .. MaxHandles - 1
NotAHandle == 255
Clients == Channels \cup {"program", "ui"}
Closed == [who |-> "none", mode |-> "none"]

ASSUME FilesConstants ==
    /\ MaxHandles \in 1 .. 16
    /\ Channels \subseteq {"usb", "bt"}

VARIABLES
    open,    \* the handles of the file system
    held,    \* history: the handles that each client may use
    usb,     \* the cable, IOMapComm.UsbState and the handles noted by Hal_Usb_AddHandle
    ext,     \* VarsComm.ExtMode: a long WRITE of which a part is still to come
    table,   \* VarsCmd.FileHandleTable
    prog,    \* VarsCmd.ActiveProgHandle
    mods,    \* VarsLoader.IoMapHandle
    fnof,    \* VarsUi.FNOFHandle while FNOFState is 1
    log      \* VarsUi.TmpHandle while the menu logs data

vars == <<open, held, usb, ext, table, prog, mods, fnof, log>>

Place == Handles \cup {NotAHandle}

TypeOK ==
    /\ open \in [Handles -> [who : Clients \cup {"image", "lost"}, mode : {"read", "write", "search"}]
                            \cup {Closed}]
    /\ held \in [Clients -> SUBSET Handles]
    /\ usb \in [present : BOOLEAN, state : BOOLEAN, list : SUBSET Handles,
                cropped : SUBSET Handles, struck : SUBSET Handles]
    /\ ext \in [Channels -> Place]
    /\ table \in [Handles -> {"none", "r", "w"}]
    /\ prog \in Place
    /\ mods \in BOOLEAN
    /\ fnof \in Place
    /\ log \in Place

Init ==
    /\ open = [h \in Handles |-> Closed]
    /\ held = [c \in Clients |-> {}]
    /\ usb = [present |-> FALSE, state |-> FALSE, list |-> {}, cropped |-> {}, struck |-> {}]
    /\ ext = [c \in Channels |-> NotAHandle]
    /\ table = [h \in Handles |-> "none"]
    /\ prog = NotAHandle
    /\ mods = FALSE
    /\ fnof = NotAHandle
    /\ log = NotAHandle

(***************************************************************************)
(* The file system.  A request that gives out a handle has the outcomes    *)
(* [open, h], where h is NotAHandle when it has been refused.              *)
(***************************************************************************)
Refused(o) == [open |-> o, h |-> NotAHandle]

Hal_Fs_Locate(o, who, mode) ==
    {Refused(o)} \cup {[open |-> [o EXCEPT ![h] = [who |-> who, mode |-> mode]], h |-> h] :
                         h \in {k \in Handles : o[k] = Closed}}

Hal_Fs_CreateWrite(o, who) == Hal_Fs_Locate(o, who, "write")

\* Closing what is not open, or not a handle, does nothing.
Hal_Fs_Close(o, h) == [k \in Handles |-> IF k = h THEN Closed ELSE o[k]]

Hal_Fs_Truncate(o, h) == Hal_Fs_Close(o, h)

\* A handle that stays open when its request is over.
Lose(o, h) == [k \in Handles |-> IF k = h THEN [o[k] EXCEPT !.who = "lost"] ELSE o[k]]

(***************************************************************************)
(* The loader.                                                             *)
(***************************************************************************)
cLoaderCreateFile(o, who) ==
    {[r EXCEPT !.open = IF r.h = NotAHandle THEN Hal_Fs_Close(@, r.h) ELSE @] :
       r \in Hal_Fs_CreateWrite(o, who)}

\* A fault: a file that has been located and cannot be opened stays open.
OpenLocatedLeak(o, who, mode) ==
    UNION {{r, Refused(r.open)} : r \in Hal_Fs_Locate(o, who, mode)}

\* A file that has been located is opened, and its handle closed when that fails.
OpenLocated(o, who, mode) ==
    UNION {{r, Refused(Hal_Fs_Close(r.open, r.h))} : r \in Hal_Fs_Locate(o, who, mode)}

cLoaderOpenRead(o, who) == OpenLocated(o, who, "read")
cLoaderOpenAppend(o, who) == OpenLocated(o, who, "write")

\* The handle found is closed by the file's deletion, and by nobody when that is refused.
cLoaderDeleteFile(o) ==
    UNION {{Hal_Fs_Close(r.open, r.h), Lose(r.open, r.h)} : r \in Hal_Fs_Locate(o, "lost", "search")}

\* The handle that has been located for a new size stays open.
cLoaderResizeFile(o) == {Lose(r.open, r.h) : r \in Hal_Fs_Locate(o, "lost", "search")}

\* Both names are located, and both handles closed on all ways out.
cLoaderRenameFile(o) ==
    UNION {{Hal_Fs_Close(s.open, s.h) : s \in Hal_Fs_Locate(Hal_Fs_Close(r.open, r.h), "lost", "search")} :
             r \in Hal_Fs_Locate(o, "lost", "search")}

FindFirst(o, who) ==
    {[r EXCEPT !.open = IF r.h = NotAHandle THEN Hal_Fs_Close(@, r.h) ELSE @] :
       r \in Hal_Fs_Locate(o, who, "search")}

\* A search goes on only on an open handle; it may come to its end.
FindNext(o, h) == IF h \in Handles /\ o[h].mode = "search" THEN BOOLEAN ELSE {FALSE}

\* A name is looked up: the handle is closed at once.
Exists(o) == {Hal_Fs_Close(r.open, r.h) : r \in FindFirst(o, "lost")}

(***************************************************************************)
(* System commands (cCommInterpreteCmd).  A host sends the next command    *)
(* when the last one is done.                                              *)
(***************************************************************************)
Ready(c) ==
    /\ ext[c] = NotAHandle
    /\ c = "usb" => usb.present

\* A fault: handles of searches are not noted for USB.
NotedSearchNot(c, h, mode) ==
    IF c = "usb" /\ h # NotAHandle /\ mode # "search" THEN usb.list \cup {h} ELSE usb.list

\* A handle that goes out over USB is noted, to be closed when the cable is pulled.
Noted(c, h, mode) == IF c = "usb" /\ h # NotAHandle THEN usb.list \cup {h} ELSE usb.list

Given(c, r, mode) ==
    /\ open' = r.open
    /\ held' = [held EXCEPT ![c] = IF r.h = NotAHandle THEN @ ELSE @ \cup {r.h}]
    /\ usb' = [usb EXCEPT !.list = Noted(c, r.h, mode), !.state = @ \/ c = "usb",
                          !.cropped = IF c = "usb" THEN @ \ {r.h} ELSE @]

\* OPENWRITE, OPENWRITELINEAR and OPENWRITEDATA; a system file is refused as data.
OpenWriteCommand(c) ==
    /\ Ready(c)
    /\ \E r \in cLoaderCreateFile(open, c) : Given(c, r, "write")
    /\ UNCHANGED <<ext, table, prog, mods, fnof, log>>

OpenAppendCommand(c) ==
    /\ Ready(c)
    /\ \E r \in cLoaderOpenAppend(open, c) : Given(c, r, "write")
    /\ UNCHANGED <<ext, table, prog, mods, fnof, log>>

OpenReadCommand(c) ==
    /\ Ready(c)
    /\ \E r \in cLoaderOpenRead(open, c) : Given(c, r, "read")
    /\ UNCHANGED <<ext, table, prog, mods, fnof, log>>

FindFirstCommand(c) ==
    /\ Ready(c)
    /\ \E r \in FindFirst(open, c) : Given(c, r, "search")
    /\ UNCHANGED <<ext, table, prog, mods, fnof, log>>

\* A host closes its search also when nothing more has been found.
FindNextCommand(c, h) ==
    /\ Ready(c)
    /\ h \in held[c]
    /\ \E found \in FindNext(open, h) : TRUE
    /\ UNCHANGED vars

Unnoted(c, h) == IF c = "usb" THEN usb.list \ {h} ELSE usb.list

CloseCommand(c, h) ==
    /\ Ready(c)
    /\ h \in held[c]
    /\ open' = Hal_Fs_Close(open, h)
    /\ held' = [held EXCEPT ![c] = @ \ {h}]
    /\ usb' = [usb EXCEPT !.list = Unnoted(c, h)]
    /\ UNCHANGED <<ext, table, prog, mods, fnof, log>>

\* CROPDATAFILE closes the file and leaves the note of its handle.
CropCommand(c, h) ==
    /\ Ready(c)
    /\ h \in held[c]
    /\ open' = Hal_Fs_Truncate(open, h)
    /\ held' = [held EXCEPT ![c] = @ \ {h}]
    /\ usb' = [usb EXCEPT !.cropped = IF c = "usb" THEN @ \cup {h} ELSE @]
    /\ UNCHANGED <<ext, table, prog, mods, fnof, log>>

DeleteCommand(c) ==
    /\ Ready(c)
    /\ open' \in cLoaderDeleteFile(open)
    /\ UNCHANGED <<held, usb, ext, table, prog, mods, fnof, log>>

RenameCommand(c) ==
    /\ Ready(c)
    /\ open' \in cLoaderRenameFile(open)
    /\ UNCHANGED <<held, usb, ext, table, prog, mods, fnof, log>>

(***************************************************************************)
(* WRITE.  A message longer than the buffer comes in pieces over           *)
(* Bluetooth: the handle of the first piece is kept for the others.        *)
(***************************************************************************)
WriteCommand(c, h, whole) ==
    /\ Ready(c)
    /\ h \in held[c]
    /\ c = "usb" => whole
    /\ ext' = IF whole THEN ext ELSE [ext EXCEPT ![c] = h]
    /\ UNCHANGED <<open, held, usb, table, prog, mods, fnof, log>>

ExtendedWrite(c, last) ==
    /\ ext[c] # NotAHandle
    /\ ext' = IF last THEN [ext EXCEPT ![c] = NotAHandle] ELSE ext
    /\ UNCHANGED <<open, held, usb, table, prog, mods, fnof, log>>

\* A fault: the long message is not ended with the stream.
StreamEndsAlone ==
    /\ "bt" \in Channels
    /\ open' = [h \in Handles |-> IF open[h].who = "bt" THEN [open[h] EXCEPT !.who = "lost"] ELSE open[h]]
    /\ held' = [held EXCEPT !["bt"] = {}]
    /\ UNCHANGED <<usb, ext, table, prog, mods, fnof, log>>

\* SETBtCmdState: the stream ends, and with it the long message.  The files that have been opened
\* over Bluetooth stay open.
StreamEnds ==
    /\ "bt" \in Channels
    /\ ext' = [c \in Channels |-> NotAHandle]
    /\ open' = [h \in Handles |-> IF open[h].who = "bt" THEN [open[h] EXCEPT !.who = "lost"] ELSE open[h]]
    /\ held' = [held EXCEPT !["bt"] = {}]
    /\ UNCHANGED <<usb, table, prog, mods, fnof, log>>

(***************************************************************************)
(* Modules.  There is one search for modules, and anybody may end it.      *)
(***************************************************************************)
FindFirstModule(c) ==
    /\ Ready(c)
    /\ mods' = TRUE
    /\ UNCHANGED <<open, held, usb, ext, table, prog, fnof, log>>

CloseModHandle(c) ==
    /\ Ready(c)
    /\ mods' = FALSE
    /\ UNCHANGED <<open, held, usb, ext, table, prog, fnof, log>>

(***************************************************************************)
(* The cable (cCommCtrl, USB).                                             *)
(***************************************************************************)
\* The host at the other end forgets its handles; the brick still has them noted.
Cable ==
    /\ "usb" \in Channels
    /\ usb' = [usb EXCEPT !.present = ~@]
    /\ held' = [held EXCEPT !["usb"] = {}]
    /\ UNCHANGED <<open, ext, table, prog, mods, fnof, log>>

CableSeen ==
    /\ usb.present
    /\ ~usb.state
    /\ usb' = [usb EXCEPT !.state = TRUE]
    /\ UNCHANGED <<open, held, ext, table, prog, mods, fnof, log>>

\* A file that is neither closed nor forgotten.
InUse(f) == f.who \in Clients \cup {"image"}

\* Every handle that is noted is closed, also when the note is of an earlier file.
CableSeenMissing ==
    /\ ~usb.present
    /\ usb.state
    /\ usb' = [usb EXCEPT !.state = FALSE, !.list = {}, !.cropped = {},
                          !.struck = @ \cup {h \in usb.cropped : InUse(open[h])}]
    /\ open' = [h \in Handles |-> IF h \in usb.list THEN Closed ELSE open[h]]
    /\ UNCHANGED <<held, ext, table, prog, mods, fnof, log>>

(***************************************************************************)
(* System calls of the running program.                                    *)
(***************************************************************************)
Running == prog # NotAHandle

\* A file that the program opens is entered in the table, as read or written.
Entered(r, how) ==
    /\ Running
    /\ open' = r.open
    /\ held' = [held EXCEPT !["program"] = IF r.h = NotAHandle THEN @ ELSE @ \cup {r.h}]
    /\ table' = [h \in Handles |-> IF h = r.h THEN how ELSE table[h]]
    /\ UNCHANGED <<usb, ext, prog, mods, fnof, log>>

FileOpenRead == \E r \in cLoaderOpenRead(open, "program") : Entered(r, "r")
FileOpenWrite == \E r \in cLoaderCreateFile(open, "program") : Entered(r, "w")
FileOpenAppend == \E r \in cLoaderOpenAppend(open, "program") : Entered(r, "w")

\* A fault: the entry of a closed file stays in the table.
FileCloseEntered(h) ==
    /\ Running
    /\ h \in held["program"]
    /\ open' = Hal_Fs_Close(open, h)
    /\ held' = [held EXCEPT !["program"] = @ \ {h}]
    /\ UNCHANGED <<usb, ext, table, prog, mods, fnof, log>>

FileClose(h) ==
    /\ Running
    /\ h \in held["program"]
    /\ open' = Hal_Fs_Close(open, h)
    /\ held' = [held EXCEPT !["program"] = @ \ {h}]
    /\ table' = [table EXCEPT ![h] = "none"]
    /\ UNCHANGED <<usb, ext, prog, mods, fnof, log>>

\* Reading, writing and positioning answer with the handle that they have been asked for.
FileUse(h) ==
    /\ Running
    /\ h \in held["program"]
    /\ UNCHANGED vars

\* A handle by name: the program gets back what it has opened, also after it has lost the number.
FileResolveHandle(h) ==
    /\ Running
    /\ table[h] # "none"
    /\ held' = [held EXCEPT !["program"] = @ \cup {h}]
    /\ UNCHANGED <<open, usb, ext, table, prog, mods, fnof, log>>

\* The loader takes the handle for a name, and its answer, without a handle, is written over it.
FileResize(h) ==
    /\ Running
    /\ h \in held["program"]
    /\ table[h] # "none"
    /\ open' \in cLoaderResizeFile(open)
    /\ held' = [held EXCEPT !["program"] = @ \ {h}]
    /\ UNCHANGED <<usb, ext, table, prog, mods, fnof, log>>

FileRename ==
    /\ Running
    /\ open' \in cLoaderRenameFile(open)
    /\ UNCHANGED <<held, usb, ext, table, prog, mods, fnof, log>>

FileDelete ==
    /\ Running
    /\ open' \in cLoaderDeleteFile(open)
    /\ UNCHANGED <<held, usb, ext, table, prog, mods, fnof, log>>

\* A search is not entered in the table.
FileFindFirst ==
    /\ Running
    /\ \E r \in FindFirst(open, "program") :
          /\ open' = r.open
          /\ held' = [held EXCEPT !["program"] = IF r.h = NotAHandle THEN @ ELSE @ \cup {r.h}]
    /\ UNCHANGED <<usb, ext, table, prog, mods, fnof, log>>

FileFindNext(h) ==
    /\ Running
    /\ h \in held["program"]
    /\ \E found \in FindNext(open, h) : TRUE
    /\ UNCHANGED vars

\* The files are searched twice, to count and to copy; the search is closed before each step.
\* When there is no memory for the list, the second search stays open.
ListFiles ==
    /\ Running
    /\ \E counted \in Exists(open) :
          open' \in Exists(counted) \cup {Lose(r.open, r.h) : r \in FindFirst(counted, "lost")}
    /\ UNCHANGED <<held, usb, ext, table, prog, mods, fnof, log>>

\* IOMAPREAD and IOMAPWRITE by the name of a module: the search is closed, whoever has begun it.
IOMapAccess ==
    /\ Running
    /\ mods' = FALSE
    /\ UNCHANGED <<open, held, usb, ext, table, prog, fnof, log>>

(***************************************************************************)
(* A program's beginning and end.                                          *)
(***************************************************************************)
\* The files of the table are closed; a search that the program has not ended stays open.
CropTable(o) == [h \in Handles |-> IF table[h] # "none" THEN Hal_Fs_Truncate(o, h)[h] ELSE o[h]]

cCmdDeactivateProgram(o) ==
    LET ended == CropTable(Hal_Fs_Close(o, prog))
    IN [h \in Handles |-> IF ended[h].who = "program" /\ ended[h].mode = "search"
                          THEN [ended[h] EXCEPT !.who = "lost"] ELSE ended[h]]

\* The new program's file is opened, and then the old program is ended.  An empty file is refused
\* and stays open.
ActivateProgram ==
    /\ \E r \in OpenLocated(open, "image", "read") :
          \/ /\ r.h = NotAHandle
             /\ UNCHANGED vars
          \/ /\ r.h # NotAHandle
             /\ open' = Lose(r.open, r.h)
             /\ UNCHANGED <<held, table, prog>>
          \/ /\ r.h # NotAHandle
             /\ open' = cCmdDeactivateProgram(r.open)
             /\ held' = [held EXCEPT !["program"] = {}]
             /\ table' = [h \in Handles |-> "none"]
             /\ prog' = r.h
    /\ UNCHANGED <<usb, ext, mods, fnof, log>>

DeactivateProgram ==
    /\ Running
    /\ open' = cCmdDeactivateProgram(open)
    /\ held' = [held EXCEPT !["program"] = {}]
    /\ table' = [h \in Handles |-> "none"]
    /\ prog' = NotAHandle
    /\ UNCHANGED <<usb, ext, mods, fnof, log>>

\* A remote command that starts a program or plays a sound looks its file up.
RemoteStart(c) ==
    /\ Ready(c)
    /\ open' \in Exists(open)
    /\ UNCHANGED <<held, usb, ext, table, prog, mods, fnof, log>>

(***************************************************************************)
(* The menus.                                                              *)
(***************************************************************************)
\* cUiFindNoOfFiles and cUiFindNameForFileNo: one step in a round, a search from its first file...
FindFileBegin ==
    /\ fnof = NotAHandle
    /\ \E r \in FindFirst(open, "ui") :
          \/ /\ open' = r.open
             /\ fnof' = r.h
             /\ held' = [held EXCEPT !["ui"] = IF r.h = NotAHandle THEN @ ELSE @ \cup {r.h}]
          \/ /\ open' = Hal_Fs_Close(r.open, r.h)
             /\ UNCHANGED <<fnof, held>>
    /\ UNCHANGED <<usb, ext, table, prog, mods, log>>

\* ... to its last, or to the one that is looked for.
FindFileStep ==
    /\ fnof # NotAHandle
    /\ \E found \in FindNext(open, fnof), enough \in BOOLEAN :
          IF found /\ ~enough
          THEN UNCHANGED <<open, fnof, held>>
          ELSE /\ open' = Hal_Fs_Close(open, fnof)
               /\ held' = [held EXCEPT !["ui"] = @ \ {fnof}]
               /\ fnof' = NotAHandle
    /\ UNCHANGED <<usb, ext, table, prog, mods, log>>

\* A file that is there already is deleted before it is written anew.
Replaced(o) == UNION {{x} \cup cLoaderDeleteFile(x) : x \in Exists(o)}

DatalogBegin ==
    /\ log = NotAHandle
    /\ \E o \in Replaced(open) : \E r \in cLoaderCreateFile(o, "ui") :
          /\ open' = r.open
          /\ log' = r.h
          /\ held' = [held EXCEPT !["ui"] = IF r.h = NotAHandle THEN @ ELSE @ \cup {r.h}]
    /\ UNCHANGED <<usb, ext, table, prog, mods, fnof>>

DatalogEnd ==
    /\ log # NotAHandle
    /\ open' = Hal_Fs_Truncate(open, log)
    /\ held' = [held EXCEPT !["ui"] = @ \ {log}]
    /\ log' = NotAHandle
    /\ UNCHANGED <<usb, ext, table, prog, mods, fnof>>

\* A program of the menu and the settings: replaced, opened, written and closed in one go.
UiSaves ==
    /\ \E o \in Replaced(open) : \E r \in cLoaderCreateFile(o, "ui") : open' = Hal_Fs_Close(r.open, r.h)
    /\ UNCHANGED <<held, usb, ext, table, prog, mods, fnof, log>>

UiReads ==
    /\ \E r \in cLoaderOpenRead(open, "ui") : open' = Hal_Fs_Close(r.open, r.h)
    /\ UNCHANGED <<held, usb, ext, table, prog, mods, fnof, log>>

ChannelStep(c) ==
    \/ OpenWriteCommand(c) \/ OpenAppendCommand(c) \/ OpenReadCommand(c)
    \/ FindFirstCommand(c) \/ DeleteCommand(c) \/ RenameCommand(c) \/ RemoteStart(c)
    \/ FindFirstModule(c) \/ CloseModHandle(c)
    \/ \E h \in Handles :
          \/ FindNextCommand(c, h) \/ CloseCommand(c, h) \/ CropCommand(c, h)
          \/ \E whole \in BOOLEAN : WriteCommand(c, h, whole)
    \/ \E last \in BOOLEAN : ExtendedWrite(c, last)

ProgramStep ==
    \/ FileOpenRead \/ FileOpenWrite \/ FileOpenAppend \/ FileRename \/ FileDelete
    \/ FileFindFirst \/ ListFiles \/ IOMapAccess
    \/ \E h \in Handles : FileClose(h) \/ FileUse(h) \/ FileResolveHandle(h) \/ FileResize(h) \/ FileFindNext(h)

UiStep == FindFileBegin \/ FindFileStep \/ DatalogBegin \/ DatalogEnd \/ UiSaves \/ UiReads

Next ==
    \/ \E c \in Channels : ChannelStep(c)
    \/ StreamEnds \/ Cable \/ CableSeen \/ CableSeenMissing
    \/ ProgramStep \/ ActivateProgram \/ DeactivateProgram
    \/ UiStep

Spec == Init /\ [][Next]_vars

(***************************************************************************)
(* Properties.                                                             *)
(***************************************************************************)
\* Handles that the code itself will close for a client.
KeptFor(c) ==
    CASE c = "usb" -> usb.list
      [] c = "program" -> {h \in Handles : table[h] # "none"}
      [] OTHER -> {}

\* A handle that has been given out stays its client's until he closes it, whatever the others do
\* (numbers are reused, and closed by the program's end, by the cable and by the menus), and an
\* open handle has a client who can close it.  The exception is a number that a note of a cropped
\* file has closed; and only those notes are of files that are not USB's.
HandlesKept ==
    \A h \in Handles \ usb.struck :
        /\ \A c \in Clients : /\ h \in held[c] => open[h].who = c
                              /\ open[h].who = c => h \in held[c] \cup KeptFor(c)
        /\ h \in usb.list \ usb.cropped => open[h].who = "usb"

\* When the brick has noticed that the cable is gone, nothing that was opened over USB is open,
\* and no handle is noted: it would be closed at the next removal, then another's.
UsbReleased ==
    ~usb.state => /\ usb.list = {}
                  /\ \A h \in Handles : open[h].who # "usb"

\* FileHandleTable names the files that the program has open, and no others: a handle that is
\* resolved by name is open, and the program's end cuts off no file of another; but for a number
\* that a note of a cropped file has closed.
TableIsOpenFiles ==
    \A h \in Handles \ usb.struck :
        /\ table[h] = "r" => open[h] = [who |-> "program", mode |-> "read"]
        /\ table[h] = "w" => open[h] = [who |-> "program", mode |-> "write"]
        /\ open[h].who = "program" /\ open[h].mode # "search" => table[h] # "none"
        /\ open[h].who = "image" <=> h = prog

\* The later pieces of a long WRITE go to the file that the first went to, or nowhere, with the
\* same exception.
PiecesReachTheirFile ==
    \A c \in Channels : ext[c] \notin usb.struck \cup {NotAHandle} => open[ext[c]].who = c

\* The same without the exception.  A crop over USB and a removal of the cable refute it: a file
\* of the program, of the menus or of a host over Bluetooth is closed while it is in use.
NobodyIsStruck == usb.struck = {}
=============================================================================
