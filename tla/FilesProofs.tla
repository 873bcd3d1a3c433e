---------------------------- MODULE FilesProofs ----------------------------
(* Proofs about Files, for any number of handles: a handle stays its client's *)
(* until he closes it, nothing of USB outlives the cable, FileHandleTable is  *)
(* what the program has open, and the pieces of a long message reach their    *)
(* file; but for the numbers that the note of a file cropped over USB has     *)
(* closed behind somebody's back, about which nothing is claimed.             *)
EXTENDS Files, TLAPS

Entries == [who : Clients \cup {"image", "lost"}, mode : {"read", "write", "search"}] \cup {Closed}
Tables == [Handles -> Entries]

-----------------------------------------------------------------------------
(* The inductive invariant.                                                   *)

\* What a client holds is his, and his handles are held or will be closed for him; a note that is
\* not of a cropped file is of a file that is open.
Kept ==
    \A h \in Handles \ usb.struck :
        /\ \A c \in Clients : /\ h \in held[c] => open[h].who = c
                              /\ open[h].who = c => h \in held[c] \cup KeptFor(c)
        /\ h \in usb.list \ usb.cropped => open[h].who = "usb"

\* All handles that the host has are noted, and not as cropped, and so are those that he has left
\* open; without the cable he has none.
Listed ==
    /\ "usb" \in Channels /\ ~usb.present => held["usb"] = {}
    /\ "usb" \in Channels => held["usb"] \subseteq usb.list \ usb.cropped
    /\ \A h \in Handles : open[h].who = "usb" => h \in usb.list
    /\ usb.cropped \subseteq usb.list
    /\ ~usb.state => usb.list = {}

\* A long message is under way only over Bluetooth, on a handle that is held.
Pieces ==
    \A c \in Channels : ext[c] # NotAHandle => c = "bt" /\ ext[c] \in held[c]

\* The menus' search and log are two handles of theirs.
Menus ==
    /\ fnof \notin usb.struck \cup {NotAHandle} => fnof \in held["ui"]
    /\ log \notin usb.struck \cup {NotAHandle} => log \in held["ui"] /\ log # fnof

\* The same of usb as TypeOK says.
UsbType == [present : BOOLEAN, state : BOOLEAN, list : SUBSET Handles,
            cropped : SUBSET Handles, struck : SUBSET Handles]

IInv == TypeOK /\ Kept /\ Listed /\ Pieces /\ Menus /\ TableIsOpenFiles

-----------------------------------------------------------------------------
(* What requests to the file system and the loader give.                      *)

Granted(o, r, who, mode) ==
    \/ /\ r.h = NotAHandle
       /\ r.open = o
    \/ /\ r.h \in Handles
       /\ o[r.h] = Closed
       /\ r.open = [o EXCEPT ![r.h] = [who |-> who, mode |-> mode]]

\* Nothing but free handles has been taken, and those are lost.
LosesAtMost(o, p) ==
    /\ p \in Tables
    /\ \A h \in Handles : p[h] = o[h] \/ (o[h] = Closed /\ p[h].who = "lost")

LEMMA NoHandle == NotAHandle \notin Handles
  BY FilesConstants DEF NotAHandle, Handles

LEMMA Locates ==
    ASSUME NEW o \in Tables, NEW who, NEW mode, NEW r \in Hal_Fs_Locate(o, who, mode)
    PROVE  Granted(o, r, who, mode)
  BY DEF Hal_Fs_Locate, Refused, Granted

\* Closing no handle changes nothing, and closing what has just been given out takes it back.
LEMMA Closes ==
    ASSUME NEW o \in Tables, NEW who, NEW mode, NEW r, Granted(o, r, who, mode)
    PROVE  Hal_Fs_Close(r.open, r.h) = o
  <1>1. CASE r.h = NotAHandle /\ r.open = o
    BY <1>1, NoHandle DEF Hal_Fs_Close, Tables
  <1>2. CASE /\ r.h \in Handles
             /\ o[r.h] = Closed
             /\ r.open = [o EXCEPT ![r.h] = [who |-> who, mode |-> mode]]
    BY <1>2 DEF Hal_Fs_Close, Tables
  <1> QED BY <1>1, <1>2 DEF Granted

LEMMA CreateGrants ==
    ASSUME NEW o \in Tables, NEW who, NEW r \in cLoaderCreateFile(o, who)
    PROVE  Granted(o, r, who, "write")
  <1>1. PICK s \in Hal_Fs_Locate(o, who, "write") :
            r = [s EXCEPT !.open = IF s.h = NotAHandle THEN Hal_Fs_Close(@, s.h) ELSE @]
    BY DEF cLoaderCreateFile, Hal_Fs_CreateWrite
  <1>2. s = [open |-> s.open, h |-> s.h]
    BY DEF Hal_Fs_Locate, Refused
  <1>3. Granted(o, s, who, "write") BY Locates
  <1>4. r = s BY <1>1, <1>2, <1>3, Closes, NoHandle DEF Granted
  <1> QED BY <1>3, <1>4

LEMMA FindGrants ==
    ASSUME NEW o \in Tables, NEW who, NEW r \in FindFirst(o, who)
    PROVE  Granted(o, r, who, "search")
  <1>1. PICK s \in Hal_Fs_Locate(o, who, "search") :
            r = [s EXCEPT !.open = IF s.h = NotAHandle THEN Hal_Fs_Close(@, s.h) ELSE @]
    BY DEF FindFirst
  <1>2. s = [open |-> s.open, h |-> s.h]
    BY DEF Hal_Fs_Locate, Refused
  <1>3. Granted(o, s, who, "search") BY Locates
  <1>4. r = s BY <1>1, <1>2, <1>3, Closes, NoHandle DEF Granted
  <1> QED BY <1>3, <1>4

LEMMA OpenGrants ==
    ASSUME NEW o \in Tables, NEW who, NEW mode, NEW r \in OpenLocated(o, who, mode)
    PROVE  Granted(o, r, who, mode)
  <1>1. PICK s \in Hal_Fs_Locate(o, who, mode) : r = s \/ r = Refused(Hal_Fs_Close(s.open, s.h))
    BY DEF OpenLocated
  <1>2. Granted(o, s, who, mode) BY Locates
  <1>3. r = s \/ r = Refused(o) BY <1>1, <1>2, Closes
  <1>4. Granted(o, Refused(o), who, mode) BY DEF Granted, Refused
  <1> QED BY <1>2, <1>3, <1>4

LEMMA LosesNothing == ASSUME NEW o \in Tables PROVE LosesAtMost(o, o)
  BY DEF LosesAtMost

LEMMA LosesTransitive ==
    ASSUME NEW o \in Tables, NEW p, NEW q, LosesAtMost(o, p), LosesAtMost(p, q)
    PROVE  LosesAtMost(o, q)
  BY DEF LosesAtMost, Closed

\* A handle that stays open when its request is over is lost.
LEMMA Leaves ==
    ASSUME NEW o \in Tables, NEW who, NEW mode \in {"read", "write", "search"}, NEW r,
           Granted(o, r, who, mode)
    PROVE  LosesAtMost(o, Lose(r.open, r.h))
  <1>1. CASE r.h = NotAHandle /\ r.open = o
    <2>1. Lose(r.open, r.h) = o BY <1>1, NoHandle DEF Lose, Tables
    <2> QED BY <2>1, LosesNothing
  <1>2. CASE /\ r.h \in Handles
             /\ o[r.h] = Closed
             /\ r.open = [o EXCEPT ![r.h] = [who |-> who, mode |-> mode]]
    <2> DEFINE k == r.h
               e == [who |-> who, mode |-> mode]
               f == [who |-> "lost", mode |-> mode]
               p == Lose(r.open, k)
    <2>1. [e EXCEPT !.who = "lost"] = f OBVIOUS
    <2>2. \A h \in Handles : r.open[h] = IF h = k THEN e ELSE o[h] BY <1>2 DEF Tables
    <2>3. \A h \in Handles : p[h] = IF h = k THEN f ELSE o[h] BY <2>1, <2>2 DEF Lose
    <2>4. f \in Entries /\ f.who = "lost" BY DEF Entries
    <2>5. p \in Tables BY <2>3, <2>4 DEF Tables, Lose
    <2> HIDE DEF p, f
    <2>6. LosesAtMost(o, p) BY <1>2, <2>3, <2>4, <2>5 DEF LosesAtMost
    <2> QED BY <2>6 DEF p
  <1> QED BY <1>1, <1>2 DEF Granted

LEMMA ExistsKeeps == ASSUME NEW o \in Tables, NEW p \in Exists(o) PROVE p = o
  <1>1. PICK r \in FindFirst(o, "lost") : p = Hal_Fs_Close(r.open, r.h) BY DEF Exists
  <1> QED BY <1>1, FindGrants, Closes

LEMMA DeleteLoses == ASSUME NEW o \in Tables, NEW p \in cLoaderDeleteFile(o) PROVE LosesAtMost(o, p)
  <1>1. PICK r \in Hal_Fs_Locate(o, "lost", "search") :
            p = Hal_Fs_Close(r.open, r.h) \/ p = Lose(r.open, r.h)
    BY DEF cLoaderDeleteFile
  <1>2. Granted(o, r, "lost", "search") BY Locates
  <1> QED BY <1>1, <1>2, Closes, Leaves, LosesNothing

LEMMA ResizeLoses == ASSUME NEW o \in Tables, NEW p \in cLoaderResizeFile(o) PROVE LosesAtMost(o, p)
  <1>1. PICK r \in Hal_Fs_Locate(o, "lost", "search") : p = Lose(r.open, r.h)
    BY DEF cLoaderResizeFile
  <1> QED BY <1>1, Locates, Leaves

LEMMA RenameKeeps == ASSUME NEW o \in Tables, NEW p \in cLoaderRenameFile(o) PROVE p = o
  <1>1. PICK r \in Hal_Fs_Locate(o, "lost", "search") :
          p \in {Hal_Fs_Close(s.open, s.h) : s \in Hal_Fs_Locate(Hal_Fs_Close(r.open, r.h), "lost", "search")}
    BY DEF cLoaderRenameFile
  <1>2. Hal_Fs_Close(r.open, r.h) = o BY Locates, Closes
  <1>3. PICK s \in Hal_Fs_Locate(o, "lost", "search") : p = Hal_Fs_Close(s.open, s.h) BY <1>1, <1>2
  <1> QED BY <1>3, Locates, Closes

LEMMA ReplacedLoses == ASSUME NEW o \in Tables, NEW p \in Replaced(o) PROVE LosesAtMost(o, p)
  <1>1. PICK x \in Exists(o) : p = x \/ p \in cLoaderDeleteFile(x) BY DEF Replaced
  <1>2. x = o BY ExistsKeeps
  <1> QED BY <1>1, <1>2, DeleteLoses, LosesNothing

LEMMA ListLoses ==
    ASSUME NEW o \in Tables, NEW counted \in Exists(o),
           NEW p \in Exists(counted) \cup {Lose(r.open, r.h) : r \in FindFirst(counted, "lost")}
    PROVE  LosesAtMost(o, p)
  <1>1. counted = o BY ExistsKeeps
  <1>2. CASE p \in Exists(o) BY <1>2, ExistsKeeps, LosesNothing
  <1>3. CASE \E r \in FindFirst(o, "lost") : p = Lose(r.open, r.h)
    BY <1>3, FindGrants, Leaves
  <1> QED BY <1>1, <1>2, <1>3

-----------------------------------------------------------------------------
(* Steps.                                                                     *)

LEMMA Strangers ==
    /\ "none" \notin Clients /\ "lost" \notin Clients /\ "image" \notin Clients
    /\ "program" \in Clients /\ "ui" \in Clients
    /\ "program" \notin Channels /\ "ui" \notin Channels
    /\ Channels \subseteq Clients
  BY FilesConstants DEF Clients

LEMMA OpenType == TypeOK => open \in Tables
  BY DEF TypeOK, Tables, Entries

\* What Kept says of a client and of a number that has not come to harm.
LEMMA KeptAt ==
    ASSUME Kept, NEW c \in Clients, NEW h \in Handles, h \notin usb.struck
    PROVE  /\ h \in held[c] => open[h].who = c
           /\ open[h].who = c => h \in held[c] \cup KeptFor(c)
  <1>1. h \in Handles \ usb.struck OBVIOUS
  <1> QED BY <1>1, Zenon DEF Kept

LEMMA Initially == Init => IInv
  <1> SUFFICES ASSUME Init PROVE IInv OBVIOUS
  <1> USE DEF Init
  <1>1. TypeOK BY DEF TypeOK, Place
  <1>2. \A h \in Handles : open[h].who = "none" /\ table[h] = "none" BY DEF Closed
  <1>3. \A c \in Clients : held[c] = {} OBVIOUS
  <1>4. Kept BY <1>2, <1>3, Strangers DEF Kept
  <1>5. Listed BY <1>2, <1>3, Strangers DEF Listed
  <1>6. Pieces /\ Menus BY DEF Pieces, Menus
  <1>7. TableIsOpenFiles BY <1>2, NoHandle DEF TableIsOpenFiles
  <1> QED BY <1>1, <1>4, <1>5, <1>6, <1>7 DEF IInv

LEMMA Stutters == IInv /\ UNCHANGED vars => IInv'
  BY DEF vars, IInv, TypeOK, Kept, Listed, Pieces, Menus, TableIsOpenFiles, KeptFor

\* A request that leaves at most lost handles behind disturbs nobody.
LEMMA LosingKeeps ==
    ASSUME IInv, LosesAtMost(open, open'), UNCHANGED <<held, usb, ext, table, prog, mods, fnof, log>>
    PROVE  IInv'
  <1> USE DEF IInv
  <1>1. open' \in Tables BY DEF LosesAtMost
  <1>2. TypeOK' BY <1>1 DEF TypeOK, Tables, Entries
  <1>3. \A h \in Handles : open[h].who # "none" => open'[h] = open[h]
    BY DEF LosesAtMost, Closed
  <1>4. \A h \in Handles : open'[h] = open[h] \/ (open[h].who = "none" /\ open'[h].who = "lost")
    BY DEF LosesAtMost, Closed
  <1>5. Kept' BY <1>3, <1>4, Strangers DEF Kept, KeptFor
  <1>7. Listed' BY <1>4 DEF Listed
  <1>8. Pieces' /\ Menus' BY DEF Pieces, Menus
  <1>9. TableIsOpenFiles' BY <1>3, <1>4 DEF TableIsOpenFiles
  <1> QED BY <1>2, <1>5, <1>7, <1>8, <1>9

\* A handle that is given out was nobody's: it is not held, not in the table, and if it is noted then
\* as cropped; unless it has come to harm.
LEMMA FreeIsNobodys ==
    ASSUME IInv, NEW h \in Handles, h \notin usb.struck, open[h] = Closed
    PROVE  /\ \A c \in Clients : h \notin held[c]
           /\ h \notin usb.list \ usb.cropped
           /\ table[h] = "none"
           /\ h # prog /\ h # fnof /\ h # log
  <1> USE DEF IInv
  <1>1. open[h].who = "none" /\ open[h].mode = "none" BY DEF Closed
  <1>2. \A c \in Clients : h \notin held[c] BY <1>1, KeptAt, Strangers
  <1>3. h \notin usb.list \ usb.cropped BY <1>1 DEF Kept
  <1>4. table[h] = "none" BY <1>1 DEF TableIsOpenFiles, TypeOK
  <1>5. h # prog BY <1>1 DEF TableIsOpenFiles
  <1>6. h # fnof /\ h # log BY <1>2, NoHandle, Strangers DEF Menus
  <1> QED BY <1>2, <1>3, <1>4, <1>5, <1>6


\* The client c is given the handle k, after a request that has left at most lost handles.
Takes(c, k, mode, o) ==
    /\ k \in Handles
    /\ c = "usb" => usb.present
    /\ LosesAtMost(open, o)
    /\ o[k] = Closed
    /\ open' = [o EXCEPT ![k] = [who |-> c, mode |-> mode]]
    /\ held' = [held EXCEPT ![c] = @ \cup {k}]
    /\ usb' = [usb EXCEPT !.list = IF c = "usb" THEN @ \cup {k} ELSE @, !.state = @ \/ c = "usb",
                          !.cropped = IF c = "usb" THEN @ \ {k} ELSE @]
    /\ table' = IF c = "program" /\ mode # "search"
                THEN [table EXCEPT ![k] = IF mode = "read" THEN "r" ELSE "w"] ELSE table
    /\ fnof' = fnof \/ (c = "ui" /\ fnof' = k /\ log' = log)
    /\ log' = log \/ (c = "ui" /\ log' = k /\ fnof' = fnof)
    /\ UNCHANGED <<ext, prog, mods>>

LEMMA TakingKeeps ==
    ASSUME IInv, NEW c \in Clients, NEW k, NEW mode \in {"read", "write", "search"}, NEW o,
           Takes(c, k, mode, o)
    PROVE  IInv'
  <1> USE DEF IInv
  <1> DEFINE e == [who |-> c, mode |-> mode]
  <1>1. k \in Handles /\ k # NotAHandle BY NoHandle DEF Takes
  <1>2. o \in Tables BY DEF Takes, LosesAtMost
  <1>3. e.who = c /\ e.mode = mode /\ e \in Entries BY DEF Entries
  <1>4. open' = [o EXCEPT ![k] = e] BY DEF Takes
  <1> HIDE DEF e
  <1>5. open' \in Tables BY <1>1, <1>2, <1>3, <1>4 DEF Tables
  <1>6. open[k] = Closed BY <1>1 DEF Takes, LosesAtMost, Closed
  <1>7. k \notin usb.struck => /\ \A d \in Clients : k \notin held[d]
                               /\ k \notin usb.list \ usb.cropped
                               /\ table[k] = "none"
                               /\ k # prog /\ k # fnof /\ k # log
    BY <1>1, <1>6, FreeIsNobodys
  <1>8. \A h \in Handles : \/ h = k /\ open'[h] = e
                           \/ h # k /\ open'[h] = open[h]
                           \/ h # k /\ open[h].who = "none" /\ open'[h].who = "lost"
    BY <1>1, <1>2, <1>4 DEF Takes, LosesAtMost, Closed, Tables
  <1>9. \A h \in Handles : h # k /\ open[h].who # "none" => open'[h] = open[h]
    BY <1>8
  <1>10. \A d \in Clients : held'[d] = IF d = c THEN held[c] \cup {k} ELSE held[d]
    BY DEF Takes, TypeOK
  <1>11. /\ usb' \in UsbType
         /\ usb'.list = IF c = "usb" THEN usb.list \cup {k} ELSE usb.list
         /\ usb'.cropped = IF c = "usb" THEN usb.cropped \ {k} ELSE usb.cropped
         /\ usb'.struck = usb.struck
         /\ ~usb'.state => ~usb.state /\ c # "usb"
         /\ ~usb'.present => ~usb.present /\ c # "usb"
    BY <1>1 DEF Takes, TypeOK, UsbType
  <1>12. /\ table' \in [Handles -> {"none", "r", "w"}]
         /\ \A h \in Handles : h # k => table'[h] = table[h]
         /\ k \notin usb.struck /\ (c # "program" \/ mode = "search") => table'[k] = "none"
         /\ c = "program" /\ mode = "read" => table'[k] = "r"
         /\ c = "program" /\ mode = "write" => table'[k] = "w"
    BY <1>1, <1>7 DEF Takes, TypeOK
  <1>13. UNCHANGED <<ext, prog, mods>> BY DEF Takes
  <1>14. TypeOK'
    <2>1. held' \in [Clients -> SUBSET Handles] BY <1>1 DEF Takes, TypeOK
    <2>2. fnof' \in Place /\ log' \in Place BY <1>1 DEF Takes, TypeOK, Place
    <2> QED BY <1>5, <1>11, <1>12, <1>13, <2>1, <2>2 DEF TypeOK, UsbType, Tables, Entries
  <1>15. ASSUME NEW d \in Clients, NEW h \in Handles, h \notin usb.struck
         PROVE  /\ h \in held'[d] => open'[h].who = d
                /\ open'[h].who = d => h \in held'[d] \cup KeptFor(d)'
    <2>1. CASE h = k BY <1>15, <2>1, <1>3, <1>7, <1>8, <1>10
    <2>2. CASE h # k /\ open'[h] = open[h]
      <3>1. h \in held'[d] <=> h \in held[d] BY <2>2, <1>10
      <3>2. h \in KeptFor(d) => h \in KeptFor(d)' BY <2>2, <1>11, <1>12 DEF KeptFor
      <3> QED BY <1>15, <2>2, <3>1, <3>2, KeptAt
    <2>3. CASE h # k /\ open[h].who = "none" /\ open'[h].who = "lost"
      BY <1>15, <2>3, <1>10, KeptAt, Strangers
    <2> QED BY <1>8, <2>1, <2>2, <2>3
  <1>20. ASSUME NEW h \in Handles, h \notin usb.struck, h \in usb'.list \ usb'.cropped
         PROVE  open'[h].who = "usb"
    <2>1. CASE h = k BY <1>20, <2>1, <1>3, <1>7, <1>8, <1>11
    <2>2. CASE h # k
      <3>1. open[h].who = "usb" BY <1>20, <2>2, <1>11 DEF Kept
      <3> QED BY <2>2, <3>1, <1>9
    <2> QED BY <2>1, <2>2
  <1>21. Kept' BY <1>11, <1>15, <1>20 DEF Kept
  <1>16. Listed'
    <2>1. ASSUME NEW h \in Handles, open'[h].who = "usb" PROVE h \in usb'.list
      BY <2>1, <1>3, <1>8, <1>11 DEF Listed
    <2>2. "usb" \in Channels => held'["usb"] \subseteq usb'.list \ usb'.cropped
      BY <1>10, <1>11, Strangers DEF Listed
    <2>3. ~usb'.state => usb'.list = {} BY <1>11 DEF Listed
    <2>4. "usb" \in Channels /\ ~usb'.present => held'["usb"] = {}
      BY <1>10, <1>11, Strangers DEF Listed
    <2>5. usb'.cropped \subseteq usb'.list BY <1>11 DEF Listed
    <2> QED BY <2>1, <2>2, <2>3, <2>4, <2>5 DEF Listed
  <1>17. Pieces' BY <1>10, <1>13, Strangers DEF Pieces
  <1>18. Menus' BY <1>7, <1>10, <1>11, Strangers DEF Menus, Takes
  <1>19. TableIsOpenFiles'
    <2> SUFFICES ASSUME NEW h \in Handles, h \notin usb.struck
                 PROVE  /\ table'[h] = "r" => open'[h] = [who |-> "program", mode |-> "read"]
                        /\ table'[h] = "w" => open'[h] = [who |-> "program", mode |-> "write"]
                        /\ open'[h].who = "program" /\ open'[h].mode # "search" => table'[h] # "none"
                        /\ open'[h].who = "image" <=> h = prog'
      BY <1>11 DEF TableIsOpenFiles
    <2>1. CASE h = k BY <2>1, <1>3, <1>7, <1>8, <1>12, <1>13, Strangers DEF e
    <2>2. CASE h # k /\ open'[h] = open[h] BY <2>2, <1>12, <1>13 DEF TableIsOpenFiles
    <2>3. CASE h # k /\ open[h].who = "none" /\ open'[h].who = "lost"
      BY <2>3, <1>12, <1>13 DEF TableIsOpenFiles, TypeOK
    <2> QED BY <1>8, <2>1, <2>2, <2>3
  <1> QED BY <1>14, <1>16, <1>17, <1>18, <1>19, <1>21

\* The client c gives the handle k back, and with it every note of it, or he crops its file and the
\* note is left; unless k has come to harm he has it, and nobody else.
Returns(c, k) ==
    /\ k \in Handles
    /\ k \notin usb.struck \/ c = "usb" => k \in held[c]
    /\ c \in Channels => ext[c] = NotAHandle
    /\ open' = Hal_Fs_Close(open, k)
    /\ held' = [held EXCEPT ![c] = @ \ {k}]
    /\ \/ usb' = [usb EXCEPT !.list = IF c = "usb" THEN @ \ {k} ELSE @]
       \/ usb' = [usb EXCEPT !.cropped = IF c = "usb" THEN @ \cup {k} ELSE @]
    /\ table' = IF c = "program" THEN [table EXCEPT ![k] = "none"] ELSE table
    /\ fnof' = fnof \/ (fnof = k /\ fnof' = NotAHandle)
    /\ log' = log \/ (log = k /\ log' = NotAHandle)
    /\ k \notin usb.struck => fnof' # k /\ log' # k
    /\ UNCHANGED <<ext, prog, mods>>

LEMMA ReturningKeeps ==
    ASSUME IInv, NEW c \in Clients, NEW k, Returns(c, k)
    PROVE  IInv'
  <1> USE DEF IInv
  <1>1. k \in Handles /\ k # NotAHandle BY NoHandle DEF Returns
  <1>2. k \notin usb.struck => /\ open[k].who = c
                               /\ \A d \in Clients : k \in held[d] => d = c
    BY <1>1, KeptAt DEF Returns
  <1>3. \A h \in Handles : open'[h] = IF h = k THEN Closed ELSE open[h]
    BY DEF Returns, Hal_Fs_Close
  <1>4. \A d \in Clients : held'[d] = IF d = c THEN held[c] \ {k} ELSE held[d]
    BY DEF Returns, TypeOK
  <1>5. /\ usb' \in UsbType
        /\ usb'.struck = usb.struck
        /\ usb'.state = usb.state
        /\ usb'.present = usb.present
        /\ c # "usb" => usb'.list = usb.list /\ usb'.cropped = usb.cropped
        /\ c = "usb" => \/ usb'.list = usb.list \ {k} /\ usb'.cropped = usb.cropped
                        \/ usb'.list = usb.list /\ usb'.cropped = usb.cropped \cup {k}
    BY <1>1 DEF Returns, TypeOK, UsbType
  <1>6. k \notin usb.struck => k \notin usb'.list \ usb'.cropped BY <1>1, <1>2, <1>5 DEF Kept
  <1>7. k \notin usb.struck /\ table[k] # "none" => c = "program"
    BY <1>1, <1>2 DEF TableIsOpenFiles, TypeOK
  <1>8. /\ table' \in [Handles -> {"none", "r", "w"}]
        /\ \A h \in Handles : h # k => table'[h] = table[h]
        /\ k \notin usb.struck => table'[k] = "none"
    BY <1>1, <1>7 DEF Returns, TypeOK
  <1>9. UNCHANGED <<ext, prog, mods>> BY DEF Returns
  <1>10. TypeOK'
    <2>1. open' \in Tables
      BY OpenType DEF Returns, Hal_Fs_Close, Tables, Entries
    <2>2. held' \in [Clients -> SUBSET Handles] BY DEF Returns, TypeOK
    <2>3. fnof' \in Place /\ log' \in Place BY DEF Returns, TypeOK, Place
    <2> QED BY <1>5, <1>8, <1>9, <2>1, <2>2, <2>3 DEF TypeOK, UsbType, Tables, Entries
  <1>11. ASSUME NEW d \in Clients, NEW h \in Handles, h \notin usb.struck
         PROVE  /\ h \in held'[d] => open'[h].who = d
                /\ open'[h].who = d => h \in held'[d] \cup KeptFor(d)'
    <2>1. CASE h = k BY <1>11, <2>1, <1>2, <1>3, <1>4, Strangers DEF Closed
    <2>2. CASE h # k
      <3>1. h \in held'[d] <=> h \in held[d] BY <2>2, <1>4
      <3>2. h \in KeptFor(d) => h \in KeptFor(d)' BY <2>2, <1>5, <1>8 DEF KeptFor
      <3> QED BY <1>11, <2>2, <1>3, <3>1, <3>2, KeptAt
    <2> QED BY <2>1, <2>2
  <1>12. ASSUME NEW h \in Handles, h \notin usb.struck, h \in usb'.list \ usb'.cropped
         PROVE  open'[h].who = "usb"
    <2>1. h # k BY <1>6, <1>12
    <2>2. h \in usb.list \ usb.cropped BY <1>5, <1>12
    <2> QED BY <1>3, <1>12, <2>1, <2>2 DEF Kept
  <1>13. Kept' BY <1>5, <1>11, <1>12 DEF Kept
  <1>14. Listed'
    <2>1. \A h \in Handles : open'[h].who = "usb" => h \in usb'.list
      BY <1>3, <1>5 DEF Listed, Closed
    <2>2. "usb" \in Channels => held'["usb"] \subseteq usb'.list \ usb'.cropped
      BY <1>4, <1>5, Strangers DEF Listed
    <2>3. ~usb'.state => usb'.list = {} BY <1>5 DEF Listed
    <2>4. "usb" \in Channels /\ ~usb'.present => held'["usb"] = {}
      BY <1>4, <1>5, Strangers DEF Listed
    <2>5. usb'.cropped \subseteq usb'.list
      <3>1. c = "usb" => "usb" \in Channels BY Strangers DEF Clients
      <3>2. c = "usb" => k \in usb.list \ usb.cropped BY <3>1 DEF Returns, Listed
      <3> QED BY <1>5, <3>2 DEF Listed
    <2> QED BY <2>1, <2>2, <2>3, <2>4, <2>5 DEF Listed
  <1>15. Pieces' BY <1>4, <1>9, Strangers DEF Pieces, Returns
  <1>16. Menus' BY <1>1, <1>4, <1>5, Strangers DEF Menus, Returns
  <1>17. k \notin usb.struck => k # prog BY <1>1, <1>2, Strangers DEF TableIsOpenFiles
  <1>18. TableIsOpenFiles'
    BY <1>3, <1>5, <1>8, <1>9, <1>17 DEF TableIsOpenFiles, Closed
  <1> QED BY <1>10, <1>13, <1>14, <1>15, <1>16, <1>18

-----------------------------------------------------------------------------
(* The actions.                                                               *)

\* A channel's request that gives out a handle.
LEMMA GivenKeeps ==
    ASSUME IInv, NEW c \in Channels, NEW mode \in {"read", "write", "search"}, NEW r,
           Ready(c), Granted(open, r, c, mode), Given(c, r, mode),
           UNCHANGED <<ext, table, prog, mods, fnof, log>>
    PROVE  IInv'
  <1>1. CASE r.h = NotAHandle /\ r.open = open
    <2>1. open' = open /\ held' = held BY <1>1 DEF Given, IInv, TypeOK
    <2>2. /\ usb'.list = usb.list /\ usb'.cropped = usb.cropped /\ usb'.struck = usb.struck
          /\ usb.state => usb'.state
          /\ usb'.present = usb.present
          /\ usb' \in UsbType
      <3>1. usb.cropped \ {r.h} = usb.cropped BY <1>1, NoHandle DEF IInv, TypeOK
      <3> QED BY <1>1, <3>1 DEF Given, Noted, IInv, TypeOK, UsbType
    <2> QED BY <2>1, <2>2
        DEF IInv, TypeOK, UsbType, Kept, KeptFor, Listed, Pieces, Menus, TableIsOpenFiles
  <1>2. CASE /\ r.h \in Handles
             /\ open[r.h] = Closed
             /\ r.open = [open EXCEPT ![r.h] = [who |-> c, mode |-> mode]]
    <2>1. Takes(c, r.h, mode, open)
      BY <1>2, NoHandle, Strangers, OpenType, LosesNothing DEF Takes, Given, Noted, IInv, Ready
    <2> QED BY <2>1, TakingKeeps, Strangers
  <1> QED BY <1>1, <1>2 DEF Granted

\* The search for modules concerns no file.
LEMMA SearchingKeeps ==
    ASSUME IInv, mods' \in BOOLEAN, UNCHANGED <<open, held, usb, ext, table, prog, fnof, log>>
    PROVE  IInv'
  <1> USE DEF IInv
  <1>1. TypeOK' BY DEF TypeOK
  <1>2. Kept' BY DEF Kept, KeptFor
  <1>3. Listed' /\ Pieces' /\ Menus' BY DEF Listed, Pieces, Menus
  <1>4. TableIsOpenFiles' BY DEF TableIsOpenFiles
  <1> QED BY <1>1, <1>2, <1>3, <1>4

LEMMA ChannelKeeps == ASSUME IInv, NEW c \in Channels, ChannelStep(c) PROVE IInv'
  <1> USE OpenType DEF IInv
  <1>1. CASE OpenWriteCommand(c) BY <1>1, CreateGrants, GivenKeeps DEF OpenWriteCommand
  <1>2. CASE OpenAppendCommand(c)
    BY <1>2, OpenGrants, GivenKeeps DEF OpenAppendCommand, cLoaderOpenAppend
  <1>3. CASE OpenReadCommand(c)
    BY <1>3, OpenGrants, GivenKeeps DEF OpenReadCommand, cLoaderOpenRead
  <1>4. CASE FindFirstCommand(c) BY <1>4, FindGrants, GivenKeeps DEF FindFirstCommand
  <1>5. CASE DeleteCommand(c) BY <1>5, DeleteLoses, LosingKeeps DEF DeleteCommand
  <1>6. CASE RenameCommand(c)
    BY <1>6, RenameKeeps, LosesNothing, LosingKeeps DEF RenameCommand
  <1>7. CASE RemoteStart(c) BY <1>7, ExistsKeeps, LosesNothing, LosingKeeps DEF RemoteStart
  <1>8. CASE FindFirstModule(c) \/ CloseModHandle(c)
    BY <1>8, SearchingKeeps DEF FindFirstModule, CloseModHandle
  <1>9. ASSUME NEW h \in Handles, FindNextCommand(c, h) PROVE IInv'
    BY <1>9, Stutters DEF FindNextCommand
  <1>10. ASSUME NEW h \in Handles, CloseCommand(c, h) PROVE IInv'
    <2>1. h \notin usb.struck => open[h].who = c BY <1>10, KeptAt, Strangers DEF CloseCommand
    <2>2. h \notin usb.struck => fnof # h /\ log # h BY <2>1, KeptAt, NoHandle, Strangers DEF Menus
    <2>3. Returns(c, h) BY <1>10, <2>2, Strangers DEF CloseCommand, Ready, Unnoted, Returns, TypeOK
    <2> QED BY <2>3, ReturningKeeps, Strangers
  <1>11. ASSUME NEW h \in Handles, CropCommand(c, h) PROVE IInv'
    <2>1. h \notin usb.struck => open[h].who = c BY <1>11, KeptAt, Strangers DEF CropCommand
    <2>2. h \notin usb.struck => fnof # h /\ log # h BY <2>1, KeptAt, NoHandle, Strangers DEF Menus
    <2>3. Returns(c, h)
      BY <1>11, <2>2, Strangers DEF CropCommand, Hal_Fs_Truncate, Ready, Returns, TypeOK
    <2> QED BY <2>3, ReturningKeeps, Strangers
  <1>12. ASSUME NEW h \in Handles, NEW whole \in BOOLEAN, WriteCommand(c, h, whole) PROVE IInv'
    <2>1. ext' \in [Channels -> Place] BY <1>12 DEF WriteCommand, TypeOK, Place
    <2>2. Pieces' BY <1>12, FilesConstants DEF WriteCommand, Pieces, TypeOK
    <2> QED BY <1>12, <2>1, <2>2
        DEF WriteCommand, TypeOK, Kept, KeptFor, Listed, Menus, TableIsOpenFiles
  <1>13. ASSUME NEW last \in BOOLEAN, ExtendedWrite(c, last) PROVE IInv'
    <2>1. ext' \in [Channels -> Place] BY <1>13 DEF ExtendedWrite, TypeOK, Place
    <2>2. Pieces' BY <1>13 DEF ExtendedWrite, Pieces, TypeOK
    <2> QED BY <1>13, <2>1, <2>2
        DEF ExtendedWrite, TypeOK, Kept, KeptFor, Listed, Menus, TableIsOpenFiles
  <1> QED BY <1>1, <1>2, <1>3, <1>4, <1>5, <1>6, <1>7, <1>8, <1>9, <1>10, <1>11, <1>12, <1>13
      DEF ChannelStep

LEMMA StreamEndsKeeps == ASSUME IInv, StreamEnds PROVE IInv'
  <1> USE DEF IInv, StreamEnds
  <1>1. \A h \in Handles : open'[h] = IF open[h].who = "bt" THEN [open[h] EXCEPT !.who = "lost"]
                                      ELSE open[h]
    OBVIOUS
  <1>2. \A e \in Entries : e.who = "bt" => /\ [e EXCEPT !.who = "lost"] \in Entries
                                           /\ [e EXCEPT !.who = "lost"].who = "lost"
    BY Strangers DEF Entries, Closed
  <1>3. \A h \in Handles : open[h] \in Entries BY OpenType DEF Tables
  <1>4. \A h \in Handles : \/ open'[h] = open[h] /\ open[h].who # "bt"
                           \/ open[h].who = "bt" /\ open'[h].who = "lost"
    BY <1>1, <1>2, <1>3
  <1>5. open' \in Tables BY <1>1, <1>2, <1>3 DEF Tables
  <1>6. \A c \in Clients : held'[c] = IF c = "bt" THEN {} ELSE held[c] BY DEF TypeOK
  <1>7. TypeOK'
    <2>1. held' \in [Clients -> SUBSET Handles] BY DEF TypeOK
    <2>2. ext' \in [Channels -> Place] BY DEF Place
    <2> QED BY <1>5, <2>1, <2>2 DEF TypeOK, Tables, Entries
  <1>8. "bt" \in Clients BY Strangers
  <1>9. Kept' BY <1>4, <1>6, <1>8, Strangers DEF Kept, KeptFor
  <1>11. Listed' BY <1>4, <1>6, Strangers DEF Listed
  <1>12. Pieces' /\ Menus' BY <1>6, Strangers DEF Pieces, Menus
  <1>13. TableIsOpenFiles' BY <1>4 DEF TableIsOpenFiles
  <1> QED BY <1>7, <1>9, <1>11, <1>12, <1>13

LEMMA CableKeeps == ASSUME IInv, Cable PROVE IInv'
  <1> USE DEF IInv, Cable
  <1>1. \A c \in Clients : held'[c] = IF c = "usb" THEN {} ELSE held[c] BY DEF TypeOK
  <1>2. /\ usb'.list = usb.list /\ usb'.state = usb.state
        /\ usb'.cropped = usb.cropped /\ usb'.struck = usb.struck
    BY DEF TypeOK
  <1>3. TypeOK' BY DEF TypeOK
  <1>4. Kept' BY <1>1, <1>2, Strangers DEF Kept, KeptFor, Listed
  <1>5. Listed' BY <1>1, <1>2, Strangers DEF Listed
  <1>6. Pieces' /\ Menus' BY <1>1, <1>2, Strangers DEF Pieces, Menus
  <1>7. TableIsOpenFiles' BY <1>2 DEF TableIsOpenFiles
  <1> QED BY <1>3, <1>4, <1>5, <1>6, <1>7

LEMMA CableSeenKeeps == ASSUME IInv, CableSeen PROVE IInv'
  <1> USE DEF IInv, CableSeen
  <1>1. /\ usb' \in UsbType
        /\ usb'.list = usb.list /\ usb'.state /\ usb'.present = usb.present
        /\ usb'.cropped = usb.cropped /\ usb'.struck = usb.struck
    BY DEF TypeOK, UsbType
  <1> QED BY <1>1 DEF TypeOK, UsbType, Kept, KeptFor, Listed, Pieces, Menus, TableIsOpenFiles

\* A number that is closed by a note was USB's, or nobody's, or comes to harm.
LEMMA CableMissingKeeps == ASSUME IInv, CableSeenMissing PROVE IInv'
  <1> USE DEF IInv, CableSeenMissing
  <1>1. \A h \in Handles : open'[h] = IF h \in usb.list THEN Closed ELSE open[h]
    OBVIOUS
  <1>2. /\ usb' \in UsbType /\ usb'.list = {} /\ usb'.cropped = {} /\ usb'.present = usb.present
        /\ usb'.struck = usb.struck \cup {h \in usb.cropped : InUse(open[h])}
    BY DEF TypeOK, UsbType
  <1>3. ASSUME NEW h \in Handles, h \notin usb'.struck, h \in usb.list
        PROVE  open[h].who = "usb" \/ ~InUse(open[h])
    BY <1>2, <1>3 DEF Kept
  <1>4. TypeOK'
    <2>1. open' \in Tables BY OpenType DEF Tables, Entries
    <2> QED BY <1>2, <2>1 DEF TypeOK, UsbType, Tables, Entries
  <1>5. "usb" \in Channels => held["usb"] = {} BY DEF Listed
  <1>6. Kept'
    <2> SUFFICES ASSUME NEW c \in Clients, NEW h \in Handles, h \notin usb'.struck
                 PROVE  /\ h \in held[c] => open'[h].who = c
                        /\ open'[h].who = c => h \in held[c] \cup KeptFor(c)'
      BY <1>2 DEF Kept
    <2>0. h \notin usb.struck BY <1>2
    <2>1. CASE h \in usb.list
      <3>1. open'[h].who = "none" BY <1>1, <2>1 DEF Closed
      <3>2. h \in held[c] => c = "usb" /\ c \in Channels
        BY <1>3, <2>0, <2>1, KeptAt, Strangers DEF Clients, InUse
      <3> QED BY <1>5, <3>1, <3>2, Strangers
    <2>2. CASE h \notin usb.list
      <3>1. KeptFor(c) \subseteq KeptFor(c)' \cup usb.list BY DEF KeptFor
      <3> QED BY <1>1, <2>0, <2>2, <3>1, KeptAt
    <2> QED BY <2>1, <2>2
  <1>7. Listed'
    <2>1. \A h \in Handles : open'[h].who # "usb" BY <1>1 DEF Listed, Closed
    <2> QED BY <1>2, <1>5, <2>1 DEF Listed
  <1>8. Pieces' /\ Menus' BY <1>2 DEF Pieces, Menus
  <1>9. TableIsOpenFiles'
    <2> SUFFICES ASSUME NEW h \in Handles, h \notin usb'.struck
                 PROVE  /\ table[h] = "r" => open'[h] = [who |-> "program", mode |-> "read"]
                        /\ table[h] = "w" => open'[h] = [who |-> "program", mode |-> "write"]
                        /\ open'[h].who = "program" /\ open'[h].mode # "search" => table[h] # "none"
                        /\ open'[h].who = "image" <=> h = prog
      BY DEF TableIsOpenFiles
    <2>0. h \notin usb.struck BY <1>2
    <2>1. CASE h \in usb.list
      <3>1. open[h].who # "program" /\ open[h].who # "image"
        BY <1>3, <2>1, Strangers DEF InUse
      <3>2. table[h] = "none" /\ h # prog BY <2>0, <3>1 DEF TableIsOpenFiles, TypeOK
      <3> QED BY <1>1, <2>1, <3>2 DEF Closed
    <2>2. CASE h \notin usb.list BY <1>1, <2>0, <2>2 DEF TableIsOpenFiles
    <2> QED BY <2>1, <2>2
  <1> QED BY <1>4, <1>6, <1>7, <1>8, <1>9

\* A file that the program opens.
LEMMA EnteredKeeps ==
    ASSUME IInv, NEW mode \in {"read", "write"}, NEW r, Granted(open, r, "program", mode),
           Entered(r, IF mode = "read" THEN "r" ELSE "w")
    PROVE  IInv'
  <1> USE DEF IInv
  <1>1. CASE r.h = NotAHandle /\ r.open = open
    <2>1. UNCHANGED vars BY <1>1, NoHandle DEF Entered, vars, TypeOK
    <2> QED BY <2>1, Stutters
  <1>2. CASE /\ r.h \in Handles
             /\ open[r.h] = Closed
             /\ r.open = [open EXCEPT ![r.h] = [who |-> "program", mode |-> mode]]
    <2>1. table' = [table EXCEPT ![r.h] = IF mode = "read" THEN "r" ELSE "w"]
      BY <1>2 DEF Entered, TypeOK
    <2>2. usb' = [usb EXCEPT !.list = usb.list, !.state = usb.state \/ FALSE, !.cropped = usb.cropped]
      BY DEF Entered, TypeOK
    <2>3. held' = [held EXCEPT !["program"] = @ \cup {r.h}] BY <1>2, NoHandle DEF Entered
    <2>4. Takes("program", r.h, mode, open)
      BY <1>2, <2>1, <2>2, <2>3, LosesNothing, OpenType DEF Takes, Entered
    <2> QED BY <2>4, TakingKeeps, Strangers
  <1> QED BY <1>1, <1>2 DEF Granted

LEMMA ProgramKeeps == ASSUME IInv, ProgramStep PROVE IInv'
  <1> USE OpenType DEF IInv
  <1>1. CASE FileOpenRead
    BY <1>1, OpenGrants, EnteredKeeps DEF FileOpenRead, cLoaderOpenRead
  <1>2. CASE FileOpenWrite BY <1>2, CreateGrants, EnteredKeeps DEF FileOpenWrite
  <1>3. CASE FileOpenAppend
    BY <1>3, OpenGrants, EnteredKeeps DEF FileOpenAppend, cLoaderOpenAppend
  <1>4. CASE FileRename BY <1>4, RenameKeeps, LosesNothing, LosingKeeps DEF FileRename
  <1>5. CASE FileDelete BY <1>5, DeleteLoses, LosingKeeps DEF FileDelete
  <1>6. CASE FileFindFirst
    <2>1. PICK r \in FindFirst(open, "program") :
              /\ open' = r.open
              /\ held' = [held EXCEPT !["program"] = IF r.h = NotAHandle THEN @ ELSE @ \cup {r.h}]
      BY <1>6 DEF FileFindFirst
    <2>2. UNCHANGED <<usb, ext, table, prog, mods, fnof, log>> BY <1>6 DEF FileFindFirst
    <2>3. CASE r.h = NotAHandle /\ r.open = open
      BY <2>1, <2>2, <2>3, Stutters DEF vars, TypeOK
    <2>4. CASE /\ r.h \in Handles
               /\ open[r.h] = Closed
               /\ r.open = [open EXCEPT ![r.h] = [who |-> "program", mode |-> "search"]]
      <3>1. Takes("program", r.h, "search", open)
        BY <2>1, <2>2, <2>4, NoHandle, LosesNothing DEF Takes, TypeOK
      <3> QED BY <3>1, TakingKeeps, Strangers
    <2> QED BY <2>3, <2>4, FindGrants DEF Granted
  <1>7. CASE ListFiles BY <1>7, ListLoses, LosingKeeps DEF ListFiles
  <1>8. CASE IOMapAccess BY <1>8, SearchingKeeps DEF IOMapAccess
  <1>9. ASSUME NEW h \in Handles, FileClose(h) PROVE IInv'
    <2>1. h \notin usb.struck => open[h].who = "program" BY <1>9, KeptAt, Strangers DEF FileClose
    <2>2. h \notin usb.struck => fnof # h /\ log # h BY <2>1, KeptAt, NoHandle, Strangers DEF Menus
    <2>3. Returns("program", h) BY <1>9, <2>2, Strangers DEF FileClose, Returns, TypeOK
    <2> QED BY <2>3, ReturningKeeps, Strangers
  <1>10. ASSUME NEW h \in Handles, FileUse(h) \/ FileFindNext(h) PROVE IInv'
    BY <1>10, Stutters DEF FileUse, FileFindNext
  <1>11. ASSUME NEW h \in Handles, FileResolveHandle(h) PROVE IInv'
    <2> USE <1>11 DEF FileResolveHandle
    <2>1. h \notin usb.struck => open[h].who = "program" BY DEF TableIsOpenFiles, TypeOK
    <2>2. \A c \in Clients : held'[c] = IF c = "program" THEN held[c] \cup {h} ELSE held[c]
      BY DEF TypeOK
    <2>3. held' \in [Clients -> SUBSET Handles] BY DEF TypeOK
    <2>4. TypeOK' BY <2>3 DEF TypeOK
    <2>5. Kept' BY <2>1, <2>2, Strangers DEF Kept, KeptFor
    <2>6. Listed' /\ Pieces' /\ Menus' BY <2>2, Strangers DEF Listed, Pieces, Menus
    <2>7. TableIsOpenFiles' BY DEF TableIsOpenFiles
    <2> QED BY <2>4, <2>5, <2>6, <2>7
  <1>12. ASSUME NEW h \in Handles, FileResize(h) PROVE IInv'
    <2> USE <1>12 DEF FileResize
    <2>1. LosesAtMost(open, open') BY ResizeLoses
    <2>2. open' \in Tables BY <2>1 DEF LosesAtMost
    <2>3. \A k \in Handles : open'[k] = open[k] \/ (open[k].who = "none" /\ open'[k].who = "lost")
      BY <2>1 DEF LosesAtMost, Closed
    <2>4. \A c \in Clients : held'[c] = IF c = "program" THEN held[c] \ {h} ELSE held[c]
      BY DEF TypeOK
    <2>5. held' \in [Clients -> SUBSET Handles] BY DEF TypeOK
    <2>6. TypeOK' BY <2>2, <2>5 DEF TypeOK, Tables, Entries
    <2>7. Kept' BY <2>3, <2>4, Strangers DEF Kept, KeptFor
    <2>9. Listed' BY <2>3, <2>4, Strangers DEF Listed
    <2>10. Pieces' /\ Menus' BY <2>4, Strangers DEF Pieces, Menus
    <2>11. TableIsOpenFiles' BY <2>3 DEF TableIsOpenFiles
    <2> QED BY <2>6, <2>7, <2>9, <2>10, <2>11
  <1> QED BY <1>1, <1>2, <1>3, <1>4, <1>5, <1>6, <1>7, <1>8, <1>9, <1>10, <1>11, <1>12
      DEF ProgramStep

\* The program ends: its files are cut off and closed, and its searches lost; nobody else's are.
EndedAt(o, p, h) ==
    \/ /\ h = prog \/ table[h] # "none"
       /\ p[h] = Closed
    \/ /\ h # prog /\ table[h] = "none"
       /\ o[h].who = "program"
       /\ p[h].who = "lost" \/ (o[h].mode # "search" /\ p[h] = o[h])
    \/ /\ h # prog /\ table[h] = "none"
       /\ o[h].who # "program"
       /\ p[h] = o[h]

Ended(o, p) == p \in Tables /\ \A h \in Handles : EndedAt(o, p, h)

LEMMA Deactivates == ASSUME NEW o \in Tables PROVE Ended(o, cCmdDeactivateProgram(o))
  <1> DEFINE ended == CropTable(Hal_Fs_Close(o, prog))
             p == cCmdDeactivateProgram(o)
  <1>1. \A h \in Handles : ended[h] = IF h = prog \/ table[h] # "none" THEN Closed ELSE o[h]
    BY DEF CropTable, Hal_Fs_Truncate, Hal_Fs_Close
  <1> HIDE DEF ended
  <1>2. \A h \in Handles : p[h] = IF ended[h].who = "program" /\ ended[h].mode = "search"
                                  THEN [ended[h] EXCEPT !.who = "lost"] ELSE ended[h]
    BY DEF cCmdDeactivateProgram, ended
  <1>3. p = [h \in Handles |-> p[h]] BY DEF cCmdDeactivateProgram
  <1> HIDE DEF p
  <1>4. \A h \in Handles : o[h] \in Entries BY DEF Tables
  <1>5. \A e \in Entries : e.who = "program" => /\ [e EXCEPT !.who = "lost"] \in Entries
                                                /\ [e EXCEPT !.who = "lost"].who = "lost"
    BY DEF Entries, Closed
  <1>6. Closed \in Entries /\ Closed.who = "none" BY DEF Entries, Closed
  <1>7. \A h \in Handles : p[h] \in Entries BY <1>1, <1>2, <1>4, <1>5, <1>6
  <1>8. p \in Tables BY <1>3, <1>7 DEF Tables
  <1>9. ASSUME NEW h \in Handles PROVE EndedAt(o, p, h)
    <2>1. CASE h = prog \/ table[h] # "none" BY <2>1, <1>1, <1>2, <1>6 DEF EndedAt
    <2>2. CASE h # prog /\ table[h] = "none" BY <2>2, <1>1, <1>2, <1>4, <1>5 DEF EndedAt
    <2> QED BY <2>1, <2>2
  <1>10. Ended(o, p) BY <1>8, <1>9 DEF Ended
  <1> QED BY <1>10 DEF p

\* The next program's image is n, or there is none.
LEMMA EndingKeeps ==
    ASSUME IInv, NEW n \in Place, NEW o \in Tables,
           \A h \in Handles : h # n => o[h] = open[h],
           n # NotAHandle => open[n] = Closed /\ o[n].who = "image",
           Ended(o, open'),
           held' = [held EXCEPT !["program"] = {}],
           table' = [h \in Handles |-> "none"],
           prog' = n,
           UNCHANGED <<usb, ext, mods, fnof, log>>
    PROVE  IInv'
  <1> USE DEF IInv
  <1>1. \A c \in Clients : held'[c] = IF c = "program" THEN {} ELSE held[c] BY DEF TypeOK
  <1>2. \A h \in Handles \ usb.struck : h = n => table[h] = "none" /\ h # prog
    BY NoHandle, FreeIsNobodys
  <1>3. \A h \in Handles \ usb.struck :
           \/ h = n /\ open'[h].who = "image"
           \/ h # n /\ open[h].who \in {"program", "image"} /\ open'[h].who \in {"none", "lost"}
           \/ h # n /\ open[h].who \notin {"program", "image"} /\ open'[h] = open[h]
    <2> SUFFICES ASSUME NEW h \in Handles \ usb.struck
                 PROVE  \/ h = n /\ open'[h].who = "image"
                        \/ h # n /\ open[h].who \in {"program", "image"} /\ open'[h].who \in {"none", "lost"}
                        \/ h # n /\ open[h].who \notin {"program", "image"} /\ open'[h] = open[h]
      OBVIOUS
    <2>1. CASE h = n BY <2>1, <1>2, NoHandle DEF Ended, EndedAt
    <2>2. CASE h # n
      <3>1. o[h] = open[h] BY <2>2
      <3>2. CASE h = prog \/ table[h] # "none"
        <4>1. open[h].who \in {"program", "image"} BY <3>2 DEF TableIsOpenFiles, TypeOK
        <4>2. open'[h].who = "none" BY <3>2 DEF Ended, EndedAt, Closed
        <4> QED BY <2>2, <4>1, <4>2
      <3>3. CASE h # prog /\ table[h] = "none"
        <4>1. open[h].who # "image" BY <3>3 DEF TableIsOpenFiles
        <4>2. open[h].who = "program" => open[h].mode = "search"
          BY <3>3 DEF TableIsOpenFiles
        <4> QED BY <2>2, <3>1, <3>3, <4>1, <4>2 DEF Ended, EndedAt
      <3> QED BY <3>2, <3>3
    <2> QED BY <2>1, <2>2
  <1>4. TypeOK'
    <2>1. open' \in Tables BY DEF Ended
    <2>2. held' \in [Clients -> SUBSET Handles] BY DEF TypeOK
    <2> QED BY <2>1, <2>2 DEF TypeOK, Tables, Entries
  <1>5. Kept'
    <2> SUFFICES ASSUME NEW h \in Handles \ usb.struck
                 PROVE  /\ \A c \in Clients :
                              /\ h \in held'[c] => open'[h].who = c
                              /\ open'[h].who = c => h \in held'[c] \cup KeptFor(c)'
                        /\ h \in usb.list \ usb.cropped => open'[h].who = "usb"
      BY DEF Kept
    <2>1. h = n => /\ \A d \in Clients : h \notin held[d]
                   /\ h \notin usb.list \ usb.cropped
      BY NoHandle, FreeIsNobodys
    <2>2. CASE h = n /\ open'[h].who = "image" BY <2>1, <2>2, <1>1, Strangers
    <2>3. CASE h # n /\ open[h].who \in {"program", "image"} /\ open'[h].who \in {"none", "lost"}
      <3>1. \A c \in Clients : h \notin held'[c] BY <2>3, <1>1, KeptAt, Strangers
      <3>2. h \notin usb.list \ usb.cropped BY <2>3 DEF Kept
      <3> QED BY <2>3, <3>1, <3>2, Strangers
    <2>4. CASE h # n /\ open[h].who \notin {"program", "image"} /\ open'[h] = open[h]
      <3>1. ASSUME NEW c \in Clients
            PROVE  /\ h \in held'[c] => open'[h].who = c
                   /\ open'[h].who = c => h \in held'[c] \cup KeptFor(c)'
        <4>1. c = "program" => h \notin held'[c] /\ open'[h].who # c BY <2>4, <1>1
        <4>2. c # "program" => held'[c] = held[c] /\ KeptFor(c)' = KeptFor(c) BY <1>1 DEF KeptFor
        <4> QED BY <2>4, <4>1, <4>2, KeptAt
      <3>2. h \in usb.list \ usb.cropped => open'[h].who = "usb" BY <2>4 DEF Kept
      <3> QED BY <3>1, <3>2
    <2> QED BY <1>3, <2>2, <2>3, <2>4
  <1>6. Listed'
    <2>1. \A h \in Handles : open'[h].who = "usb" => open[h].who = "usb"
      BY NoHandle DEF Ended, EndedAt, Closed
    <2> QED BY <1>1, <2>1, Strangers DEF Listed
  <1>7. Pieces' /\ Menus' BY <1>1, Strangers DEF Pieces, Menus
  <1>8. TableIsOpenFiles'
    <2>1. \A h \in Handles : table'[h] = "none" OBVIOUS
    <2>2. \A h \in Handles \ usb.struck : open'[h].who # "program" BY <1>3
    <2>3. \A h \in Handles \ usb.struck : open'[h].who = "image" <=> h = n BY <1>3
    <2> QED BY <2>1, <2>2, <2>3 DEF TableIsOpenFiles
  <1> QED BY <1>4, <1>5, <1>6, <1>7, <1>8

LEMMA ActivateKeeps == ASSUME IInv, ActivateProgram PROVE IInv'
  <1> USE OpenType DEF IInv
  <1>1. PICK r \in OpenLocated(open, "image", "read") :
          \/ /\ r.h = NotAHandle
             /\ UNCHANGED vars
          \/ /\ r.h # NotAHandle
             /\ open' = Lose(r.open, r.h)
             /\ UNCHANGED <<held, table, prog>>
          \/ /\ r.h # NotAHandle
             /\ open' = cCmdDeactivateProgram(r.open)
             /\ held' = [held EXCEPT !["program"] = {}]
             /\ table' = [h \in Handles |-> "none"]
             /\ prog' = r.h
    BY DEF ActivateProgram
  <1>2. UNCHANGED <<usb, ext, mods, fnof, log>> BY DEF ActivateProgram
  <1>3. Granted(open, r, "image", "read") BY OpenGrants
  <1>4. CASE UNCHANGED vars BY <1>4, Stutters
  <1>5. CASE open' = Lose(r.open, r.h) /\ UNCHANGED <<held, table, prog>>
    BY <1>2, <1>3, <1>5, Leaves, LosingKeeps
  <1>6. CASE /\ r.h # NotAHandle
             /\ open' = cCmdDeactivateProgram(r.open)
             /\ held' = [held EXCEPT !["program"] = {}]
             /\ table' = [h \in Handles |-> "none"]
             /\ prog' = r.h
    <2> DEFINE e == [who |-> "image", mode |-> "read"]
    <2>1. r.h \in Handles /\ open[r.h] = Closed /\ r.open = [open EXCEPT ![r.h] = e]
      BY <1>3, <1>6 DEF Granted
    <2>2. e \in Entries /\ e.who = "image" BY DEF Entries
    <2> HIDE DEF e
    <2>3. r.open \in Tables BY <2>1, <2>2 DEF Tables
    <2>4. \A h \in Handles : h # r.h => r.open[h] = open[h] BY <2>1 DEF Tables
    <2>5. r.open[r.h].who = "image" BY <2>1, <2>2 DEF Tables
    <2>6. r.h \in Place BY <2>1 DEF Place
    <2>7. Ended(r.open, open') BY <1>6, <2>3, Deactivates
    <2> QED BY <1>2, <1>6, <2>1, <2>3, <2>4, <2>5, <2>6, <2>7, EndingKeeps
  <1> QED BY <1>1, <1>4, <1>5, <1>6

LEMMA DeactivateKeeps == ASSUME IInv, DeactivateProgram PROVE IInv'
  <1>1. open \in Tables BY OpenType DEF IInv
  <1>2. Ended(open, open') BY <1>1, Deactivates DEF DeactivateProgram
  <1>3. NotAHandle \in Place BY DEF Place
  <1> QED BY <1>1, <1>2, <1>3, EndingKeeps DEF DeactivateProgram

LEMMA UiKeeps == ASSUME IInv, UiStep PROVE IInv'
  <1> USE OpenType DEF IInv
  <1>1. CASE FindFileBegin
    <2>1. PICK r \in FindFirst(open, "ui") :
            \/ /\ open' = r.open
               /\ fnof' = r.h
               /\ held' = [held EXCEPT !["ui"] = IF r.h = NotAHandle THEN @ ELSE @ \cup {r.h}]
            \/ /\ open' = Hal_Fs_Close(r.open, r.h)
               /\ UNCHANGED <<fnof, held>>
      BY <1>1 DEF FindFileBegin
    <2>2. fnof = NotAHandle /\ UNCHANGED <<usb, ext, table, prog, mods, log>>
      BY <1>1 DEF FindFileBegin
    <2>3. Granted(open, r, "ui", "search") BY FindGrants
    <2>4. CASE open' = Hal_Fs_Close(r.open, r.h) /\ UNCHANGED <<fnof, held>>
      BY <2>2, <2>3, <2>4, Closes, Stutters DEF vars
    <2>5. CASE /\ open' = r.open
               /\ fnof' = r.h
               /\ held' = [held EXCEPT !["ui"] = IF r.h = NotAHandle THEN @ ELSE @ \cup {r.h}]
      <3>1. CASE r.h = NotAHandle /\ r.open = open
        BY <2>2, <2>5, <3>1, Stutters DEF vars, TypeOK
      <3>2. CASE /\ r.h \in Handles
                 /\ open[r.h] = Closed
                 /\ r.open = [open EXCEPT ![r.h] = [who |-> "ui", mode |-> "search"]]
        <4>1. Takes("ui", r.h, "search", open)
          BY <2>2, <2>5, <3>2, NoHandle, LosesNothing DEF Takes, TypeOK
        <4> QED BY <4>1, TakingKeeps, Strangers
      <3> QED BY <2>3, <3>1, <3>2 DEF Granted
    <2> QED BY <2>1, <2>4, <2>5
  <1>2. CASE FindFileStep
    <2>1. fnof # NotAHandle /\ UNCHANGED <<usb, ext, table, prog, mods, log>>
      BY <1>2 DEF FindFileStep
    <2>2. CASE UNCHANGED <<open, fnof, held>> BY <2>1, <2>2, Stutters DEF vars
    <2>3. CASE /\ open' = Hal_Fs_Close(open, fnof)
               /\ held' = [held EXCEPT !["ui"] = @ \ {fnof}]
               /\ fnof' = NotAHandle
      <3>1. fnof \notin usb.struck => fnof \in held["ui"] /\ log # fnof BY <2>1 DEF Menus
      <3>2. fnof \in Handles BY <2>1 DEF TypeOK, Place
      <3>3. Returns("ui", fnof) BY <2>1, <2>3, <3>1, <3>2, NoHandle, Strangers DEF Returns, TypeOK
      <3> QED BY <3>3, ReturningKeeps, Strangers
    <2> QED BY <1>2, <2>2, <2>3 DEF FindFileStep
  <1>3. CASE DatalogBegin
    <2>1. PICK o \in Replaced(open) : \E r \in cLoaderCreateFile(o, "ui") :
            /\ open' = r.open
            /\ log' = r.h
            /\ held' = [held EXCEPT !["ui"] = IF r.h = NotAHandle THEN @ ELSE @ \cup {r.h}]
      BY <1>3 DEF DatalogBegin
    <2>0. PICK r \in cLoaderCreateFile(o, "ui") :
            /\ open' = r.open
            /\ log' = r.h
            /\ held' = [held EXCEPT !["ui"] = IF r.h = NotAHandle THEN @ ELSE @ \cup {r.h}]
      BY <2>1
    <2>2. log = NotAHandle /\ UNCHANGED <<usb, ext, table, prog, mods, fnof>>
      BY <1>3 DEF DatalogBegin
    <2>3. LosesAtMost(open, o) BY ReplacedLoses
    <2>4. o \in Tables BY <2>3 DEF LosesAtMost
    <2>5. Granted(o, r, "ui", "write") BY <2>4, CreateGrants
    <2>6. CASE r.h = NotAHandle /\ r.open = o
      <3>1. UNCHANGED <<held, log>> BY <2>0, <2>2, <2>6 DEF TypeOK
      <3> QED BY <2>0, <2>2, <2>3, <2>6, <3>1, LosingKeeps
    <2>7. CASE /\ r.h \in Handles
               /\ o[r.h] = Closed
               /\ r.open = [o EXCEPT ![r.h] = [who |-> "ui", mode |-> "write"]]
      <3>1. Takes("ui", r.h, "write", o)
        BY <2>0, <2>2, <2>3, <2>7, NoHandle DEF Takes, TypeOK
      <3> QED BY <3>1, TakingKeeps, Strangers
    <2> QED BY <2>5, <2>6, <2>7 DEF Granted
  <1>4. CASE DatalogEnd
    <2>1. log \notin usb.struck => log \in held["ui"] /\ log # fnof BY <1>4 DEF DatalogEnd, Menus
    <2>2. log \in Handles BY <1>4 DEF DatalogEnd, TypeOK, Place
    <2>3. Returns("ui", log)
      BY <1>4, <2>1, <2>2, NoHandle, Strangers DEF DatalogEnd, Hal_Fs_Truncate, Returns, TypeOK
    <2> QED BY <2>3, ReturningKeeps, Strangers
  <1>5. CASE UiSaves
    <2>1. PICK o \in Replaced(open) : \E r \in cLoaderCreateFile(o, "ui") :
              open' = Hal_Fs_Close(r.open, r.h)
      BY <1>5 DEF UiSaves
    <2>2. LosesAtMost(open, o) BY ReplacedLoses
    <2>3. o \in Tables BY <2>2 DEF LosesAtMost
    <2>4. open' = o BY <2>1, <2>3, CreateGrants, Closes
    <2> QED BY <1>5, <2>2, <2>4, LosingKeeps DEF UiSaves
  <1>6. CASE UiReads
    <2>1. PICK r \in OpenLocated(open, "ui", "read") : open' = Hal_Fs_Close(r.open, r.h)
      BY <1>6 DEF UiReads, cLoaderOpenRead
    <2>2. open' = open BY <2>1, OpenGrants, Closes
    <2> QED BY <1>6, <2>2, LosesNothing, LosingKeeps DEF UiReads
  <1> QED BY <1>1, <1>2, <1>3, <1>4, <1>5, <1>6 DEF UiStep

-----------------------------------------------------------------------------
(* The theorems.                                                              *)

LEMMA Preserves == ASSUME IInv, [Next]_vars PROVE IInv'
  BY ChannelKeeps, StreamEndsKeeps, CableKeeps, CableSeenKeeps, CableMissingKeeps, ProgramKeeps,
     ActivateKeeps, DeactivateKeeps, UiKeeps, Stutters
  DEF Next

\* The strengthening of the properties below holds in every state that requests of channels, programs
\* and menus, the cable, streams that end and refusals of the file system can lead to.
THEOREM Invariance == Spec => []IInv
  <1>1. Init => IInv BY Initially
  <1>2. IInv /\ [Next]_vars => IInv' BY Preserves
  <1> QED BY <1>1, <1>2, PTL DEF Spec

\* Every variable keeps its type, whatever the file system gives or refuses.
THEOREM TypeCorrect == Spec => []TypeOK
  <1>1. IInv => TypeOK BY DEF IInv
  <1> QED BY <1>1, Invariance, PTL

\* A handle that has been given out stays its client's until he closes it, and every open handle
\* has a client who can close it, or one that the code keeps for him.
THEOREM Keeping == Spec => []HandlesKept
  <1>1. IInv => HandlesKept BY DEF IInv, Kept, HandlesKept
  <1> QED BY <1>1, Invariance, PTL

\* Nothing that was opened over USB outlives the round in which the cable is found missing.
THEOREM Releasing == Spec => []UsbReleased
  <1>1. IInv => UsbReleased
    <2> SUFFICES ASSUME IInv, ~usb.state PROVE UsbReleased BY DEF UsbReleased
    <2>1. usb.list = {} BY DEF IInv, Listed
    <2>2. \A h \in Handles : open[h].who # "usb" BY <2>1 DEF IInv, Listed
    <2> QED BY <2>1, <2>2 DEF UsbReleased
  <1> QED BY <1>1, Invariance, PTL

\* FileHandleTable names what the program has open, so its end cuts off no file of another.
THEOREM Entering == Spec => []TableIsOpenFiles
  <1>1. IInv => TableIsOpenFiles BY DEF IInv
  <1> QED BY <1>1, Invariance, PTL

\* The later pieces of a long message reach the file of the first.
THEOREM Reaching == Spec => []PiecesReachTheirFile
  <1>1. IInv => PiecesReachTheirFile
    <2> SUFFICES ASSUME IInv, NEW c \in Channels, ext[c] \notin usb.struck, ext[c] # NotAHandle
                 PROVE  open[ext[c]].who = c
      BY DEF PiecesReachTheirFile
    <2>1. ext[c] \in held[c] /\ ext[c] \in Handles BY DEF IInv, Pieces, TypeOK, Place
    <2> QED BY <2>1, KeptAt, Strangers DEF IInv
  <1> QED BY <1>1, Invariance, PTL
=============================================================================
