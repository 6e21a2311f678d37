------------------------- MODULE EventStream_proofs -------------------------
(***************************************************************************)
(* LastWord and MailTold of EventStream, for any number of streams and of    *)
(* notifications.                                                          *)
(*                                                                         *)
(* Both speak of a stream with nothing on its way to it.  What makes them    *)
(* true is that a stream that listens has, at any time, a place in notify:    *)
(* what is before it was told or came before the subscription, what is after  *)
(* it will come.  The invariant says of every place what is still needed of   *)
(* what was told.                                                          *)
(***************************************************************************)
EXTENDS EventStream, Integers, TLAPS

(***************************************************************************)
(* The inductive invariant                                                 *)
(***************************************************************************)
\* The connection and its history: in a connection the last status is
\* "connected", between two it is "disconnected".
ConnectedSince ==
  \E i \in 1 .. Len(notify) :
    /\ notify[i] = "connected"
    /\ \A j \in i + 1 .. Len(notify) : notify[j] = "new_mail"
History ==
  /\ authenticated <=> link = "up"
  /\ link = "down" => notify = <<>> \/ notify[Len(notify)] = "disconnected"
  /\ link \in {"announced", "up"} => ConnectedSince

\* The place of s in notify: the last notification it received or missed.
Place(s) == cast - Len(chan[s])

\* The channel of a listener is what lies between its place and that of the
\* listener thread.
Copied(s) ==
  /\ stream[s] = "idle" => chan[s] = <<>>
  /\ stream[s] \in Listening =>
       /\ Len(chan[s]) <= cast
       /\ \A i \in 1 .. Len(chan[s]) : chan[s][i] = notify[Place(s) + i]

\* Nothing but mail is to come.
OnlyMail(s) == \A j \in Place(s) + 1 .. Len(notify) : notify[j] = "new_mail"

Greeted == Listening \ {"subscribed"}

DownTold(s) ==
  stream[s] \in Greeted /\ link = "down" /\ Place(s) = Len(notify) =>
    LastWordIs(s, "disconnected")

UpTold(s) ==
  /\ stream[s] \in Listening /\ link \in {"announced", "up"}
  /\ s \notin unaware /\ OnlyMail(s)
  => \/ link = "up" /\ stream[s] = "subscribed"
     \/ link = "up" /\ stream[s] = "greeted" /\ LastWordIs(s, "connected")
     \/ stream[s] \in {"loop", "recv"} /\ LastWordIs(s, "connected")

MailSince(s) ==
  \E i \in 1 .. Len(told[s]) :
    /\ told[s][i] = "new_mail"
    /\ \A j \in i + 1 .. Len(told[s]) : told[s][j] # "disconnected"

MailWasTold(s) ==
  /\ stream[s] \in {"loop", "recv"} /\ link \in {"announced", "up"}
  /\ s \notin unaware /\ Place(s) = Len(notify)
  /\ notify[Len(notify)] = "new_mail"
  => MailSince(s)

Told(s) == Copied(s) /\ DownTold(s) /\ UpTold(s) /\ MailWasTold(s)

IInv == TypeOK /\ History /\ \A s \in Streams : Told(s)

(***************************************************************************)
(* Types                                                                   *)
(***************************************************************************)
LEMMA InitType == Init => TypeOK
<1> SUFFICES ASSUME Init PROVE TypeOK
  OBVIOUS
<1> USE DEF Init, ConnectionInit
<1>1. notify \in Seq(Notices) /\ cast \in 0 .. Len(notify)
  OBVIOUS
<1>2. chan \in [Streams -> Seq(Notices)] /\ told \in [Streams -> Seq(Notices)]
  <2>1. <<>> \in Seq(Notices)
    OBVIOUS
  <2> QED BY <2>1
<1>3. listeners = {s \in Streams : stream[s] \in Listening}
  BY DEF Listening
<1> QED BY <1>1, <1>2, <1>3 DEF TypeOK, StreamPhases

(* A step of the client only adds to notify.                               *)
LEMMA ClientAdds ==
  ASSUME notify \in Seq(Notices), ConnectionNext
  PROVE  /\ notify' \in Seq(Notices) /\ Len(notify') >= Len(notify)
         /\ \A i \in 1 .. Len(notify) : notify'[i] = notify[i]
<1>1. CASE notify' = notify
  BY <1>1
<1>2. ASSUME NEW e \in Notices, notify' = Append(notify, e)
      PROVE  /\ notify' \in Seq(Notices) /\ Len(notify') >= Len(notify)
             /\ \A i \in 1 .. Len(notify) : notify'[i] = notify[i]
  BY <1>2
<1>3. CASE notify' = notify \o <<"connected", "new_mail">>
  BY <1>3 DEF Notices
<1>4. CASE notify' = notify \o <<"connected">>
  BY <1>4 DEF Notices
<1> QED
  BY <1>1, <1>2, <1>3, <1>4
  DEF ConnectionNext, Announce, Mail, GoUp, Lose, Farewell, Notices

LEMMA NextType == TypeOK /\ [Next]_vars => TypeOK'
<1> SUFFICES ASSUME TypeOK, [Next]_vars PROVE TypeOK'
  OBVIOUS
<1> USE DEF TypeOK
<1>1. CASE UNCHANGED vars
  BY <1>1 DEF vars, connectionVars, castVars, streamVars
<1>2. CASE Client
  <2>1. /\ notify' \in Seq(Notices) /\ Len(notify') >= Len(notify)
    BY <1>2, ClientAdds DEF Client
  <2>2. /\ link' \in {"down", "announced", "up", "closing"}
        /\ authenticated' \in BOOLEAN
    BY <1>2 DEF Client, ConnectionNext, Announce, Mail, GoUp, Lose, Farewell
  <2>3. cast' \in 0 .. Len(notify')
    BY <1>2, <2>1 DEF Client, castVars
  <2> QED BY <1>2, <2>1, <2>2, <2>3 DEF Client, castVars, streamVars
<1>3. CASE Distribute
  <2>1. cast' \in 0 .. Len(notify') /\ notify[cast + 1] \in Notices
    BY <1>3 DEF Distribute, connectionVars
  <2>2. chan' \in [Streams -> Seq(Notices)]
    BY <1>3, <2>1 DEF Distribute
  <2> QED BY <1>3, <2>1, <2>2 DEF Distribute, connectionVars, streamVars
<1>4. CASE Shutdown
  BY <1>4 DEF Shutdown, connectionVars, castVars, streamVars
<1>5. ASSUME NEW s \in Streams, Subscribe(s) PROVE TypeOK'
  BY <1>5 DEF Subscribe, Go, connectionVars, castVars, StreamPhases, Listening
<1>6. ASSUME NEW s \in Streams, Handler(s) PROVE TypeOK'
  <2>1. /\ UNCHANGED <<connectionVars, cast, shutdown_flag>>
        /\ chan' \in [Streams -> Seq(Notices)]
        /\ unaware' \subseteq Streams
    <3>1. CASE Forward(s)
      <4>1. Tail(chan[s]) \in Seq(Notices)
        BY <3>1 DEF Forward
      <4> QED BY <3>1, <4>1 DEF Forward
    <3> QED BY <1>6, <3>1 DEF Handler, FirstEvent, MailEvent, CheckFlag, KeepAlive, castVars
  <2>2. \/ \E e \in Notices, p \in Greeted : Tell(s, e, p) /\ stream[s] \in Listening
        \/ Close(s)
        \/ /\ \E p \in Greeted : Go(s, p) /\ stream[s] \in Listening
           /\ UNCHANGED <<told, listeners>>
    <3>1. CASE Forward(s)
      BY <3>1, Head(chan[s]) \in Notices DEF Forward, Listening, Greeted
    <3> QED BY <1>6, <3>1
            DEF Handler, FirstEvent, MailEvent, CheckFlag, KeepAlive, Notices, Listening, Greeted
  <2>3. /\ stream' \in [Streams -> StreamPhases]
        /\ listeners' = {x \in Streams : stream'[x] \in Listening}
    BY <2>2 DEF Tell, Go, Close, StreamPhases, Listening, Greeted
  <2>4. told' \in [Streams -> Seq(Notices)]
    <3>1. ASSUME NEW e \in Notices PROVE Append(told[s], e) \in Seq(Notices)
      OBVIOUS
    <3> QED BY <2>2, <3>1 DEF Tell, Close
  <2> QED BY <2>1, <2>3, <2>4 DEF connectionVars
<1> QED BY <1>1, <1>2, <1>3, <1>4, <1>5, <1>6 DEF Next

(***************************************************************************)
(* The history of the connection                                           *)
(***************************************************************************)
LEMMA InitHistory == Init => History
  BY DEF Init, ConnectionInit, History

LEMMA HistoryStep ==
  ASSUME TypeOK, History, ConnectionNext
  PROVE  History'
<1>a. /\ notify \in Seq(Notices) /\ Len(notify) \in Nat
      /\ link \in {"announced", "up"} => ConnectedSince
      /\ link = "up" <=> authenticated
  BY DEF TypeOK, History
<1>1. CASE Announce
  <2>1. ASSUME notify' = notify \o <<"connected">> PROVE ConnectedSince'
    <3>1. Len(notify') = Len(notify) + 1 /\ notify'[Len(notify) + 1] = "connected"
      BY <1>a, <2>1
    <3> QED BY <1>a, <3>1 DEF ConnectedSince
  <2>2. ASSUME notify' = notify \o <<"connected", "new_mail">> PROVE ConnectedSince'
    <3>1. /\ Len(notify') = Len(notify) + 2
          /\ notify'[Len(notify) + 1] = "connected" /\ notify'[Len(notify) + 2] = "new_mail"
      BY <1>a, <2>2
    <3> QED BY <1>a, <3>1 DEF ConnectedSince
  <2>3. ConnectedSince'
    BY <1>1, <2>1, <2>2 DEF Announce
  <2>4. ~authenticated'
    BY <1>a, <1>1 DEF Announce
  <2> QED BY <1>1, <2>3, <2>4 DEF Announce, History
<1>2. CASE Mail
  <2>1. PICK i \in 1 .. Len(notify) :
          notify[i] = "connected" /\ \A j \in i + 1 .. Len(notify) : notify[j] = "new_mail"
    BY <1>a, <1>2 DEF Mail, ConnectedSince
  <2>2. /\ Len(notify') = Len(notify) + 1 /\ notify'[Len(notify) + 1] = "new_mail"
        /\ \A j \in 1 .. Len(notify) : notify'[j] = notify[j]
    BY <1>a, <1>2 DEF Mail
  <2>3. ConnectedSince'
    BY <1>a, <2>1, <2>2 DEF ConnectedSince
  <2>4. authenticated' <=> link' = "up"
    BY <1>a, <1>2 DEF Mail
  <2> QED BY <1>2, <2>3, <2>4 DEF Mail, History
<1>3. CASE GoUp
  <2>1. ConnectedSince <=> ConnectedSince'
    BY <1>3 DEF GoUp, ConnectedSince
  <2> QED BY <1>a, <1>3, <2>1 DEF GoUp, History
<1>4. CASE Lose
  BY <1>4 DEF Lose, History
<1>5. CASE Farewell
  <2>1. notify'[Len(notify')] = "disconnected" /\ ~authenticated'
    BY <1>a, <1>5 DEF Farewell
  <2> QED BY <1>5, <2>1 DEF Farewell, History
<1> QED BY <1>1, <1>2, <1>3, <1>4, <1>5 DEF ConnectionNext

(***************************************************************************)
(* What a write to a stream makes of its story                             *)
(***************************************************************************)
LEMMA TellStatus ==
  ASSUME NEW s, NEW e, told[s] \in Seq(Notices), told'[s] = Append(told[s], e)
  PROVE  LastWordIs(s, e)'
<1>1. /\ Len(told'[s]) = Len(told[s]) + 1 /\ told'[s][Len(told'[s])] = e
      /\ Len(told[s]) \in Nat
  OBVIOUS
<1> QED BY <1>1 DEF LastWordIs

LEMMA TellMail ==
  ASSUME NEW s, told[s] \in Seq(Notices), told'[s] = Append(told[s], "new_mail")
  PROVE  /\ MailSince(s)'
         /\ \A e : LastWordIs(s, e) => LastWordIs(s, e)'
<1>1. /\ Len(told'[s]) = Len(told[s]) + 1 /\ told'[s][Len(told'[s])] = "new_mail"
      /\ \A i \in 1 .. Len(told[s]) : told'[s][i] = told[s][i]
      /\ Len(told[s]) \in Nat
  OBVIOUS
<1>2. MailSince(s)'
  BY <1>1 DEF MailSince
<1>3. ASSUME NEW e, LastWordIs(s, e) PROVE LastWordIs(s, e)'
  BY <1>1, <1>3 DEF LastWordIs
<1> QED BY <1>2, <1>3

(***************************************************************************)
(* Steps of others                                                         *)
(***************************************************************************)
LEMMA PlaceType ==
  ASSUME TypeOK, NEW s \in Streams, Copied(s), stream[s] \in Listening
  PROVE  Place(s) \in 0 .. Len(notify)
<1>1. Len(chan[s]) \in Nat /\ Len(chan[s]) <= cast
  BY DEF TypeOK, Copied
<1> QED BY <1>1 DEF Place, TypeOK

\* s and the connection are as they were.
LEMMA NothingNew ==
  ASSUME NEW s \in Streams, Told(s), Copied(s)', UNCHANGED connectionVars,
         stream'[s] = stream[s], told'[s] = told[s],
         stream[s] \in Listening => Place(s)' = Place(s),
         s \in unaware' <=> s \in unaware
  PROVE  Told(s)'
<1>1. \A e : LastWordIs(s, e) <=> LastWordIs(s, e)'
  BY DEF LastWordIs
<1>2. MailSince(s) <=> MailSince(s)'
  BY DEF MailSince
<1>3. stream[s] \in Listening => (OnlyMail(s) <=> OnlyMail(s)')
  BY DEF OnlyMail, connectionVars
<1>4. DownTold(s)'
  BY <1>1 DEF DownTold, Told, Greeted, connectionVars
<1>5. UpTold(s)'
  BY <1>1, <1>3 DEF UpTold, Told, connectionVars
<1>6. MailWasTold(s)'
  BY <1>2 DEF MailWasTold, Told, Listening, connectionVars
<1> QED BY <1>4, <1>5, <1>6 DEF Told

LEMMA ClientStep ==
  ASSUME TypeOK, History, NEW s \in Streams, Told(s), Client
  PROVE  Told(s)'
<1>1. /\ ConnectionNext
      /\ stream'[s] = stream[s] /\ told'[s] = told[s] /\ chan'[s] = chan[s]
      /\ cast' = cast /\ unaware' = unaware /\ Place(s)' = Place(s)
  BY DEF Client, castVars, streamVars, Place
<1>2. /\ notify' \in Seq(Notices) /\ Len(notify') >= Len(notify)
      /\ \A i \in 1 .. Len(notify) : notify'[i] = notify[i]
  BY <1>1, ClientAdds DEF TypeOK
<1>3. stream[s] \in Listening => Place(s) \in 0 .. Len(notify)
  BY PlaceType DEF Told
<1>4. /\ \A e : LastWordIs(s, e) <=> LastWordIs(s, e)'
      /\ MailSince(s) <=> MailSince(s)'
  BY <1>1 DEF LastWordIs, MailSince
<1>5. Copied(s)'
  <2>1. /\ Len(chan[s]) \in Nat /\ cast \in 0 .. Len(notify) /\ Len(notify) \in Nat
    BY DEF TypeOK
  <2>2. ASSUME stream[s] \in Listening, NEW i \in 1 .. Len(chan[s])
        PROVE  Place(s) + i \in 1 .. Len(notify)
    <3>1. Len(chan[s]) <= cast
      BY <2>2 DEF Copied, Told
    <3> QED BY <2>1, <3>1 DEF Place
  <2> QED BY <1>1, <1>2, <2>2 DEF Copied, Told
<1>6. CASE Announce
  <2>1. /\ Len(notify') > Len(notify) /\ notify'[Len(notify) + 1] = "connected"
        /\ link' = "announced"
    BY <1>6 DEF Announce, TypeOK
  <2>2. stream[s] \in Listening => ~OnlyMail(s)'
    BY <1>1, <1>2, <1>3, <2>1 DEF OnlyMail
  <2>3. stream[s] \in Listening => Place(s) # Len(notify')
    BY <1>3, <2>1 DEF TypeOK
  <2> QED BY <1>1, <1>5, <2>1, <2>2, <2>3
          DEF Told, DownTold, UpTold, MailWasTold, Listening
<1>7. CASE Mail
  <2>1. /\ Len(notify') = Len(notify) + 1 /\ link' = link /\ link \in {"announced", "up"}
    BY <1>7 DEF Mail, TypeOK
  <2>2. stream[s] \in Listening => (OnlyMail(s)' => OnlyMail(s))
    <3>1. Len(notify) \in Nat /\ Len(notify') = Len(notify) + 1
      BY <2>1 DEF TypeOK
    <3> QED BY <1>1, <1>2, <1>3, <3>1 DEF OnlyMail
  <2>3. stream[s] \in Listening => Place(s) # Len(notify')
    BY <1>3, <2>1 DEF TypeOK
  <2> QED BY <1>1, <1>4, <1>5, <2>1, <2>2, <2>3
          DEF Told, DownTold, UpTold, MailWasTold, Listening
<1>8. CASE GoUp
  <2>1. link = "announced" /\ link' = "up" /\ notify' = notify
    BY <1>8 DEF GoUp
  <2>2. OnlyMail(s)' <=> OnlyMail(s)
    BY <1>1, <2>1 DEF OnlyMail
  <2> QED BY <1>1, <1>4, <1>5, <2>1, <2>2 DEF Told, DownTold, UpTold, MailWasTold
<1>9. CASE Lose
  BY <1>5, <1>9 DEF Lose, Told, DownTold, UpTold, MailWasTold
<1>10. CASE Farewell
  <2>1. link' = "down" /\ Len(notify') = Len(notify) + 1
    BY <1>10 DEF Farewell, TypeOK
  <2>2. stream[s] \in Listening => Place(s) # Len(notify')
    BY <1>3, <2>1 DEF TypeOK
  <2> QED BY <1>1, <1>5, <2>1, <2>2
          DEF Told, DownTold, UpTold, MailWasTold, Listening, Greeted
<1> QED BY <1>1, <1>6, <1>7, <1>8, <1>9, <1>10 DEF ConnectionNext

LEMMA DistributeStep ==
  ASSUME TypeOK, NEW s \in Streams, Told(s), Distribute
  PROVE  Told(s)'
<1>1. /\ UNCHANGED connectionVars /\ stream' = stream /\ told' = told /\ unaware' = unaware
      /\ cast' = cast + 1 /\ cast \in Nat /\ chan[s] \in Seq(Notices)
      /\ notify[cast + 1] \in Notices
  BY DEF Distribute, streamVars, TypeOK, connectionVars
<1>2. CASE s \in listeners
  <2>1. /\ chan'[s] = Append(chan[s], notify[cast + 1]) /\ Len(chan'[s]) = Len(chan[s]) + 1
        /\ Len(chan[s]) \in Nat
        /\ stream[s] \in Listening
    BY <1>1, <1>2 DEF Distribute, TypeOK
  <2>2. Place(s)' = Place(s)
    BY <1>1, <2>1 DEF Place
  <2>3. Copied(s)'
    <3>1. \A i \in 1 .. Len(chan[s]) : chan'[s][i] = chan[s][i]
      BY <1>1, <2>1
    <3>2. chan'[s][Len(chan[s]) + 1] = notify[Place(s) + Len(chan[s]) + 1]
      BY <1>1, <2>1 DEF Place
    <3>3. \A i \in 1 .. Len(chan[s]) : chan[s][i] = notify[Place(s) + i]
      BY <2>1 DEF Copied, Told
    <3>4. \A i \in 1 .. Len(chan'[s]) : chan'[s][i] = notify'[Place(s)' + i]
      <4>1. Place(s) \in Int
        BY <1>1, <2>1 DEF Place
      <4>2. SUFFICES ASSUME NEW i \in 1 .. Len(chan[s]) + 1
                     PROVE  chan'[s][i] = notify[Place(s) + i]
        BY <1>1, <2>1, <2>2 DEF connectionVars
      <4>3. CASE i \in 1 .. Len(chan[s])
        BY <3>1, <3>3, <4>3
      <4>4. CASE i = Len(chan[s]) + 1
        BY <2>1, <3>2, <4>1, <4>4
      <4> QED BY <2>1, <4>3, <4>4
    <3>5. Len(chan'[s]) <= cast' /\ stream'[s] # "idle"
      BY <1>1, <2>1 DEF Copied, Told, Listening
    <3> QED BY <3>4, <3>5 DEF Copied
  <2> QED BY <1>1, <2>2, <2>3, NothingNew
<1>3. CASE s \notin listeners
  <2>1. chan'[s] = chan[s] /\ stream[s] \notin Listening
    BY <1>3 DEF Distribute, TypeOK
  <2>2. Copied(s)'
    BY <1>1, <2>1 DEF Copied, Told
  <2> QED BY <1>1, <2>1, <2>2, NothingNew
<1> QED BY <1>2, <1>3

LEMMA Elsewhere ==
  ASSUME NEW s \in Streams, Told(s), UNCHANGED <<connectionVars, cast>>,
         stream'[s] = stream[s], told'[s] = told[s], chan'[s] = chan[s],
         s \in unaware' <=> s \in unaware
  PROVE  Told(s)'
<1>1. Place(s)' = Place(s)
  BY DEF Place
<1>2. Copied(s)'
  BY <1>1 DEF Copied, Told, connectionVars
<1> QED BY <1>1, <1>2, NothingNew

(***************************************************************************)
(* Steps of the stream itself                                              *)
(***************************************************************************)
\* A stream that does not listen has been promised nothing.
LEMMA NotListening ==
  ASSUME NEW s \in Streams, stream[s] \notin Listening, stream[s] = "idle" => chan[s] = <<>>
  PROVE  Told(s)
  BY DEF Told, Copied, DownTold, UpTold, MailWasTold, Greeted, Listening

LEMMA CloseStep ==
  ASSUME TypeOK, NEW s \in Streams, Close(s)
  PROVE  Told(s)'
<1>1. stream'[s] = "closed"
  BY DEF Close, Go, TypeOK
<1> QED BY <1>1 DEF Told, Copied, DownTold, UpTold, MailWasTold, Greeted, Listening

LEMMA SubscribeStep ==
  ASSUME TypeOK, History, NEW s \in Streams, Told(s), Subscribe(s)
  PROVE  Told(s)'
<1>1. /\ stream[s] = "idle" /\ stream'[s] = "subscribed" /\ chan[s] = <<>>
      /\ UNCHANGED <<connectionVars, castVars>>
  BY DEF Subscribe, Go, Told, Copied, TypeOK
<1>2. /\ chan'[s] = <<>> /\ cast' = cast /\ cast \in Nat /\ Place(s)' = cast
  BY <1>1 DEF castVars, Place, TypeOK
<1>3. Copied(s)'
  BY <1>1, <1>2 DEF Copied
<1>4. link = "announced" /\ s \notin unaware' => ~OnlyMail(s)'
  <2> SUFFICES ASSUME link = "announced", s \notin unaware'
               PROVE  ~OnlyMail(s)'
    OBVIOUS
  <2>1. PICK i \in cast + 1 .. Len(notify) : notify[i] = "connected"
    BY DEF Subscribe, ConnectedGone
  <2> QED BY <1>1, <1>2, <2>1 DEF OnlyMail, connectionVars
<1> QED BY <1>1, <1>3, <1>4
        DEF Told, DownTold, UpTold, MailWasTold, Greeted, connectionVars

\* The stream goes on, with nothing told and nothing received.
LEMMA GoOn ==
  ASSUME NEW s \in Streams, Told(s), UNCHANGED <<connectionVars, castVars, told, unaware>>,
         stream[s] \in {"greeted", "loop", "recv"}, stream'[s] \in {"loop", "recv"},
         stream[s] = "greeted" => link # "up"
  PROVE  Told(s)'
<1>1. Place(s)' = Place(s)
  BY DEF Place, castVars
<1>2. /\ \A e : LastWordIs(s, e) <=> LastWordIs(s, e)'
      /\ MailSince(s) <=> MailSince(s)'
      /\ OnlyMail(s) <=> OnlyMail(s)'
  BY <1>1 DEF LastWordIs, MailSince, OnlyMail, connectionVars
<1>3. Copied(s)'
  BY <1>1 DEF Told, Copied, Listening, castVars, connectionVars
<1>4. DownTold(s)' /\ UpTold(s)'
  BY <1>1, <1>2 DEF Told, DownTold, UpTold, Greeted, Listening, connectionVars
<1>5. MailWasTold(s)'
  <2>1. CASE stream[s] = "greeted"
    <3> SUFFICES ASSUME link = "announced", s \notin unaware, Place(s) = Len(notify)
                 PROVE  FALSE
      BY <1>1, <2>1 DEF MailWasTold, connectionVars
    <3>1. OnlyMail(s)
      BY DEF OnlyMail
    <3> QED BY <2>1, <3>1 DEF Told, UpTold, Listening
  <2>2. CASE stream[s] # "greeted"
    BY <1>1, <1>2, <2>2 DEF Told, MailWasTold, connectionVars
  <2> QED BY <2>1, <2>2
<1> QED BY <1>3, <1>4, <1>5 DEF Told

LEMMA FirstEventStep ==
  ASSUME TypeOK, History, NEW s \in Streams, Told(s), FirstEvent(s)
  PROVE  Told(s)'
<1>1. CASE Close(s)
  BY <1>1, CloseStep
<1>2. ASSUME Tell(s, IF authenticated THEN "connected" ELSE "disconnected", "greeted")
      PROVE  Told(s)'
  <2>1. /\ stream[s] = "subscribed" /\ stream'[s] = "greeted"
        /\ UNCHANGED <<connectionVars, castVars, unaware>> /\ Place(s)' = Place(s)
    BY <1>2 DEF FirstEvent, Tell, Go, TypeOK, Place, castVars
  <2>2. LastWordIs(s, IF authenticated THEN "connected" ELSE "disconnected")'
    <3>1. /\ told[s] \in Seq(Notices)
          /\ told'[s] = Append(told[s], IF authenticated THEN "connected" ELSE "disconnected")
      BY <1>2 DEF Tell, TypeOK
    <3>2. CASE authenticated
      <4>1. LastWordIs(s, "connected")'
        BY <3>1, <3>2, TellStatus
      <4> QED BY <2>1, <3>2, <4>1 DEF connectionVars
    <3>3. CASE ~authenticated
      <4>1. LastWordIs(s, "disconnected")'
        BY <3>1, <3>3, TellStatus
      <4> QED BY <2>1, <3>3, <4>1 DEF connectionVars
    <3> QED BY <3>2, <3>3
  <2>3. authenticated' <=> link' = "up"
    BY <2>1 DEF connectionVars, History
  <2>4. Copied(s)'
    BY <2>1 DEF Told, Copied, Listening, castVars, connectionVars
  <2>5. OnlyMail(s) <=> OnlyMail(s)'
    BY <2>1 DEF OnlyMail, connectionVars
  <2>6. DownTold(s)'
    BY <2>2, <2>3 DEF DownTold
  <2>7. UpTold(s)'
    BY <2>1, <2>2, <2>3, <2>5 DEF Told, UpTold, Listening, connectionVars
  <2>8. MailWasTold(s)'
    BY <2>1 DEF MailWasTold
  <2> QED BY <2>4, <2>6, <2>7, <2>8 DEF Told
<1> QED BY <1>1, <1>2 DEF FirstEvent

LEMMA MailEventStep ==
  ASSUME TypeOK, History, NEW s \in Streams, Told(s), MailEvent(s)
  PROVE  Told(s)'
<1>1. CASE Close(s)
  BY <1>1, CloseStep
<1>2. ASSUME authenticated, Tell(s, "new_mail", "loop")
      PROVE  Told(s)'
  <2>1. /\ stream[s] = "greeted" /\ stream'[s] = "loop" /\ link' = link /\ link = "up"
        /\ UNCHANGED <<connectionVars, castVars, unaware>> /\ Place(s)' = Place(s)
    BY <1>2 DEF MailEvent, Tell, Go, TypeOK, Place, castVars, History, connectionVars
  <2>2. MailSince(s)' /\ \A e : LastWordIs(s, e) => LastWordIs(s, e)'
    <3>1. told[s] \in Seq(Notices) /\ told'[s] = Append(told[s], "new_mail")
      BY <1>2 DEF Tell, TypeOK
    <3> QED BY <3>1, TellMail
  <2>3. Copied(s)'
    BY <2>1 DEF Told, Copied, Listening, castVars, connectionVars
  <2>4. OnlyMail(s) <=> OnlyMail(s)'
    BY <2>1 DEF OnlyMail, connectionVars
  <2>5. UpTold(s)'
    BY <2>1, <2>2, <2>4 DEF Told, UpTold, Listening
  <2> QED BY <2>1, <2>2, <2>3, <2>5 DEF Told, DownTold, MailWasTold
<1>3. ASSUME ~authenticated PROVE Told(s)'
  <2>1. /\ UNCHANGED <<connectionVars, castVars, told, unaware>>
        /\ stream[s] = "greeted" /\ stream'[s] = "loop" /\ link # "up"
    BY <1>3 DEF MailEvent, Go, TypeOK, History
  <2> QED BY <2>1, GoOn
<1> QED BY <1>1, <1>2, <1>3 DEF MailEvent

LEMMA ForwardStep ==
  ASSUME TypeOK, History, NEW s \in Streams, Told(s), Forward(s)
  PROVE  Told(s)'
<1>1. CASE Close(s)
  BY <1>1, CloseStep
<1>2. ASSUME Tell(s, Head(chan[s]), "loop"),
             unaware' = IF Head(chan[s]) = "connected" THEN unaware \ {s} ELSE unaware
      PROVE  Told(s)'
  <2>a. PICK e : e = Head(chan[s])
    OBVIOUS
  <2>b. PICK n : n = Place(s) + 1
    OBVIOUS
  <2>1. /\ stream[s] = "recv" /\ stream'[s] = "loop" /\ UNCHANGED <<connectionVars, cast>>
        /\ told'[s] = Append(told[s], e) /\ told[s] \in Seq(Notices)
        /\ chan'[s] = Tail(chan[s]) /\ chan[s] \in Seq(Notices) /\ chan[s] # <<>>
        /\ cast \in 0 .. Len(notify) /\ Len(notify) \in Nat
    BY <1>2, <2>a DEF Forward, Tell, Go, TypeOK
  <2>2. /\ Len(chan[s]) \in Nat /\ Len(chan[s]) > 0 /\ Len(chan[s]) <= cast
        /\ Len(chan'[s]) = Len(chan[s]) - 1
        /\ \A i \in 1 .. Len(chan[s]) : chan[s][i] = notify[Place(s) + i]
        /\ \A i \in 1 .. Len(chan[s]) - 1 : chan'[s][i] = chan[s][i + 1]
        /\ e = chan[s][1]
    BY <2>1, <2>a DEF Told, Copied, Listening
  <2>3. /\ Place(s) \in Nat /\ n \in 1 .. Len(notify) /\ Place(s)' = n /\ e = notify[n]
    <3>0. Place(s) = cast - Len(chan[s]) /\ Place(s)' = cast - (Len(chan[s]) - 1)
      BY <2>1, <2>2 DEF Place
    <3>1. Place(s) \in Nat /\ n \in 1 .. Len(notify) /\ Place(s)' = n
      <4>1. cast \in Nat /\ cast <= Len(notify)
        BY <2>1
      <4> QED BY <2>1, <2>2, <2>b, <3>0, <4>1
    <3>2. notify[Place(s) + 1] = chan[s][1]
      BY <2>2
    <3> QED BY <2>2, <2>b, <3>1, <3>2
  <2>4. Copied(s)'
    <3>1. \A i \in 1 .. Len(chan[s]) - 1 : chan'[s][i] = notify[n + i]
      <4> SUFFICES ASSUME NEW i \in 1 .. Len(chan[s]) - 1 PROVE chan'[s][i] = notify[n + i]
        OBVIOUS
      <4>1. i + 1 \in 1 .. Len(chan[s]) /\ Place(s) + (i + 1) = n + i
        <5>1. Len(chan[s]) \in Nat /\ Place(s) \in Nat /\ i \in Nat
          BY <2>2, <2>3
        <5> QED BY <2>b, <5>1
      <4> QED BY <2>2, <4>1
    <3> QED BY <2>1, <2>2, <2>3, <3>1 DEF Copied, connectionVars
  <2>5. e \in Notices /\ (e # "new_mail" => LastWordIs(s, e)')
    <3>1. notify[n] \in Notices
      BY <2>3 DEF TypeOK
    <3> QED BY <2>1, <2>3, <3>1, TellStatus
  <2>6. e = "new_mail" => MailSince(s)' /\ \A x : LastWordIs(s, x) => LastWordIs(s, x)'
    BY <2>1, TellMail
  <2>7. OnlyMail(s)' /\ link \in {"announced", "up"} => e \in {"connected", "new_mail"}
    <3> SUFFICES ASSUME OnlyMail(s)', link \in {"announced", "up"}, e = "disconnected"
                 PROVE  FALSE
      BY <2>5 DEF Notices
    <3>1. PICK i \in 1 .. Len(notify) :
            notify[i] = "connected" /\ \A j \in i + 1 .. Len(notify) : notify[j] = "new_mail"
      BY DEF History, ConnectedSince
    <3>2. \A j \in n + 1 .. Len(notify) : notify[j] = "new_mail"
      BY <2>1, <2>3 DEF OnlyMail, connectionVars
    <3>3. i <= n
      BY <2>1, <2>3, <3>1, <3>2
    <3>4. n \in i + 1 .. Len(notify) \/ i = n
      BY <2>1, <2>3, <3>3
    <3> QED BY <2>3, <3>1, <3>4
  <2>8. DownTold(s)'
    <3> SUFFICES ASSUME link = "down", n = Len(notify)
                 PROVE  LastWordIs(s, "disconnected")'
      BY <2>1, <2>3 DEF DownTold, connectionVars
    <3>1. e = "disconnected"
      BY <2>1, <2>3 DEF History
    <3> QED BY <2>1, <2>5, <3>1
  <2>9. UpTold(s)'
    <3> SUFFICES ASSUME link \in {"announced", "up"}, s \notin unaware', OnlyMail(s)'
                 PROVE  LastWordIs(s, "connected")'
      BY <2>1 DEF UpTold, connectionVars
    <3>1. CASE e = "connected"
      BY <2>5, <3>1
    <3>2. CASE e = "new_mail"
      <4>1. s \notin unaware
        BY <1>2, <3>2, <2>a
      <4>2. OnlyMail(s)
        <5>1. \A j \in n + 1 .. Len(notify) : notify[j] = "new_mail"
          BY <2>1, <2>3 DEF OnlyMail, connectionVars
        <5>2. \A j \in Place(s) + 1 .. Len(notify) : j = n \/ j \in n + 1 .. Len(notify)
          BY <2>1, <2>3, <2>b
        <5> QED BY <2>3, <3>2, <5>1, <5>2 DEF OnlyMail
      <4>3. LastWordIs(s, "connected")
        BY <2>1, <4>1, <4>2 DEF Told, UpTold, Listening
      <4> QED BY <2>6, <3>2, <4>3
    <3> QED BY <2>7, <3>1, <3>2
  <2>10. MailWasTold(s)'
    <3> SUFFICES ASSUME n = Len(notify), notify[Len(notify)] = "new_mail"
                 PROVE  MailSince(s)'
      BY <2>1, <2>3 DEF MailWasTold, connectionVars
    <3> QED BY <2>3, <2>6
  <2> QED BY <2>4, <2>8, <2>9, <2>10 DEF Told
<1> QED BY <1>1, <1>2 DEF Forward

LEMMA StreamStep ==
  ASSUME TypeOK, History, NEW s \in Streams, Told(s), Handler(s)
  PROVE  Told(s)'
<1>1. CASE FirstEvent(s)
  BY <1>1, FirstEventStep
<1>2. CASE MailEvent(s)
  BY <1>2, MailEventStep
<1>3. CASE Forward(s)
  BY <1>3, ForwardStep
<1>4. ASSUME CheckFlag(s) \/ KeepAlive(s) PROVE Told(s)'
  <2>1. CASE Close(s)
    BY <2>1, CloseStep
  <2>2. CASE ~Close(s)
    <3>1. /\ UNCHANGED <<connectionVars, castVars, told, unaware>>
          /\ stream[s] \in {"loop", "recv"} /\ stream'[s] \in {"loop", "recv"}
      BY <1>4, <2>2 DEF CheckFlag, KeepAlive, Go, TypeOK
    <3> QED BY <3>1, GoOn
  <2> QED BY <2>1, <2>2
<1> QED BY <1>1, <1>2, <1>3, <1>4 DEF Handler

(***************************************************************************)
(* The invariant and what it gives                                         *)
(***************************************************************************)
LEMMA InitInv == Init => IInv
<1> SUFFICES ASSUME Init PROVE \A s \in Streams : Told(s)
  BY InitType, InitHistory DEF IInv
<1>1. \A s \in Streams : stream[s] = "idle" /\ chan[s] = <<>>
  BY DEF Init
<1>2. "idle" \notin Listening
  BY DEF Listening
<1> QED BY <1>1, <1>2, NotListening

LEMMA NextInv == IInv /\ [Next]_vars => IInv'
<1> SUFFICES ASSUME IInv, [Next]_vars PROVE History' /\ \A s \in Streams : Told(s)'
  BY NextType DEF IInv
<1> USE DEF IInv
<1>1. CASE UNCHANGED vars
  <2>1. History'
    BY <1>1 DEF vars, connectionVars, History, ConnectedSince
  <2>2. ASSUME NEW s \in Streams PROVE Told(s)'
    BY <1>1, Elsewhere DEF vars, castVars, streamVars
  <2> QED BY <2>1, <2>2
<1>2. CASE Client
  BY <1>2, HistoryStep, ClientStep DEF Client
<1>3. ASSUME UNCHANGED connectionVars PROVE History'
  BY <1>3 DEF connectionVars, History, ConnectedSince
<1>4. CASE Distribute
  BY <1>3, <1>4, DistributeStep DEF Distribute
<1>5. CASE Shutdown
  <2>1. ASSUME NEW s \in Streams PROVE Told(s)'
    BY <1>5, Elsewhere DEF Shutdown, castVars, streamVars
  <2> QED BY <1>3, <1>5, <2>1 DEF Shutdown
<1>6. ASSUME NEW s \in Streams, Subscribe(s) \/ Handler(s)
      PROVE  History' /\ \A t \in Streams : Told(t)'
  <2>1. UNCHANGED <<connectionVars, cast>>
    BY <1>6 DEF Subscribe, Handler, FirstEvent, MailEvent, CheckFlag, Forward, KeepAlive, castVars
  <2>2. Told(s)'
    BY <1>6, SubscribeStep, StreamStep
  <2>3. ASSUME NEW t \in Streams, t # s PROVE Told(t)'
    <3>1. /\ stream'[t] = stream[t] /\ told'[t] = told[t] /\ chan'[t] = chan[t]
          /\ t \in unaware' <=> t \in unaware
      <4>1. CASE Subscribe(s)
        BY <2>3, <4>1 DEF Subscribe, Go, TypeOK, castVars
      <4>2. CASE FirstEvent(s)
        BY <2>3, <4>2 DEF FirstEvent, Tell, Close, Go, TypeOK, castVars
      <4>3. CASE MailEvent(s)
        BY <2>3, <4>3 DEF MailEvent, Tell, Close, Go, TypeOK, castVars
      <4>4. CASE CheckFlag(s)
        BY <2>3, <4>4 DEF CheckFlag, Close, Go, TypeOK, castVars
      <4>5. CASE Forward(s)
        BY <2>3, <4>5 DEF Forward, Tell, Close, Go, TypeOK
      <4>6. CASE KeepAlive(s)
        BY <2>3, <4>6 DEF KeepAlive, Close, Go, TypeOK, castVars
      <4> QED BY <1>6, <4>1, <4>2, <4>3, <4>4, <4>5, <4>6 DEF Handler
    <3> QED BY <2>1, <3>1, Elsewhere
  <2> QED BY <1>3, <2>1, <2>2, <2>3
<1> QED BY <1>1, <1>2, <1>4, <1>5, <1>6 DEF Next

LEMMA Invariant == Spec => []IInv
<1> QED BY InitInv, NextInv, PTL DEF Spec

\* A stream with nothing on its way to it is at the end of notify.
LEMMA QuietPlace ==
  ASSUME IInv, NEW s \in Streams, Quiet(s)
  PROVE  Place(s) = Len(notify) /\ OnlyMail(s) /\ stream[s] \in Greeted
<1>1. Place(s) = Len(notify)
  BY DEF IInv, TypeOK, Quiet, Place
<1> QED BY <1>1 DEF IInv, TypeOK, Quiet, OnlyMail, Greeted, Listening

(* However the two reads of connected(), the subscription and the copying of *)
(* notifications interleave, the last a stream said of the connection is     *)
(* true once nothing is on its way to it.                                   *)
THEOREM LastWordIsTrue == Spec => []LastWord
<1>1. IInv => LastWord
  <2> SUFFICES ASSUME IInv, NEW s \in Streams, Quiet(s)
               PROVE  /\ link = "down" => LastWordIs(s, "disconnected")
                      /\ link = "up" /\ s \notin unaware => LastWordIs(s, "connected")
    BY DEF LastWord
  <2>1. Place(s) = Len(notify) /\ OnlyMail(s) /\ stream[s] \in Greeted
    BY QuietPlace
  <2>2. Told(s)
    BY DEF IInv
  <2> QED BY <2>1, <2>2 DEF Told, DownTold, UpTold, Greeted, Listening, Quiet
<1> QED BY <1>1, Invariant, PTL

(* Mail that was announced in the present connection was told of on every    *)
(* stream with nothing on its way to it, also on one that was opened later.  *)
THEOREM MailIsTold == Spec => []MailTold
<1>1. IInv => MailTold
  <2> SUFFICES ASSUME IInv, NEW s \in Streams, Quiet(s), link = "up", s \notin unaware,
                      notify[Len(notify)] = "new_mail"
               PROVE  MailSince(s)
    BY DEF MailTold, MailSince
  <2>1. Place(s) = Len(notify) /\ Told(s)
    BY QuietPlace DEF IInv
  <2> QED BY <2>1 DEF Told, MailWasTold, Quiet
<1> QED BY <1>1, Invariant, PTL
=============================================================================
