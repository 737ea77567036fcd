---------------------------- MODULE RouterProofs ----------------------------
(***************************************************************************)
(* What holds of the routers and their connections for every number of     *)
(* servers, senders, batches, connections and events, and both transports. *)
(***************************************************************************)
EXTENDS Router, TLAPS

-----------------------------------------------------------------------------
(* The fields of a connection, and what the operators do to each.          *)

Frames == Msgs \cup {Hello}
Sides == {1, 2}
Conn ==
    [ends : [Sides -> Nodes], broken : BOOLEAN, open : [Sides -> BOOLEAN],
     buf : [Sides -> Seq(Frames)], got : [Sides -> Frames],
     channel : [Sides -> Nat], at : [Sides -> Places]]

EndsOf(cs) == (1..Len(cs)) \X Sides

\* The same connections, between the same servers.
SameConns(cs, ds) ==
    /\ ds \in Seq(Conn) /\ Len(ds) = Len(cs)
    /\ \A k \in 1..Len(cs) : ds[k].ends = cs[k].ends
\* One field of all ends is as it was, or is changed at the end e only.
SamePlaces(cs, ds) == \A k \in 1..Len(cs) : \A i \in Sides : ds[k].at[i] = cs[k].at[i]
SameOpen(cs, ds) == \A k \in 1..Len(cs) : \A i \in Sides : ds[k].open[i] = cs[k].open[i]
SameBuf(cs, ds) == \A k \in 1..Len(cs) : \A i \in Sides : ds[k].buf[i] = cs[k].buf[i]
SameGot(cs, ds) == \A k \in 1..Len(cs) : \A i \in Sides : ds[k].got[i] = cs[k].got[i]
SameChannel(cs, ds) == \A k \in 1..Len(cs) : \A i \in Sides : ds[k].channel[i] = cs[k].channel[i]
AtOnly(cs, ds, e, place) ==
    \A k \in 1..Len(cs) : \A i \in Sides :
        ds[k].at[i] = IF k = e[1] /\ i = e[2] THEN place ELSE cs[k].at[i]
BufOnly(cs, ds, e, b) ==
    \A k \in 1..Len(cs) : \A i \in Sides :
        ds[k].buf[i] = IF k = e[1] /\ i = e[2] THEN b ELSE cs[k].buf[i]
GotOnly(cs, ds, e, m) ==
    \A k \in 1..Len(cs) : \A i \in Sides :
        ds[k].got[i] = IF k = e[1] /\ i = e[2] THEN m ELSE cs[k].got[i]
ChannelOnly(cs, ds, e, c) ==
    \A k \in 1..Len(cs) : \A i \in Sides :
        ds[k].channel[i] = IF k = e[1] /\ i = e[2] THEN c ELSE cs[k].channel[i]

\* One connection of a sequence is replaced.
LEMMA Replaced ==
    ASSUME NEW cs \in Seq(Conn), NEW k \in 1..Len(cs), NEW c \in Conn,
           NEW ds, ds = [cs EXCEPT ![k] = c]
    PROVE  /\ ds \in Seq(Conn) /\ Len(ds) = Len(cs)
           /\ ds[k] = c /\ \A j \in 1..Len(cs) : j # k => ds[j] = cs[j]
  OBVIOUS

LEMMA EndParts ==
    ASSUME NEW cs \in Seq(Conn), NEW e \in EndsOf(cs)
    PROVE  e[1] \in 1..Len(cs) /\ e[2] \in Sides /\ cs[e[1]] \in Conn
  BY DEF EndsOf

LEMMA MovedFields ==
    ASSUME NEW cs \in Seq(Conn), NEW e \in EndsOf(cs), NEW place \in Places,
           NEW ds, ds = Moved(cs, e, place)
    PROVE  /\ SameConns(cs, ds) /\ AtOnly(cs, ds, e, place) /\ SameOpen(cs, ds)
           /\ SameBuf(cs, ds) /\ SameGot(cs, ds) /\ SameChannel(cs, ds)
<1> DEFINE c == [cs[e[1]] EXCEPT !.at = [@ EXCEPT ![e[2]] = place]]
<1>1. e[1] \in 1..Len(cs) /\ e[2] \in Sides /\ cs[e[1]] \in Conn
  BY EndParts
<1>2. /\ c \in Conn
      /\ c.ends = cs[e[1]].ends /\ c.open = cs[e[1]].open /\ c.buf = cs[e[1]].buf
      /\ c.got = cs[e[1]].got /\ c.channel = cs[e[1]].channel
      /\ \A i \in Sides : c.at[i] = IF i = e[2] THEN place ELSE cs[e[1]].at[i]
  BY <1>1 DEF Conn
<1>3. ds = [cs EXCEPT ![e[1]] = c]
  BY DEF Moved
<1> HIDE DEF c
<1>4. /\ ds \in Seq(Conn) /\ Len(ds) = Len(cs)
      /\ ds[e[1]] = c /\ \A j \in 1..Len(cs) : j # e[1] => ds[j] = cs[j]
  BY <1>1, <1>2, <1>3, Replaced
<1> QED  BY <1>1, <1>2, <1>4
         DEF SameConns, AtOnly, SameOpen, SameBuf, SameGot, SameChannel

\* Received, for any sequence of connections.
LEMMA ReceivedFields ==
    ASSUME conns \in Seq(Conn), NEW e \in EndsOf(conns), Incoming(e) # <<>>,
           NEW ds, ds = Received(e)
    PROVE  /\ SameConns(conns, ds) /\ SamePlaces(conns, ds) /\ SameOpen(conns, ds)
           /\ SameChannel(conns, ds)
           /\ BufOnly(conns, ds, e, Tail(Incoming(e)))
           /\ GotOnly(conns, ds, e, Head(Incoming(e)))
<1> DEFINE b == conns[e[1]].buf[e[2]]
           c1 == [conns[e[1]] EXCEPT !.buf = [@ EXCEPT ![e[2]] = Tail(b)]]
           c == [c1 EXCEPT !.got = [@ EXCEPT ![e[2]] = Head(b)]]
<1>1. e[1] \in 1..Len(conns) /\ e[2] \in Sides /\ conns[e[1]] \in Conn
  BY EndParts
<1>2. b \in Seq(Frames) /\ Tail(b) \in Seq(Frames) /\ Head(b) \in Frames /\ b = Incoming(e)
  BY <1>1 DEF Conn, Incoming
<1>3. ds = [conns EXCEPT ![e[1]] = c]
  BY <1>1, <1>2 DEF Received, Incoming, Conn
<1> HIDE DEF b
<1>4. /\ c \in Conn
      /\ c.ends = conns[e[1]].ends /\ c.open = conns[e[1]].open /\ c.at = conns[e[1]].at
      /\ c.channel = conns[e[1]].channel
      /\ \A i \in Sides : c.buf[i] = IF i = e[2] THEN Tail(b) ELSE conns[e[1]].buf[i]
      /\ \A i \in Sides : c.got[i] = IF i = e[2] THEN Head(b) ELSE conns[e[1]].got[i]
  BY <1>1, <1>2 DEF Conn
<1> HIDE DEF c
<1>5. /\ ds \in Seq(Conn) /\ Len(ds) = Len(conns)
      /\ ds[e[1]] = c /\ \A j \in 1..Len(conns) : j # e[1] => ds[j] = conns[j]
  BY <1>1, <1>3, <1>4, Replaced
<1> QED  BY <1>1, <1>2, <1>4, <1>5
         DEF SameConns, SamePlaces, SameOpen, SameChannel, BufOnly, GotOnly

LEMMA PausedFields ==
    ASSUME NEW cs \in Seq(Conn), NEW e \in EndsOf(cs), paused[NodeOf(e)] \in Nat,
           NEW ds, ds = Paused(cs, e)
    PROVE  /\ SameConns(cs, ds) /\ SamePlaces(cs, ds) /\ SameOpen(cs, ds)
           /\ SameBuf(cs, ds) /\ SameGot(cs, ds)
           /\ ChannelOnly(cs, ds, e, paused[NodeOf(e)])
<1> DEFINE p == paused[NodeOf(e)]
           c == [cs[e[1]] EXCEPT !.channel = [@ EXCEPT ![e[2]] = p]]
<1>1. e[1] \in 1..Len(cs) /\ e[2] \in Sides /\ cs[e[1]] \in Conn
  BY EndParts
<1>2. ds = [cs EXCEPT ![e[1]] = c]
  BY DEF Paused
<1> HIDE DEF p
<1>3. /\ c \in Conn
      /\ c.ends = cs[e[1]].ends /\ c.open = cs[e[1]].open /\ c.buf = cs[e[1]].buf
      /\ c.got = cs[e[1]].got /\ c.at = cs[e[1]].at
      /\ \A i \in Sides : c.channel[i] = IF i = e[2] THEN p ELSE cs[e[1]].channel[i]
  BY <1>1 DEF Conn, p
<1> HIDE DEF c
<1>4. /\ ds \in Seq(Conn) /\ Len(ds) = Len(cs)
      /\ ds[e[1]] = c /\ \A j \in 1..Len(cs) : j # e[1] => ds[j] = cs[j]
  BY <1>1, <1>2, <1>3, Replaced
<1> QED  BY <1>1, <1>3, <1>4
         DEF SameConns, SamePlaces, SameOpen, SameBuf, SameGot, ChannelOnly, p

LEMMA ForgottenFields ==
    ASSUME NEW cs \in Seq(Conn), NEW e \in EndsOf(cs), NEW ds, ds = Forgotten(cs, e)
    PROVE  /\ SameConns(cs, ds) /\ SamePlaces(cs, ds) /\ SameOpen(cs, ds)
           /\ SameBuf(cs, ds) /\ GotOnly(cs, ds, e, Hello) /\ ChannelOnly(cs, ds, e, 0)
<1> DEFINE c1 == [cs[e[1]] EXCEPT !.got = [@ EXCEPT ![e[2]] = Hello]]
           c == [c1 EXCEPT !.channel = [@ EXCEPT ![e[2]] = 0]]
<1>1. e[1] \in 1..Len(cs) /\ e[2] \in Sides /\ cs[e[1]] \in Conn
  BY EndParts
<1>2. ds = [cs EXCEPT ![e[1]] = c]
  BY <1>1 DEF Forgotten, Conn
<1>3. /\ c \in Conn
      /\ c.ends = cs[e[1]].ends /\ c.open = cs[e[1]].open /\ c.buf = cs[e[1]].buf
      /\ c.at = cs[e[1]].at
      /\ \A i \in Sides : c.got[i] = IF i = e[2] THEN Hello ELSE cs[e[1]].got[i]
      /\ \A i \in Sides : c.channel[i] = IF i = e[2] THEN 0 ELSE cs[e[1]].channel[i]
  BY <1>1 DEF Conn, Frames
<1> HIDE DEF c
<1>4. /\ ds \in Seq(Conn) /\ Len(ds) = Len(cs)
      /\ ds[e[1]] = c /\ \A j \in 1..Len(cs) : j # e[1] => ds[j] = cs[j]
  BY <1>1, <1>2, <1>3, Replaced
<1> QED  BY <1>1, <1>3, <1>4
         DEF SameConns, SamePlaces, SameOpen, SameBuf, GotOnly, ChannelOnly

\* A buffer keeps what it has, or is emptied; an end that is closed stays closed.
BufKeptOrEmpty(cs, ds) ==
    \A k \in 1..Len(cs) : \A i \in Sides :
        ds[k].buf[i] = cs[k].buf[i] \/ ds[k].buf[i] = <<>>
NoneOpened(cs, ds) ==
    \A k \in 1..Len(cs) : \A i \in Sides : ds[k].open[i] => cs[k].open[i]

LEMMA TCPClosedFields ==
    ASSUME NEW c \in Conn, NEW here \in SUBSET Sides, NEW d, d = TCPClosed(c, here)
    PROVE  /\ d \in Conn /\ d.ends = c.ends /\ d.at = c.at /\ d.got = c.got
           /\ d.channel = c.channel
           /\ \A i \in Sides : d.open[i] = (c.open[i] /\ i \notin here)
           /\ \A i \in Sides : d.buf[i] = IF i \in here THEN <<>> ELSE c.buf[i]
<1> DEFINE o == [i \in Sides |-> c.open[i] /\ i \notin here]
           b == [i \in Sides |-> IF i \in here THEN <<>> ELSE c.buf[i]]
<1>1. d = [[c EXCEPT !.open = o] EXCEPT !.buf = b]
  BY DEF TCPClosed, Conn, Sides
<1>2. <<>> \in Seq(Frames)
  OBVIOUS
<1>3. b \in [Sides -> Seq(Frames)] /\ o \in [Sides -> BOOLEAN]
  BY <1>2 DEF Conn
<1>4. /\ \A i \in Sides : o[i] = (c.open[i] /\ i \notin here)
      /\ \A i \in Sides : b[i] = IF i \in here THEN <<>> ELSE c.buf[i]
  OBVIOUS
<1> HIDE DEF o, b
<1> QED  BY <1>1, <1>3, <1>4 DEF Conn

LEMMA LocalClosedFields ==
    ASSUME NEW c \in Conn, NEW here \in SUBSET Sides, NEW d, d = LocalClosed(c, here)
    PROVE  /\ d \in Conn /\ d.ends = c.ends /\ d.at = c.at /\ d.got = c.got
           /\ d.channel = c.channel /\ d.buf = c.buf
           /\ \A i \in Sides : d.open[i] = (c.open[i] /\ here = {})
<1> DEFINE o == [i \in Sides |-> c.open[i] /\ here = {}]
<1>1. d = [c EXCEPT !.open = o]
  BY DEF LocalClosed, Conn, Sides
<1>2. o \in [Sides -> BOOLEAN]
  BY DEF Conn
<1>3. \A i \in Sides : o[i] = (c.open[i] /\ here = {})
  OBVIOUS
<1> HIDE DEF o
<1> QED  BY <1>1, <1>2, <1>3 DEF Conn

LEMMA ClosedFields ==
    ASSUME NEW cs \in Seq(Conn), NEW es, NEW ds, ds = Closed(cs, es)
    PROVE  /\ SameConns(cs, ds) /\ SamePlaces(cs, ds) /\ SameGot(cs, ds)
           /\ SameChannel(cs, ds) /\ BufKeptOrEmpty(cs, ds) /\ NoneOpened(cs, ds)
           /\ \A e \in EndsOf(cs) : e \in es => ~ds[e[1]].open[e[2]]
<1> DEFINE here(k) == {i \in Sides : <<k, i>> \in es}
           new(k) == IF transport = "tcp" THEN TCPClosed(cs[k], here(k))
                     ELSE LocalClosed(cs[k], here(k))
<1>1. ds = [k \in 1..Len(cs) |-> new(k)]
  BY DEF Closed, Sides
<1>2. \A k \in 1..Len(cs) : cs[k] \in Conn /\ here(k) \in SUBSET Sides
  OBVIOUS
<1>3. \A k \in 1..Len(cs) :
        /\ new(k) \in Conn /\ new(k).ends = cs[k].ends /\ new(k).at = cs[k].at
        /\ new(k).got = cs[k].got /\ new(k).channel = cs[k].channel
        /\ \A i \in Sides : /\ new(k).buf[i] = cs[k].buf[i] \/ new(k).buf[i] = <<>>
                            /\ new(k).open[i] => cs[k].open[i] /\ i \notin here(k)
  <2> SUFFICES ASSUME NEW k \in 1..Len(cs)
               PROVE  /\ new(k) \in Conn /\ new(k).ends = cs[k].ends /\ new(k).at = cs[k].at
                      /\ new(k).got = cs[k].got /\ new(k).channel = cs[k].channel
                      /\ \A i \in Sides :
                           /\ new(k).buf[i] = cs[k].buf[i] \/ new(k).buf[i] = <<>>
                           /\ new(k).open[i] => cs[k].open[i] /\ i \notin here(k)
    OBVIOUS
  <2>1. PICK h \in SUBSET Sides : h = here(k)
    OBVIOUS
  <2>2. PICK d : d = new(k)
    OBVIOUS
  <2>3. CASE transport = "tcp"
    <3>1. d = TCPClosed(cs[k], h)
      BY <2>1, <2>2, <2>3
    <3> HIDE DEF new, here
    <3>2. /\ d \in Conn /\ d.ends = cs[k].ends /\ d.at = cs[k].at /\ d.got = cs[k].got
          /\ d.channel = cs[k].channel
          /\ \A i \in Sides : d.open[i] = (cs[k].open[i] /\ i \notin h)
          /\ \A i \in Sides : d.buf[i] = IF i \in h THEN <<>> ELSE cs[k].buf[i]
      BY <1>2, <3>1, TCPClosedFields
    <3> QED  BY <2>1, <2>2, <3>2
  <2>4. CASE transport # "tcp"
    <3>1. d = LocalClosed(cs[k], h)
      BY <2>1, <2>2, <2>4
    <3> HIDE DEF new, here
    <3>2. /\ d \in Conn /\ d.ends = cs[k].ends /\ d.at = cs[k].at /\ d.got = cs[k].got
          /\ d.channel = cs[k].channel
          /\ d.buf = cs[k].buf
          /\ \A i \in Sides : d.open[i] = (cs[k].open[i] /\ h = {})
      BY <1>2, <3>1, LocalClosedFields
    <3> QED  BY <2>1, <2>2, <3>2
  <2> QED  BY <2>3, <2>4
<1>4. \A e \in EndsOf(cs) : e \in es => e[1] \in 1..Len(cs) /\ e[2] \in here(e[1])
  BY DEF EndsOf
<1> HIDE DEF new, here
<1>5. ds \in Seq(Conn) /\ Len(ds) = Len(cs) /\ \A k \in 1..Len(cs) : ds[k] = new(k)
  BY <1>1, <1>3
<1> QED
  <2>1. SameConns(cs, ds) /\ SamePlaces(cs, ds) /\ SameGot(cs, ds) /\ SameChannel(cs, ds)
    BY <1>3, <1>5 DEF SameConns, SamePlaces, SameGot, SameChannel
  <2>2. BufKeptOrEmpty(cs, ds) /\ NoneOpened(cs, ds)
    BY <1>3, <1>5 DEF BufKeptOrEmpty, NoneOpened
  <2>3. \A e \in EndsOf(cs) : e \in es => ~ds[e[1]].open[e[2]]
    BY <1>3, <1>4, <1>5 DEF EndsOf
  <2> QED  BY <2>1, <2>2, <2>3

\* A frame that is sent is the last of the buffer of the other end.
LEMMA SentFields ==
    ASSUME conns \in Seq(Conn), NEW e \in EndsOf(conns), NEW m \in Frames, Sends(e, m)
    PROVE  /\ SameConns(conns, conns') /\ SamePlaces(conns, conns') /\ SameOpen(conns, conns')
           /\ SameGot(conns, conns') /\ SameChannel(conns, conns')
           /\ Other(e) \in EndsOf(conns)
           /\ BufOnly(conns, conns', Other(e), Append(Incoming(Other(e)), m))
<1> DEFINE i == 3 - e[2]
           b == conns[e[1]].buf[i]
           c == [conns[e[1]] EXCEPT !.buf = [@ EXCEPT ![i] = Append(b, m)]]
<1>1. e[1] \in 1..Len(conns) /\ e[2] \in Sides /\ conns[e[1]] \in Conn
  BY EndParts
<1>2. /\ i \in Sides /\ Other(e) = <<e[1], i>> /\ Other(e) \in EndsOf(conns)
      /\ Other(e)[1] = e[1] /\ Other(e)[2] = i
  BY <1>1 DEF Sides, Other, EndsOf
<1>3. b \in Seq(Frames) /\ Append(b, m) \in Seq(Frames) /\ b = Incoming(Other(e))
  <2>1. b = Incoming(Other(e))
    BY <1>2 DEF Incoming
  <2>2. conns[e[1]].buf \in [Sides -> Seq(Frames)]
    BY <1>1 DEF Conn
  <2>3. b \in Seq(Frames)
    BY <1>2, <2>2
  <2> HIDE DEF b
  <2> QED  BY <2>1, <2>3
<1>4. conns' = [conns EXCEPT ![e[1]] = c]
  BY <1>1, <1>2 DEF Sends, Conn
<1> HIDE DEF i, b
<1>5. /\ c \in Conn
      /\ c.ends = conns[e[1]].ends /\ c.open = conns[e[1]].open /\ c.at = conns[e[1]].at
      /\ c.got = conns[e[1]].got /\ c.channel = conns[e[1]].channel
      /\ \A j \in Sides : c.buf[j] = IF j = i THEN Append(b, m) ELSE conns[e[1]].buf[j]
  BY <1>1, <1>2, <1>3 DEF Conn
<1> HIDE DEF c
<1>6. /\ conns' \in Seq(Conn) /\ Len(conns') = Len(conns)
      /\ conns'[e[1]] = c /\ \A j \in 1..Len(conns) : j # e[1] => conns'[j] = conns[j]
  BY <1>1, <1>4, <1>5, Replaced
<1>7. /\ SameConns(conns, conns') /\ SamePlaces(conns, conns') /\ SameOpen(conns, conns')
      /\ SameGot(conns, conns') /\ SameChannel(conns, conns')
  BY <1>5, <1>6 DEF SameConns, SamePlaces, SameOpen, SameGot, SameChannel
<1>8. BufOnly(conns, conns', Other(e), Append(b, m))
  BY <1>2, <1>5, <1>6 DEF BufOnly
<1> QED  BY <1>2, <1>3, <1>7, <1>8

\* A connection breaks: its buffers are emptied.
Broke(cs, k) == [cs EXCEPT ![k].broken = TRUE, ![k].buf = [i \in {1, 2} |-> <<>>]]

LEMMA BrokenFields ==
    ASSUME NEW cs \in Seq(Conn), NEW k \in 1..Len(cs), NEW ds, ds = Broke(cs, k)
    PROVE  /\ SameConns(cs, ds) /\ SamePlaces(cs, ds) /\ SameOpen(cs, ds)
           /\ SameGot(cs, ds) /\ SameChannel(cs, ds) /\ BufKeptOrEmpty(cs, ds)
<1> DEFINE b == [i \in {1, 2} |-> <<>>]
           c1 == [cs[k] EXCEPT !.broken = TRUE]
           c == [c1 EXCEPT !.buf = b]
<1>1. cs[k] \in Conn
  OBVIOUS
<1>2. ds = [cs EXCEPT ![k] = c]
  BY <1>1 DEF Broke, Conn
<1>3. b \in [Sides -> Seq(Frames)] /\ \A i \in Sides : b[i] = <<>>
  BY DEF Sides
<1> HIDE DEF b
<1>4. /\ c \in Conn
      /\ c.ends = cs[k].ends /\ c.open = cs[k].open /\ c.at = cs[k].at
      /\ c.got = cs[k].got /\ c.channel = cs[k].channel /\ c.buf = b
  BY <1>1, <1>3 DEF Conn
<1> HIDE DEF c
<1>5. /\ ds \in Seq(Conn) /\ Len(ds) = Len(cs)
      /\ ds[k] = c /\ \A j \in 1..Len(cs) : j # k => ds[j] = cs[j]
  BY <1>2, <1>4, Replaced
<1> QED  BY <1>3, <1>4, <1>5
         DEF SameConns, SamePlaces, SameOpen, SameGot, SameChannel, BufKeptOrEmpty

LEMMA Pair ==
    ASSUME NEW S, NEW a \in S, NEW b \in S, NEW f, f = <<a, b>>
    PROVE  f \in [Sides -> S] /\ f[1] = a /\ f[2] = b
<1>1. DOMAIN f = Sides
  BY DEF Sides
<1>2. \A i \in Sides : f[i] \in S
  BY DEF Sides
<1> QED  BY <1>1, <1>2

LEMMA ServersTyped ==
    ASSUME NEW s \in Senders
    PROVE  Source(s) \in Nodes /\ Target(s) \in Nodes
  BY RouterAssumption DEF Source, Target

\* A new connection.
LEMMA NewConnFields ==
    ASSUME NEW s \in Senders, NEW c, c = NewConn(s)
    PROVE  /\ c \in Conn
           /\ c.ends[1] = Source(s) /\ c.ends[2] = Target(s)
           /\ c.buf[1] = <<>> /\ c.buf[2] = <<Hello>>
           /\ c.at[1] = "dialed" /\ c.at[2] \in {"backlog", "hello"}
<1>1. PICK p : p = IF transport = "tcp" THEN "backlog" ELSE "hello"
  OBVIOUS
<1>2. p \in {"backlog", "hello"} /\ p \in Places
  BY <1>1 DEF Places
<1>3. /\ <<Source(s), Target(s)>> \in [Sides -> Nodes]
      /\ <<TRUE, TRUE>> \in [Sides -> BOOLEAN]
      /\ << <<>>, <<Hello>> >> \in [Sides -> Seq(Frames)]
      /\ <<Hello, Hello>> \in [Sides -> Frames]
      /\ <<0, 0>> \in [Sides -> Nat]
      /\ <<"dialed", p>> \in [Sides -> Places]
  <2>1. Hello \in Frames /\ <<Hello>> \in Seq(Frames) /\ <<>> \in Seq(Frames)
        /\ "dialed" \in Places
    BY DEF Frames, Places
  <2> QED  BY <1>2, <2>1, ServersTyped, Pair
<1>4. c = [ends |-> <<Source(s), Target(s)>>, broken |-> FALSE, open |-> <<TRUE, TRUE>>,
           buf |-> << <<>>, <<Hello>> >>, got |-> <<Hello, Hello>>, channel |-> <<0, 0>>,
           at |-> <<"dialed", p>>]
  BY <1>1 DEF NewConn
<1>5. /\ c.ends = <<Source(s), Target(s)>> /\ c.buf = << <<>>, <<Hello>> >>
      /\ c.at = <<"dialed", p>>
  BY <1>4
<1>6. c \in Conn
  <2>1. PICK ends \in [Sides -> Nodes] : ends = <<Source(s), Target(s)>>
    BY <1>3
  <2>2. PICK open \in [Sides -> BOOLEAN] : open = <<TRUE, TRUE>>
    BY <1>3
  <2>3. PICK buf \in [Sides -> Seq(Frames)] : buf = << <<>>, <<Hello>> >>
    BY <1>3
  <2>4. PICK got \in [Sides -> Frames] : got = <<Hello, Hello>>
    BY <1>3
  <2>5. PICK channel \in [Sides -> Nat] : channel = <<0, 0>>
    BY <1>3
  <2>6. PICK at \in [Sides -> Places] : at = <<"dialed", p>>
    BY <1>3
  <2>7. c = [ends |-> ends, broken |-> FALSE, open |-> open, buf |-> buf, got |-> got,
             channel |-> channel, at |-> at]
    BY <1>4, <2>1, <2>2, <2>3, <2>4, <2>5, <2>6
  <2> QED  BY <2>7 DEF Conn
<1> QED  BY <1>2, <1>5, <1>6

LEMMA AppendedFields ==
    ASSUME NEW cs \in Seq(Conn), NEW c \in Conn, NEW ds, ds = Append(cs, c)
    PROVE  /\ ds \in Seq(Conn) /\ Len(ds) = Len(cs) + 1 /\ ds[Len(ds)] = c
           /\ \A k \in 1..Len(cs) : k \in 1..Len(ds) /\ k # Len(ds) /\ ds[k] = cs[k]
           /\ \A k \in 1..Len(ds) : k \in 1..Len(cs) \/ k = Len(ds)
  OBVIOUS

-----------------------------------------------------------------------------
(* What the actions do to the ends of the connections.                     *)

Got(e) == conns[e[1]].got[e[2]]
Channel(e) == conns[e[1]].channel[e[2]]

\* No connection is made; the ends stay with their servers.
SameEnds ==
    /\ conns' \in Seq(Conn) /\ Len(conns') = Len(conns) /\ Made' = Made
    /\ \A f \in Made : NodeOf(f)' = NodeOf(f) /\ NodeOf(Other(f))' = NodeOf(Other(f))
    /\ \A f \in Made : IsOpen(f)' => IsOpen(f)
\* The end e goes to a place, and the others stay where they are.
Goes(e, place) ==
    /\ SameEnds
    /\ \A f \in Made : At(f)' = IF f = e THEN place ELSE At(f)
    /\ \A f \in Made : f # e => Got(f)' = Got(f) /\ Channel(f)' = Channel(f)
\* Every buffer keeps what it has or is emptied; or e takes the first frame.
Drops == \A f \in Made : Incoming(f)' = Incoming(f) \/ Incoming(f)' = <<>>
Takes(e) ==
    /\ Incoming(e) # <<>>
    /\ Got(e)' = Head(Incoming(e))
    /\ \A f \in Made : Incoming(f)' = IF f = e THEN Tail(Incoming(e)) ELSE Incoming(f)

LEMMA MadeEnds == Made = EndsOf(conns)
  BY DEF Made, EndsOf, Sides

LEMMA MadeParts ==
    ASSUME NEW f \in Made
    PROVE  /\ f[1] \in 1..Len(conns) /\ f[2] \in Sides /\ f = <<f[1], f[2]>>
           /\ Other(f) \in Made /\ Other(f)[1] = f[1] /\ Other(f)[2] \in Sides
  BY DEF Made, Sides, Other

LEMMA SameEndsLift ==
    ASSUME SameConns(conns, conns'), NoneOpened(conns, conns')
    PROVE  SameEnds
<1>1. conns' \in Seq(Conn) /\ Len(conns') = Len(conns) /\ Made' = Made
  BY DEF SameConns, Made
<1>2. ASSUME NEW f \in Made
      PROVE  /\ NodeOf(f)' = NodeOf(f) /\ NodeOf(Other(f))' = NodeOf(Other(f))
             /\ IsOpen(f)' => IsOpen(f)
  BY MadeParts DEF NodeOf, IsOpen, SameConns, NoneOpened
<1> QED  BY <1>1, <1>2 DEF SameEnds

LEMMA OpenStays ==
    ASSUME NEW cs, NEW ds, SameOpen(cs, ds) PROVE NoneOpened(cs, ds)
  BY DEF SameOpen, NoneOpened

\* The changes of the fields of conns, in terms of the ends.
LEMMA AtLift ==
    ASSUME NEW e \in Made, NEW place, AtOnly(conns, conns', e, place)
    PROVE  \A f \in Made : At(f)' = IF f = e THEN place ELSE At(f)
<1> SUFFICES ASSUME NEW f \in Made PROVE At(f)' = IF f = e THEN place ELSE At(f)
  OBVIOUS
<1>1. f[1] = e[1] /\ f[2] = e[2] <=> f = e
  BY MadeParts
<1> QED  BY <1>1, MadeParts DEF At, AtOnly

\* The variables of handleConn change at the end e at most.
HeldElsewhere(cs, ds, e) ==
    \A k \in 1..Len(cs) : \A i \in Sides :
        k # e[1] \/ i # e[2] =>
            ds[k].got[i] = cs[k].got[i] /\ ds[k].channel[i] = cs[k].channel[i]

\* An end is moved, last, by every action of its goroutine.
LEMMA MoveAfter ==
    ASSUME conns \in Seq(Conn), NEW e \in Made, NEW ds, NEW place \in Places,
           SameConns(conns, ds), SamePlaces(conns, ds), NoneOpened(conns, ds),
           HeldElsewhere(conns, ds, e), conns' = Moved(ds, e, place)
    PROVE  /\ Goes(e, place)
           /\ BufKeptOrEmpty(conns, ds) => Drops
           /\ BufOnly(conns, ds, e, Tail(Incoming(e))) /\ Incoming(e) # <<>>
              /\ GotOnly(conns, ds, e, Head(Incoming(e))) => Takes(e)
           /\ Channel(e)' = ds[e[1]].channel[e[2]]
<1>1. ds \in Seq(Conn) /\ e \in EndsOf(ds) /\ Len(ds) = Len(conns)
  BY MadeEnds DEF SameConns, EndsOf
<1>2. /\ SameConns(ds, conns') /\ AtOnly(ds, conns', e, place) /\ SameOpen(ds, conns')
      /\ SameBuf(ds, conns') /\ SameGot(ds, conns') /\ SameChannel(ds, conns')
  BY <1>1, MovedFields
<1>3. SameConns(conns, conns')
  BY <1>1, <1>2 DEF SameConns
<1>4. NoneOpened(conns, conns')
  BY <1>1, <1>2 DEF NoneOpened, SameOpen
<1>5. AtOnly(conns, conns', e, place)
  BY <1>1, <1>2 DEF AtOnly, SamePlaces
<1>6. \A f \in Made : f # e => Got(f)' = Got(f) /\ Channel(f)' = Channel(f)
  <2> SUFFICES ASSUME NEW f \in Made, f # e
               PROVE  Got(f)' = Got(f) /\ Channel(f)' = Channel(f)
    OBVIOUS
  <2>1. f[1] # e[1] \/ f[2] # e[2]
    BY MadeParts
  <2> QED  BY <1>1, <1>2, <2>1, MadeParts
           DEF Got, Channel, SameGot, SameChannel, HeldElsewhere
<1>7. Goes(e, place)
  BY <1>3, <1>4, <1>5, <1>6, SameEndsLift, AtLift DEF Goes
<1>8. ASSUME BufKeptOrEmpty(conns, ds)  PROVE Drops
  BY <1>1, <1>2, <1>8, MadeParts DEF Drops, Incoming, SameBuf, BufKeptOrEmpty
<1>9. ASSUME BufOnly(conns, ds, e, Tail(Incoming(e))), Incoming(e) # <<>>,
             GotOnly(conns, ds, e, Head(Incoming(e)))
      PROVE  Takes(e)
  <2>1. Got(e)' = Head(Incoming(e))
    BY <1>1, <1>2, <1>9, MadeParts DEF Got, SameGot, GotOnly
  <2>2. \A f \in Made : Incoming(f)' = IF f = e THEN Tail(Incoming(e)) ELSE Incoming(f)
    <3> SUFFICES ASSUME NEW f \in Made
                 PROVE  Incoming(f)' = IF f = e THEN Tail(Incoming(e)) ELSE Incoming(f)
      OBVIOUS
    <3>1. f[1] = e[1] /\ f[2] = e[2] <=> f = e
      BY MadeParts
    <3>2. Incoming(f)' = ds[f[1]].buf[f[2]]
      BY <1>1, <1>2, MadeParts DEF Incoming, SameBuf
    <3>3. ds[f[1]].buf[f[2]] = IF f = e THEN Tail(Incoming(e)) ELSE conns[f[1]].buf[f[2]]
      BY <1>9, <3>1, MadeParts DEF BufOnly
    <3> QED  BY <3>2, <3>3 DEF Incoming
  <2> QED  BY <1>9, <2>1, <2>2 DEF Takes
<1>10. Channel(e)' = ds[e[1]].channel[e[2]]
  BY <1>1, <1>2, MadeParts DEF Channel, SameChannel
<1> QED  BY <1>7, <1>8, <1>9, <1>10

LEMMA MoveEffect ==
    ASSUME conns \in Seq(Conn), NEW e \in Made, NEW place \in Places,
           conns' = Moved(conns, e, place)
    PROVE  Goes(e, place) /\ Drops
<1>1. /\ SameConns(conns, conns) /\ SamePlaces(conns, conns) /\ NoneOpened(conns, conns)
      /\ HeldElsewhere(conns, conns, e) /\ BufKeptOrEmpty(conns, conns)
  BY DEF SameConns, SamePlaces, NoneOpened, HeldElsewhere, BufKeptOrEmpty
<1> QED  BY <1>1, MoveAfter

\* Goes for an end that is accepted ...
LEMMA AcceptEffect ==
    ASSUME conns \in Seq(Conn), NEW e \in Made, Accept(e)
    PROVE  Goes(e, "hello") /\ Drops
  BY MoveEffect DEF Accept, Places

\* ... or reset,
LEMMA ResetEffect ==
    ASSUME conns \in Seq(Conn), NEW e \in Made, Reset(e)
    PROVE  Goes(e, "gone") /\ Drops
<1>1. PICK cs : cs = Moved(conns, e, "gone")
  OBVIOUS
<1>2. conns' = Broke(cs, e[1])
  <2>1. conns' = Broke(Moved(conns, e, "gone"), e[1])
    BY DEF Reset, Broke
  <2> QED  BY <1>1, <2>1
<1>3. e \in EndsOf(conns) /\ "gone" \in Places
  BY MadeEnds DEF Places
<1>4. /\ SameConns(conns, cs) /\ AtOnly(conns, cs, e, "gone") /\ SameOpen(conns, cs)
      /\ SameBuf(conns, cs) /\ SameGot(conns, cs) /\ SameChannel(conns, cs)
  BY <1>1, <1>3, MovedFields
<1>5. cs \in Seq(Conn) /\ e[1] \in 1..Len(cs) /\ Len(cs) = Len(conns)
  BY <1>4, MadeParts DEF SameConns
<1>6. /\ SameConns(cs, conns') /\ SamePlaces(cs, conns') /\ SameOpen(cs, conns')
      /\ SameGot(cs, conns') /\ SameChannel(cs, conns') /\ BufKeptOrEmpty(cs, conns')
  BY <1>2, <1>5, BrokenFields
<1>7. /\ SameConns(conns, conns') /\ AtOnly(conns, conns', e, "gone")
      /\ NoneOpened(conns, conns')
  <2>1. SameConns(conns, conns')
    BY <1>4, <1>5, <1>6 DEF SameConns
  <2>2. AtOnly(conns, conns', e, "gone")
    BY <1>4, <1>5, <1>6 DEF AtOnly, SamePlaces
  <2>3. NoneOpened(conns, conns')
    BY <1>4, <1>5, <1>6 DEF SameOpen, NoneOpened
  <2> QED  BY <2>1, <2>2, <2>3
<1>8. \A f \in Made : f # e => Got(f)' = Got(f) /\ Channel(f)' = Channel(f)
  BY <1>4, <1>5, <1>6, MadeParts DEF SameGot, SameChannel, Got, Channel
<1>9. Drops
  BY <1>4, <1>5, <1>6, MadeParts DEF Drops, Incoming, SameBuf, BufKeptOrEmpty
<1> QED  BY <1>7, <1>8, <1>9, SameEndsLift, AtLift DEF Goes

\* ... an identity that is received,
LEMMA IdentityEffect ==
    ASSUME conns \in Seq(Conn), NEW e \in Made, ReceiveServerIdentity(e)
    PROVE  \/ Goes(e, "launch") /\ Takes(e) /\ ~IsClosed(NodeOf(e))
              /\ connections' = Registered(NodeOf(e), NodeOf(Other(e)), e)
           \/ /\ Goes(e, "gone") \/ Goes(e, "reject")
              /\ Takes(e) \/ Drops
              /\ UNCHANGED connections
<1>1. ASSUME NEW place \in Places, HasMsg(e), conns' = Moved(Received(e), e, place)
      PROVE  Goes(e, place) /\ Takes(e)
  <2>1. PICK ds : ds = Received(e)
    OBVIOUS
  <2>2. Incoming(e) # <<>>
    BY <1>1 DEF HasMsg
  <2>3. /\ SameConns(conns, ds) /\ SamePlaces(conns, ds) /\ SameOpen(conns, ds)
        /\ SameChannel(conns, ds)
        /\ BufOnly(conns, ds, e, Tail(Incoming(e)))
        /\ GotOnly(conns, ds, e, Head(Incoming(e)))
    BY <2>1, <2>2, MadeEnds, ReceivedFields
  <2>4. HeldElsewhere(conns, ds, e) /\ NoneOpened(conns, ds)
    BY <2>3, OpenStays DEF HeldElsewhere, SameChannel, GotOnly
  <2>5. conns' = Moved(ds, e, place)
    BY <1>1, <2>1
  <2> QED  BY <1>1, <2>2, <2>3, <2>4, <2>5, MoveAfter
<1>2. "launch" \in Places /\ "gone" \in Places /\ "reject" \in Places
  BY DEF Places
<1> QED  BY <1>1, <1>2, MoveEffect DEF ReceiveServerIdentity

\* ... a connection that is closed and rejected,
LEMMA RejectEffect ==
    ASSUME conns \in Seq(Conn), NEW e \in Made, Reject(e)
    PROVE  Goes(e, "gone") /\ Drops
<1>1. PICK ds : ds = Closed(conns, {e})
  OBVIOUS
<1>2. /\ SameConns(conns, ds) /\ SamePlaces(conns, ds) /\ SameGot(conns, ds)
      /\ SameChannel(conns, ds) /\ BufKeptOrEmpty(conns, ds) /\ NoneOpened(conns, ds)
  BY <1>1, ClosedFields
<1>3. HeldElsewhere(conns, ds, e)
  BY <1>2 DEF HeldElsewhere, SameChannel, SameGot
<1>4. conns' = Moved(ds, e, "gone") /\ "gone" \in Places
  BY <1>1 DEF Reject, Places
<1> QED  BY <1>2, <1>3, <1>4, MoveAfter

\* ... or a goroutine that starts.
LEMMA LaunchEffect ==
    ASSUME conns \in Seq(Conn), NEW e \in Made, LaunchIncoming(e)
    PROVE  /\ \/ Goes(e, "receive") /\ ~IsClosed(NodeOf(e))
              \/ Goes(e, "gone") /\ IsClosed(NodeOf(e))
           /\ Drops
<1>1. "receive" \in Places /\ "gone" \in Places
  BY DEF Places
<1> QED  BY <1>1, MoveEffect DEF LaunchIncoming, MayLaunch

\* The steps of handleConn.
LEMMA ReceiveEffect ==
    ASSUME conns \in Seq(Conn), NEW e \in Made, Receive(e), paused[NodeOf(e)] \in Nat
    PROVE  /\ \/ Goes(e, "paused") /\ paused[NodeOf(e)] # 0 /\ (Takes(e) \/ Drops)
              \/ Goes(e, "cleanup") /\ (Takes(e) \/ Drops)
              \/ Goes(e, "dispatch") /\ Takes(e)
           /\ Channel(e)' = paused[NodeOf(e)]
<1> DEFINE n == NodeOf(e)
<1>1. ASSUME NEW place \in Places, NEW xs, xs = Received(e), HasMsg(e),
             conns' = Moved(Paused(xs, e), e, place)
      PROVE  Goes(e, place) /\ Takes(e) /\ Channel(e)' = paused[n]
  <2>1. PICK ds : ds = Paused(xs, e)
    OBVIOUS
  <2>2. Incoming(e) # <<>>
    BY <1>1 DEF HasMsg
  <2>3. /\ SameConns(conns, xs) /\ SamePlaces(conns, xs) /\ SameOpen(conns, xs)
        /\ SameChannel(conns, xs)
        /\ BufOnly(conns, xs, e, Tail(Incoming(e)))
        /\ GotOnly(conns, xs, e, Head(Incoming(e)))
    BY <1>1, <2>2, MadeEnds, ReceivedFields
  <2>4. xs \in Seq(Conn) /\ Len(xs) = Len(conns) /\ e \in EndsOf(xs)
    BY <2>3, MadeEnds DEF SameConns, EndsOf
  <2>5. /\ SameConns(xs, ds) /\ SamePlaces(xs, ds) /\ SameOpen(xs, ds)
        /\ SameBuf(xs, ds) /\ SameGot(xs, ds)
        /\ ChannelOnly(xs, ds, e, paused[n])
    BY <2>1, <2>4, PausedFields
  <2>6. SameConns(conns, ds) /\ SamePlaces(conns, ds) /\ NoneOpened(conns, ds)
    BY <2>3, <2>4, <2>5 DEF SameConns, SamePlaces, SameOpen, NoneOpened
  <2>7. HeldElsewhere(conns, ds, e)
    BY <2>3, <2>4, <2>5 DEF HeldElsewhere, SameChannel, GotOnly, ChannelOnly, SameGot
  <2>8. BufOnly(conns, ds, e, Tail(Incoming(e)))
    BY <2>3, <2>4, <2>5 DEF BufOnly, SameBuf
  <2>9. GotOnly(conns, ds, e, Head(Incoming(e)))
    BY <2>3, <2>4, <2>5 DEF GotOnly, SameGot
  <2>10. conns' = Moved(ds, e, place) /\ ds[e[1]].channel[e[2]] = paused[n]
    BY <1>1, <2>1, <2>4, <2>5, MadeParts DEF ChannelOnly
  <2> HIDE DEF n
  <2> QED  BY <1>1, <2>2, <2>6, <2>7, <2>8, <2>9, <2>10, MoveAfter
<1>2. ASSUME NEW place \in Places, conns' = Moved(Paused(conns, e), e, place)
      PROVE  Goes(e, place) /\ Drops /\ Channel(e)' = paused[n]
  <2>1. PICK ds : ds = Paused(conns, e)
    OBVIOUS
  <2>2. /\ SameConns(conns, ds) /\ SamePlaces(conns, ds) /\ SameOpen(conns, ds)
        /\ SameBuf(conns, ds) /\ SameGot(conns, ds)
        /\ ChannelOnly(conns, ds, e, paused[n])
    BY <2>1, MadeEnds, PausedFields
  <2>3. HeldElsewhere(conns, ds, e) /\ NoneOpened(conns, ds) /\ BufKeptOrEmpty(conns, ds)
    BY <2>2, OpenStays DEF HeldElsewhere, SameGot, ChannelOnly, SameBuf, BufKeptOrEmpty
  <2>4. conns' = Moved(ds, e, place) /\ ds[e[1]].channel[e[2]] = paused[n]
    BY <1>2, <2>1, <2>2, MadeParts DEF ChannelOnly
  <2> HIDE DEF n
  <2> QED  BY <1>2, <2>2, <2>3, <2>4, MoveAfter
<1>3. PICK xs : xs = Received(e)
  OBVIOUS
<1>4. "paused" \in Places /\ "cleanup" \in Places /\ "dispatch" \in Places
  BY DEF Places
<1>5. CASE HasMsg(e) /\ conns' = Moved(Paused(Received(e), e), e, AfterReceive(n, FALSE))
  BY <1>1, <1>3, <1>4, <1>5 DEF AfterReceive
<1>6. CASE conns' = Moved(Paused(conns, e), e, AfterReceive(n, TRUE))
  BY <1>2, <1>4, <1>6 DEF AfterReceive
<1> QED  BY <1>5, <1>6 DEF Receive

LEMMA ForgetEffect ==
    ASSUME conns \in Seq(Conn), NEW e \in Made, NEW place \in Places,
           conns' = Moved(Forgotten(conns, e), e, place)
    PROVE  Goes(e, place) /\ Drops
<1>1. PICK ds : ds = Forgotten(conns, e)
  OBVIOUS
<1>2. /\ SameConns(conns, ds) /\ SamePlaces(conns, ds) /\ SameOpen(conns, ds)
      /\ SameBuf(conns, ds) /\ GotOnly(conns, ds, e, Hello) /\ ChannelOnly(conns, ds, e, 0)
  BY <1>1, MadeEnds, ForgottenFields
<1>3. HeldElsewhere(conns, ds, e) /\ NoneOpened(conns, ds) /\ BufKeptOrEmpty(conns, ds)
  BY <1>2, OpenStays DEF HeldElsewhere, GotOnly, ChannelOnly, SameBuf, BufKeptOrEmpty
<1>4. conns' = Moved(ds, e, place)
  BY <1>1
<1> QED  BY <1>2, <1>3, <1>4, MoveAfter

LEMMA DispatchEffect ==
    ASSUME conns \in Seq(Conn), NEW e \in Made, Dispatch(e)
    PROVE  Goes(e, "receive") /\ Drops
  BY ForgetEffect DEF Dispatch, Places

LEMMA WakeEffect ==
    ASSUME conns \in Seq(Conn), NEW e \in Made, Wake(e)
    PROVE  Goes(e, "cleanup") /\ Drops
  BY ForgetEffect DEF Wake, Places

LEMMA CleanupEffect ==
    ASSUME conns \in Seq(Conn), NEW e \in Made, Cleanup(e)
    PROVE  Goes(e, "remove") /\ Drops
<1>1. PICK xs : xs = Forgotten(conns, e)
  OBVIOUS
<1>2. PICK ds : ds = Closed(xs, {e})
  OBVIOUS
<1>3. /\ SameConns(conns, xs) /\ SamePlaces(conns, xs) /\ SameOpen(conns, xs)
      /\ SameBuf(conns, xs) /\ GotOnly(conns, xs, e, Hello) /\ ChannelOnly(conns, xs, e, 0)
  BY <1>1, MadeEnds, ForgottenFields
<1>4. xs \in Seq(Conn) /\ Len(xs) = Len(conns)
  BY <1>3 DEF SameConns
<1>5. /\ SameConns(xs, ds) /\ SamePlaces(xs, ds) /\ SameGot(xs, ds)
      /\ SameChannel(xs, ds) /\ BufKeptOrEmpty(xs, ds) /\ NoneOpened(xs, ds)
  BY <1>2, <1>4, ClosedFields
<1>6. SameConns(conns, ds) /\ SamePlaces(conns, ds) /\ NoneOpened(conns, ds)
  BY <1>3, <1>4, <1>5 DEF SameConns, SamePlaces, SameOpen, NoneOpened
<1>7. HeldElsewhere(conns, ds, e)
  BY <1>3, <1>4, <1>5 DEF HeldElsewhere, GotOnly, ChannelOnly, SameGot, SameChannel
<1>8. BufKeptOrEmpty(conns, ds)
  BY <1>3, <1>4, <1>5 DEF SameBuf, BufKeptOrEmpty
<1>9. conns' = Moved(ds, e, "remove") /\ "remove" \in Places
  BY <1>1, <1>2 DEF Cleanup, Places
<1> QED  BY <1>6, <1>7, <1>8, <1>9, MoveAfter

LEMMA RemoveEffect ==
    ASSUME conns \in Seq(Conn), NEW e \in Made, RemoveConnection(e)
    PROVE  Goes(e, "gone") /\ Drops
  BY MoveEffect DEF RemoveConnection, Places

\* No end moves: its server sends a frame, the connection breaks, or ends are
\* closed by Stop.
Rests ==
    /\ SameEnds
    /\ \A f \in Made : At(f)' = At(f) /\ Got(f)' = Got(f) /\ Channel(f)' = Channel(f)
Adds(e, m) ==
    \A f \in Made : Incoming(f)' = IF f = e THEN Append(Incoming(e), m) ELSE Incoming(f)

LEMMA RestsLift ==
    ASSUME SameConns(conns, conns'), NoneOpened(conns, conns'), SamePlaces(conns, conns'),
           SameGot(conns, conns'), SameChannel(conns, conns')
    PROVE  Rests /\ (BufKeptOrEmpty(conns, conns') => Drops)
<1>1. ASSUME NEW f \in Made
      PROVE  At(f)' = At(f) /\ Got(f)' = Got(f) /\ Channel(f)' = Channel(f)
  BY MadeParts DEF At, Got, Channel, SamePlaces, SameGot, SameChannel
<1>2. ASSUME BufKeptOrEmpty(conns, conns') PROVE Drops
  BY <1>2, MadeParts DEF Drops, Incoming, BufKeptOrEmpty
<1> QED  BY <1>1, <1>2, SameEndsLift DEF Rests

LEMMA SendEffect ==
    ASSUME conns \in Seq(Conn), NEW e \in Made, NEW m \in Frames, Sends(e, m)
    PROVE  Rests /\ Adds(Other(e), m)
<1>1. /\ SameConns(conns, conns') /\ SamePlaces(conns, conns') /\ SameOpen(conns, conns')
      /\ SameGot(conns, conns') /\ SameChannel(conns, conns')
      /\ BufOnly(conns, conns', Other(e), Append(Incoming(Other(e)), m))
  BY MadeEnds, SentFields
<1>2. Rests
  BY <1>1, OpenStays, RestsLift
<1>3. PICK g \in Made : g = Other(e)
  BY MadeParts
<1>4. ASSUME NEW f \in Made
      PROVE  Incoming(f)' = IF f = g THEN Append(Incoming(g), m) ELSE Incoming(f)
  <2>1. f[1] = g[1] /\ f[2] = g[2] <=> f = g
    BY MadeParts
  <2>2. Incoming(f)' = conns'[f[1]].buf[f[2]]
    BY DEF Incoming
  <2>3. conns'[f[1]].buf[f[2]]
          = IF f = g THEN Append(Incoming(g), m) ELSE conns[f[1]].buf[f[2]]
    BY <1>1, <1>3, <2>1, MadeParts DEF BufOnly
  <2> QED  BY <2>2, <2>3 DEF Incoming
<1> QED  BY <1>2, <1>3, <1>4 DEF Adds

LEMMA BreakEffect ==
    ASSUME conns \in Seq(Conn), NEW k \in DOMAIN conns, Break(k)
    PROVE  Rests /\ Drops
<1>1. conns' = Broke(conns, k) /\ k \in 1..Len(conns)
  BY DEF Break, Broke
<1>2. /\ SameConns(conns, conns') /\ SamePlaces(conns, conns') /\ SameOpen(conns, conns')
      /\ SameGot(conns, conns') /\ SameChannel(conns, conns') /\ BufKeptOrEmpty(conns, conns')
  BY <1>1, BrokenFields
<1> QED  BY <1>2, OpenStays, RestsLift

LEMMA StopEffect ==
    ASSUME conns \in Seq(Conn), NEW n, StopConnections(n)
    PROVE  /\ Rests /\ Drops
           /\ \A m \in Nodes : \A e \in Made : e \in Range(connections[n][m]) => ~IsOpen(e)'
<1>1. PICK es : es = UNION {Range(connections[n][m]) : m \in Nodes}
  OBVIOUS
<1>2. conns' = Closed(conns, es)
  BY <1>1 DEF StopConnections
<1>3. /\ SameConns(conns, conns') /\ SamePlaces(conns, conns') /\ SameGot(conns, conns')
      /\ SameChannel(conns, conns') /\ BufKeptOrEmpty(conns, conns')
      /\ NoneOpened(conns, conns')
      /\ \A e \in EndsOf(conns) : e \in es => ~conns'[e[1]].open[e[2]]
  BY <1>2, ClosedFields
<1>4. \A m \in Nodes : \A e \in Made : e \in Range(connections[n][m]) => ~IsOpen(e)'
  BY <1>1, <1>3, MadeEnds DEF IsOpen
<1> QED  BY <1>3, <1>4, RestsLift

\* A new connection: the ends that were there stay as they are.
Grows(s) ==
    /\ conns' \in Seq(Conn) /\ Len(conns') = Len(conns) + 1
    /\ \A f \in Made : f \in Made'
    /\ \A f \in Made' : f \in Made \/ f = <<Len(conns) + 1, 1>> \/ f = <<Len(conns) + 1, 2>>
    /\ \A f \in Made :
         /\ f[1] # Len(conns) + 1
         /\ NodeOf(f)' = NodeOf(f) /\ NodeOf(Other(f))' = NodeOf(Other(f))
         /\ At(f)' = At(f) /\ IsOpen(f)' = IsOpen(f) /\ Incoming(f)' = Incoming(f)
         /\ Got(f)' = Got(f) /\ Channel(f)' = Channel(f)

\* The ends of the new connection.
IsNew(s, k) ==
    /\ <<k, 1>> \in Made' /\ <<k, 2>> \in Made'
    /\ <<k, 1>> \notin Made /\ <<k, 2>> \notin Made
    /\ conns'[k].ends[1] = Source(s) /\ conns'[k].ends[2] = Target(s)
    /\ conns'[k].at[1] = "dialed" /\ conns'[k].at[2] \in {"backlog", "hello"}
    /\ conns'[k].buf[1] = <<>> /\ conns'[k].buf[2] = <<Hello>>

LEMMA ConnectEffect ==
    ASSUME conns \in Seq(Conn), NEW s \in Senders, Connect(s)
    PROVE  Grows(s) /\ IsNew(s, Len(conns) + 1)
<1>1. PICK c : c = NewConn(s)
  OBVIOUS
<1>2. /\ c \in Conn
      /\ c.ends[1] = Source(s) /\ c.ends[2] = Target(s)
      /\ c.buf[1] = <<>> /\ c.buf[2] = <<Hello>>
      /\ c.at[1] = "dialed" /\ c.at[2] \in {"backlog", "hello"}
  BY <1>1, NewConnFields
<1>3. conns' = Append(conns, c)
  BY <1>1 DEF Connect
<1>4. /\ conns' \in Seq(Conn) /\ Len(conns') = Len(conns) + 1 /\ conns'[Len(conns) + 1] = c
      /\ \A k \in 1..Len(conns) : k \in 1..Len(conns') /\ k # Len(conns') /\ conns'[k] = conns[k]
      /\ \A k \in 1..Len(conns') : k \in 1..Len(conns) \/ k = Len(conns) + 1
  BY <1>2, <1>3, AppendedFields
<1>5. Len(conns) \in Nat
  OBVIOUS
<1>6. \A f \in Made : f \in Made'
  BY <1>4, MadeParts DEF Made, Sides
<1>7. \A f \in Made' : f \in Made \/ f = <<Len(conns) + 1, 1>> \/ f = <<Len(conns) + 1, 2>>
  BY <1>4 DEF Made
<1>8. ASSUME NEW f \in Made
      PROVE  /\ f[1] # Len(conns) + 1
             /\ NodeOf(f)' = NodeOf(f) /\ NodeOf(Other(f))' = NodeOf(Other(f))
             /\ At(f)' = At(f) /\ IsOpen(f)' = IsOpen(f) /\ Incoming(f)' = Incoming(f)
             /\ Got(f)' = Got(f) /\ Channel(f)' = Channel(f)
  BY <1>4, MadeParts DEF NodeOf, At, IsOpen, Incoming, Got, Channel
<1>9. Grows(s)
  BY <1>4, <1>6, <1>7, <1>8 DEF Grows
<1>10. IsNew(s, Len(conns) + 1)
  BY <1>2, <1>4, <1>5 DEF IsNew, Made
<1> QED  BY <1>9, <1>10

-----------------------------------------------------------------------------
(* Types, and which connections the table and the senders refer to.        *)

NodesTyped ==
    /\ transport \in {"tcp", "local"}
    /\ listener \in [Nodes -> {"off", "on", "closed"}]
    /\ stop \in [Nodes -> {"no", "closing", "waiting", "stopped"}]
    /\ validPeers \in [Nodes -> SUBSET Nodes]
    /\ paused \in [Nodes -> Nat] /\ unpaused \subseteq Nat /\ forgotten \subseteq Nat
    /\ events \in Nat
    /\ lmHeldBy \in Senders \cup {Nobody}

ConnsTyped == conns \in Seq(Conn) /\ Len(conns) <= MaxConns

\* e is an end of a server, and the other end is the peer's.
Between(e, n, peer) == e \in Made /\ NodeOf(e) = n /\ NodeOf(Other(e)) = peer

TableTyped ==
    /\ connections \in [Nodes -> [Nodes -> Seq(Ends)]]
    /\ \A n, peer \in Nodes : \A e \in Range(connections[n][peer]) : Between(e, n, peer)

SenderState ==
    [at : {"start", "dial", "register", "launch", "send", "resend", "over", "failed"},
     next : Nat, conn : Ends \cup {NoEnd}, new : Ends \cup {NoEnd}, retried : BOOLEAN]

SenderTyped(s) ==
    /\ sender[s].next \in 1..Len(Batch[s])
    /\ sender[s].at = "start" => sender[s].next = 1
    /\ sender[s].conn # NoEnd => Between(sender[s].conn, Source(s), Target(s))
    /\ sender[s].new # NoEnd => Between(sender[s].new, Source(s), Target(s))
    /\ sender[s].at \in {"send", "resend"} => sender[s].conn # NoEnd
    /\ sender[s].at \in {"register", "launch", "resend"} => sender[s].new # NoEnd
SendersTyped == sender \in [Senders -> SenderState] /\ \A s \in Senders : SenderTyped(s)

LinkInv == NodesTyped /\ ConnsTyped /\ TableTyped /\ SendersTyped

\* The ends that were there stay with their servers.
EndsKept ==
    \A e \in Made : /\ e \in Made' /\ NodeOf(e)' = NodeOf(e)
                    /\ NodeOf(Other(e))' = NodeOf(Other(e))

LEMMA BatchTyped ==
    ASSUME NEW s \in Senders
    PROVE  /\ Batch[s] \in Seq(Msgs) /\ IsInjective(Batch[s]) /\ Len(Batch[s]) \in Nat \ {0}
           /\ DOMAIN Batch[s] = 1..Len(Batch[s])
  BY RouterAssumption

LEMMA EndsKeptBetween ==
    ASSUME EndsKept, NEW e, NEW n, NEW peer, Between(e, n, peer)
    PROVE  Between(e, n, peer)'
  BY DEF EndsKept, Between

LEMMA SameEndsKept == ASSUME SameEnds PROVE EndsKept
  BY DEF SameEnds, EndsKept
LEMMA GrowsKept == ASSUME NEW s, Grows(s) PROVE EndsKept
  BY DEF Grows, EndsKept
LEMMA StillKept == ASSUME UNCHANGED conns PROVE EndsKept /\ Made' = Made
  BY DEF EndsKept, Made, NodeOf, Other

LEMMA MadeAreEnds == ASSUME ConnsTyped, NEW e \in Made PROVE e \in Ends /\ e # NoEnd
<1>1. e[1] \in 1..Len(conns) /\ e[2] \in Sides /\ e = <<e[1], e[2]>>
  BY MadeParts
<1>2. e[1] \in 1..MaxConns /\ e[1] # 0
  BY <1>1, RouterAssumption DEF ConnsTyped
<1> QED  BY <1>1, <1>2 DEF Ends, NoEnd, Sides

LEMMA LinkInit == Init => LinkInv
<1> SUFFICES ASSUME Init PROVE LinkInv
  OBVIOUS
<1>1. NodesTyped
  BY RouterAssumption DEF Init, NodesTyped
<1>2. ConnsTyped
  BY RouterAssumption DEF Init, ConnsTyped
<1>3. TableTyped
  <2>1. <<>> \in Seq(Ends)
    OBVIOUS
  <2> QED  BY <2>1 DEF Init, TableTyped, Range
<1>4. SendersTyped
  <2>1. PICK scenario \in Scenarios :
          sender = [s \in Senders |->
              [at |-> IF s \in scenario.running THEN "start" ELSE "over", next |-> 1,
               conn |-> NoEnd, new |-> NoEnd, retried |-> FALSE]]
    BY DEF Init
  <2>2. sender \in [Senders -> SenderState]
    BY <2>1 DEF SenderState
  <2>3. ASSUME NEW s \in Senders PROVE SenderTyped(s)
    BY <2>1, BatchTyped DEF SenderTyped
  <2> QED  BY <2>2, <2>3 DEF SendersTyped
<1> QED  BY <1>1, <1>2, <1>3, <1>4 DEF LinkInv

LEMMA NodesOfEnd ==
    ASSUME ConnsTyped, NEW e \in Made
    PROVE  NodeOf(e) \in Nodes /\ NodeOf(Other(e)) \in Nodes
<1>1. conns[e[1]] \in Conn /\ e[2] \in Sides /\ Other(e)[1] = e[1] /\ Other(e)[2] \in Sides
  BY MadeParts DEF ConnsTyped
<1> QED  BY <1>1 DEF NodeOf, Conn

LEMMA NodesTypedStep == LinkInv /\ [Next]_vars => NodesTyped'
<1> SUFFICES ASSUME LinkInv, [Next]_vars PROVE NodesTyped'
  OBVIOUS
<1>0. NodesTyped /\ ConnsTyped
  BY DEF LinkInv
<1>a. ASSUME UNCHANGED <<transport, nodeVars, pauseVars>>, events' \in Nat,
             lmHeldBy' \in Senders \cup {Nobody}
      PROVE  NodesTyped'
  BY <1>0, <1>a DEF NodesTyped, nodeVars, pauseVars
<1>b. events \in Nat /\ lmHeldBy \in Senders \cup {Nobody} /\ (events > 0 => events - 1 \in Nat)
  BY <1>0 DEF NodesTyped
<1>1. ASSUME NEW s \in Senders, Sending(s) PROVE NodesTyped'
  <2>1. /\ UNCHANGED <<transport, nodeVars, pauseVars>>
        /\ events' = events \/ (events > 0 /\ events' = events - 1)
        /\ lmHeldBy' \in {lmHeldBy, Nobody, s}
    BY <1>1 DEF Sending, SendStart, Connect, ConnectFails, RegisterOutgoing,
                LaunchOutgoing, SendMsg, Resend, Block
  <2> QED  BY <1>a, <1>b, <2>1
<1>2. ASSUME NEW e \in Made, Listening(e) PROVE NodesTyped'
  BY <1>2, <1>a, <1>b
  DEF Listening, Accept, Reset, ReceiveServerIdentity, Reject, LaunchIncoming
<1>3. ASSUME NEW e \in Made, HandleConn(e) PROVE NodesTyped'
  <2>1. CASE Wake(e)
    BY <1>0, <2>1, NodesOfEnd DEF Wake, nodeVars, NodesTyped
  <2>2. CASE Receive(e) \/ Dispatch(e) \/ Cleanup(e) \/ RemoveConnection(e)
    BY <1>a, <1>b, <2>2 DEF Receive, Dispatch, Cleanup, RemoveConnection
  <2> QED  BY <1>3, <2>1, <2>2 DEF HandleConn
<1>4. ASSUME NEW n \in Nodes, Listen(n) PROVE NodesTyped'
  BY <1>0, <1>4 DEF Listen, pauseVars, NodesTyped
<1>c. \A n \in Managed : n \in Nodes
  BY RouterAssumption
<1>5. ASSUME NEW n \in Managed, Pause(n) PROVE NodesTyped'
  BY <1>0, <1>5, <1>c DEF Pause, nodeVars, NodesTyped
<1>6. ASSUME NEW n \in Managed, Unpause(n) PROVE NodesTyped'
  BY <1>0, <1>6, <1>c DEF Unpause, Unpaused, nodeVars, NodesTyped
<1>7. ASSUME NEW n \in Managed, SetValidPeers(n) PROVE NodesTyped'
  <2>1. PICK peers \in PeerSets : validPeers' = [validPeers EXCEPT ![n] = peers]
    BY <1>7 DEF SetValidPeers
  <2>2. peers \in SUBSET Nodes
    BY RouterAssumption
  <2>3. validPeers' \in [Nodes -> SUBSET Nodes]
    BY <1>0, <2>1, <2>2 DEF NodesTyped
  <2> QED  BY <1>0, <1>7, <1>b, <2>3 DEF SetValidPeers, pauseVars, NodesTyped
<1>8. ASSUME NEW n \in Managed, StopHost(n) PROVE NodesTyped'
  BY <1>0, <1>8 DEF StopHost, TCPStop, LocalStop, pauseVars, NodesTyped
<1>9. ASSUME NEW n \in Managed, Stop(n) PROVE NodesTyped'
  <2>1. CASE StopConnections(n)
    BY <1>0, <2>1, <1>c DEF StopConnections, Unpaused, NodesTyped
  <2>2. CASE StopReturns(n)
    BY <1>0, <2>2 DEF StopReturns, pauseVars, NodesTyped
  <2> QED  BY <1>9, <2>1, <2>2 DEF Stop
<1>10. ASSUME NEW k \in DOMAIN conns, Break(k) PROVE NodesTyped'
  BY <1>10, <1>a, <1>b DEF Break
<1>11. CASE UNCHANGED vars
  BY <1>11, <1>a, <1>b DEF vars
<1> QED  BY <1>1, <1>2, <1>3, <1>4, <1>5, <1>6, <1>7, <1>8, <1>9, <1>10, <1>11 DEF Next

\* The end that a sender uses.
LEMMA MessageTyped ==
    ASSUME LinkInv, NEW s \in Senders
    PROVE  Message(s) \in Msgs /\ Message(s) \in Frames /\ Message(s) # Hello
<1>1. sender[s].next \in 1..Len(Batch[s])
  BY DEF LinkInv, SendersTyped, SenderTyped
<1> QED  BY <1>1, BatchTyped, RouterAssumption DEF Message, Frames

LEMMA SendMsgEffect ==
    ASSUME LinkInv, NEW s \in Senders, SendMsg(s)
    PROVE  \/ UNCHANGED conns /\ Sent(s)
           \/ /\ UNCHANGED conns
              /\ sender' = [sender EXCEPT ![s].at = "dial", ![s].retried = TRUE]
           \/ /\ Rests /\ Adds(Other(sender[s].conn), Message(s))
              /\ Between(sender[s].conn, Source(s), Target(s)) /\ Sent(s)
<1>1. Between(sender[s].conn, Source(s), Target(s)) /\ sender[s].conn \in Made
  BY DEF LinkInv, SendersTyped, SenderTyped, SendMsg, Between
<1>2. Message(s) \in Frames /\ conns \in Seq(Conn)
  BY MessageTyped DEF LinkInv, ConnsTyped
<1>3. Sends(sender[s].conn, Message(s)) => Rests /\ Adds(Other(sender[s].conn), Message(s))
  BY <1>1, <1>2, SendEffect
<1> QED  BY <1>1, <1>3 DEF SendMsg, LosesMsg

LEMMA ResendEffect ==
    ASSUME LinkInv, NEW s \in Senders, Resend(s)
    PROVE  \/ UNCHANGED conns /\ Sent(s)
           \/ UNCHANGED conns /\ Return(s, "failed")
           \/ /\ Rests /\ Adds(Other(sender[s].new), Message(s))
              /\ Between(sender[s].new, Source(s), Target(s)) /\ Sent(s)
<1>1. Between(sender[s].new, Source(s), Target(s)) /\ sender[s].new \in Made
  BY DEF LinkInv, SendersTyped, SenderTyped, Resend, Between
<1>2. Message(s) \in Frames /\ conns \in Seq(Conn)
  BY MessageTyped DEF LinkInv, ConnsTyped
<1>3. Sends(sender[s].new, Message(s)) => Rests /\ Adds(Other(sender[s].new), Message(s))
  BY <1>1, <1>2, SendEffect
<1> QED  BY <1>1, <1>3 DEF Resend, LosesMsg

LEMMA LaunchOutgoingEffect ==
    ASSUME LinkInv, NEW s \in Senders, LaunchOutgoing(s)
    PROVE  /\ Between(sender[s].new, Source(s), Target(s))
           /\ \/ /\ Goes(sender[s].new, "receive") /\ Drops /\ ~IsClosed(Source(s))
                 /\ sender' = [sender EXCEPT
                      ![s].at = IF sender[s].retried THEN "resend" ELSE "send",
                      ![s].conn = IF @ = NoEnd THEN sender[s].new ELSE @]
              \/ UNCHANGED conns /\ IsClosed(Source(s)) /\ Return(s, "failed")
<1>1. Between(sender[s].new, Source(s), Target(s)) /\ sender[s].new \in Made
  BY DEF LinkInv, SendersTyped, SenderTyped, LaunchOutgoing, Between
<1>2. conns \in Seq(Conn) /\ "receive" \in Places
  BY DEF LinkInv, ConnsTyped, Places
<1>3. conns' = Moved(conns, sender[s].new, "receive") => Goes(sender[s].new, "receive") /\ Drops
  BY <1>1, <1>2, MoveEffect
<1> QED  BY <1>1, <1>3 DEF LaunchOutgoing, MayLaunch

LEMMA ListeningEffect ==
    ASSUME conns \in Seq(Conn), NEW e \in Made, Listening(e)
    PROVE  SameEnds
  BY AcceptEffect, ResetEffect, IdentityEffect, RejectEffect, LaunchEffect DEF Listening, Goes

LEMMA HandleConnEffect ==
    ASSUME conns \in Seq(Conn), NEW e \in Made, paused[NodeOf(e)] \in Nat, HandleConn(e)
    PROVE  SameEnds
  BY ReceiveEffect, DispatchEffect, WakeEffect, CleanupEffect, RemoveEffect
  DEF HandleConn, Goes

\* A step leaves the connections, changes some, or makes one.
LEMMA ConnsStep ==
    ASSUME LinkInv, [Next]_vars
    PROVE  UNCHANGED conns \/ SameEnds \/ \E s \in Senders : Grows(s) /\ Len(conns) < MaxConns
<1> DEFINE P == UNCHANGED conns \/ SameEnds
                \/ \E s \in Senders : Grows(s) /\ Len(conns) < MaxConns
<1>0. conns \in Seq(Conn) /\ ConnsTyped /\ NodesTyped
  BY DEF LinkInv, ConnsTyped
<1>1. ASSUME NEW s \in Senders, Sending(s) PROVE P
  <2>1. CASE SendStart(s) \/ ConnectFails(s) \/ RegisterOutgoing(s) \/ Block(s)
    BY <2>1 DEF SendStart, ConnectFails, RegisterOutgoing, Block
  <2>2. CASE Connect(s)
    BY <1>0, <2>2, ConnectEffect DEF Connect
  <2>3. CASE SendMsg(s) \/ Resend(s) \/ LaunchOutgoing(s)
    BY <2>3, SendMsgEffect, ResendEffect, LaunchOutgoingEffect DEF Rests, Goes
  <2> QED  BY <1>1, <2>1, <2>2, <2>3 DEF Sending
<1>2. ASSUME NEW e \in Made, Listening(e) PROVE P
  BY <1>0, <1>2, ListeningEffect
<1>3. ASSUME NEW e \in Made, HandleConn(e) PROVE P
  <2>1. paused[NodeOf(e)] \in Nat
    BY <1>0, NodesOfEnd DEF NodesTyped
  <2> QED  BY <1>0, <1>3, <2>1, HandleConnEffect
<1>4. ASSUME NEW n \in Managed, StopConnections(n) PROVE P
  BY <1>0, <1>4, StopEffect DEF Rests
<1>5. ASSUME NEW k \in DOMAIN conns, Break(k) PROVE P
  BY <1>0, <1>5, BreakEffect DEF Rests
<1>6. ASSUME NEW n \in Nodes, \/ Listen(n) \/ Pause(n) \/ Unpause(n) \/ SetValidPeers(n)
                              \/ StopHost(n) \/ StopReturns(n)
      PROVE  UNCHANGED conns
  BY <1>6 DEF Listen, Pause, Unpause, SetValidPeers, StopHost, StopReturns
<1>7. Managed \subseteq Nodes
  BY RouterAssumption
<1> QED  BY <1>1, <1>2, <1>3, <1>4, <1>5, <1>6, <1>7 DEF Next, Stop, vars

LEMMA ConnsTypedStep == LinkInv /\ [Next]_vars => ConnsTyped' /\ EndsKept
<1> SUFFICES ASSUME LinkInv, [Next]_vars PROVE ConnsTyped' /\ EndsKept
  OBVIOUS
<1>0. ConnsTyped
  BY DEF LinkInv
<1>1. CASE UNCHANGED conns
  BY <1>0, <1>1, StillKept DEF ConnsTyped
<1>2. CASE SameEnds
  BY <1>0, <1>2, SameEndsKept DEF ConnsTyped, SameEnds
<1>3. ASSUME NEW s \in Senders, Grows(s), Len(conns) < MaxConns PROVE ConnsTyped' /\ EndsKept
  <2>1. Len(conns) + 1 <= MaxConns
    BY <1>0, <1>3, RouterAssumption DEF ConnsTyped
  <2> QED  BY <1>3, <2>1, GrowsKept DEF ConnsTyped, Grows
<1> QED  BY <1>1, <1>2, <1>3, ConnsStep

\* Ranges of sequences, and removeConnection on one of them.
LEMMA AppendParts ==
    ASSUME NEW S, NEW arr \in Seq(S), NEW e \in S, NEW out, out = Append(arr, e)
    PROVE  /\ out \in Seq(S) /\ Len(arr) \in Nat /\ Len(out) = Len(arr) + 1
           /\ DOMAIN arr = 1..Len(arr) /\ DOMAIN out = 1..(Len(arr) + 1)
           /\ out[Len(arr) + 1] = e /\ \A i \in 1..Len(arr) : out[i] = arr[i]
  OBVIOUS

LEMMA AppendRange ==
    ASSUME NEW S, NEW arr \in Seq(S), NEW e \in S
    PROVE  Range(Append(arr, e)) = Range(arr) \cup {e}
<1>1. PICK out : out = Append(arr, e)
  OBVIOUS
<1>2. /\ Len(arr) \in Nat
      /\ DOMAIN arr = 1..Len(arr) /\ DOMAIN out = 1..(Len(arr) + 1)
      /\ out[Len(arr) + 1] = e /\ \A i \in 1..Len(arr) : out[i] = arr[i]
  BY <1>1, AppendParts
<1>3. Range(out) = Range(arr) \cup {e}
  BY <1>2 DEF Range
<1> QED  BY <1>1, <1>3

LEMMA AppendedOnce ==
    ASSUME NEW S, NEW arr \in Seq(S), NEW e \in S, IsInjective(arr), e \notin Range(arr)
    PROVE  IsInjective(Append(arr, e))
<1>1. PICK out : out = Append(arr, e)
  OBVIOUS
<1>2. /\ Len(arr) \in Nat
      /\ DOMAIN arr = 1..Len(arr) /\ DOMAIN out = 1..(Len(arr) + 1)
      /\ out[Len(arr) + 1] = e /\ \A i \in 1..Len(arr) : out[i] = arr[i]
  BY <1>1, AppendParts
<1>3. \A i \in 1..Len(arr) : arr[i] # e
  BY <1>2 DEF Range
<1>4. IsInjective(out)
  BY <1>2, <1>3 DEF IsInjective
<1> QED  BY <1>1, <1>4

LEMMA WithoutEndParts ==
    ASSUME NEW S, NEW arr \in Seq(S), NEW e, e \in Range(arr), NEW out, out = WithoutEnd(arr, e)
    PROVE  \E j \in 1..Len(arr) :
             /\ arr[j] = e
             /\ out \in Seq(S) /\ Len(out) = Len(arr) - 1
             /\ \A i \in 1..(Len(arr) - 1) : out[i] = IF i = j THEN arr[Len(arr)] ELSE arr[i]
<1>1. PICK j : j = CHOOSE i \in DOMAIN arr : arr[i] = e
  OBVIOUS
<1>2. j \in 1..Len(arr) /\ arr[j] = e /\ Len(arr) \in Nat \ {0}
  BY <1>1 DEF Range
<1>3. PICK mid : mid = [arr EXCEPT ![j] = arr[Len(arr)]]
  OBVIOUS
<1>4. /\ mid \in Seq(S) /\ Len(mid) = Len(arr)
      /\ \A i \in 1..Len(arr) : mid[i] = IF i = j THEN arr[Len(arr)] ELSE arr[i]
  BY <1>2, <1>3
<1>5. out = SubSeq(mid, 1, Len(arr) - 1)
  BY <1>1, <1>3, <1>4 DEF WithoutEnd, Front, Last
<1>6. /\ out \in Seq(S) /\ Len(out) = Len(arr) - 1
      /\ \A i \in 1..(Len(arr) - 1) : out[i] = mid[i]
  BY <1>2, <1>4, <1>5
<1> QED  BY <1>2, <1>4, <1>6

LEMMA WithoutEndRange ==
    ASSUME NEW S, NEW arr \in Seq(S), NEW e, NEW out, out = WithoutEnd(arr, e)
    PROVE  /\ out \in Seq(S) /\ Range(out) \subseteq Range(arr)
           /\ \A f \in Range(arr) : f # e => f \in Range(out)
           /\ IsInjective(arr) => IsInjective(out) /\ e \notin Range(out)
<1>1. CASE e \notin Range(arr)
  BY <1>1 DEF WithoutEnd
<1>2. CASE e \in Range(arr)
  <2>1. PICK j \in 1..Len(arr) :
             /\ arr[j] = e
             /\ out \in Seq(S) /\ Len(out) = Len(arr) - 1
             /\ \A i \in 1..(Len(arr) - 1) : out[i] = IF i = j THEN arr[Len(arr)] ELSE arr[i]
    BY <1>2, WithoutEndParts
  <2>2. DOMAIN arr = 1..Len(arr) /\ DOMAIN out = 1..(Len(arr) - 1) /\ Len(arr) \in Nat \ {0}
    BY <2>1
  <2>3. Range(out) \subseteq Range(arr)
    BY <2>1, <2>2 DEF Range
  <2>4. ASSUME NEW f \in Range(arr), f # e PROVE f \in Range(out)
    <3>1. PICK i \in 1..Len(arr) : arr[i] = f
      BY <2>2 DEF Range
    <3>2. i # j
      BY <2>1, <2>4, <3>1
    <3>3. CASE i = Len(arr)
      <4>1. j \in 1..(Len(arr) - 1) /\ out[j] = f
        BY <2>1, <2>2, <3>1, <3>2, <3>3
      <4> QED  BY <2>2, <4>1 DEF Range
    <3>4. CASE i # Len(arr)
      <4>1. i \in 1..(Len(arr) - 1) /\ out[i] = f
        BY <2>1, <2>2, <3>1, <3>2, <3>4
      <4> QED  BY <2>2, <4>1 DEF Range
    <3> QED  BY <3>3, <3>4
  <2>5. ASSUME IsInjective(arr) PROVE IsInjective(out) /\ e \notin Range(out)
    <3>1. \A a, b \in 1..Len(arr) : arr[a] = arr[b] => a = b
      BY <2>2, <2>5 DEF IsInjective
    <3>2. IsInjective(out)
      BY <2>1, <2>2, <3>1 DEF IsInjective
    <3>3. \A a \in 1..(Len(arr) - 1) : out[a] # e
      BY <2>1, <2>2, <3>1
    <3> QED  BY <2>2, <3>2, <3>3 DEF Range
  <2> QED  BY <2>1, <2>3, <2>4, <2>5
<1> QED  BY <1>1, <1>2

-----------------------------------------------------------------------------
\* One entry of the table changes.
LEMMA TableChange ==
    ASSUME connections \in [Nodes -> [Nodes -> Seq(Ends)]], NEW n \in Nodes, NEW peer \in Nodes,
           NEW arr \in Seq(Ends), NEW T, T = [connections EXCEPT ![n][peer] = arr]
    PROVE  /\ T \in [Nodes -> [Nodes -> Seq(Ends)]] /\ T[n][peer] = arr
           /\ \A m, q \in Nodes : m # n \/ q # peer => T[m][q] = connections[m][q]
  OBVIOUS

LEMMA RegisteredFacts ==
    ASSUME ConnsTyped, TableTyped, EndsKept, NEW n, NEW peer, NEW e, Between(e, n, peer),
           connections' = Registered(n, peer, e)
    PROVE  /\ TableTyped' /\ n \in Nodes /\ peer \in Nodes
           /\ connections'[n][peer] = Append(connections[n][peer], e)
           /\ Range(connections'[n][peer]) = Range(connections[n][peer]) \cup {e}
           /\ \A m, q \in Nodes : m # n \/ q # peer => connections'[m][q] = connections[m][q]
<1>1. e \in Made /\ e \in Ends /\ n \in Nodes /\ peer \in Nodes
  BY MadeAreEnds, NodesOfEnd DEF Between
<1>2. connections \in [Nodes -> [Nodes -> Seq(Ends)]] /\ connections[n][peer] \in Seq(Ends)
  BY <1>1 DEF TableTyped
<1>a. PICK old \in Seq(Ends) : old = connections[n][peer]
  BY <1>2
<1>3. PICK arr : arr = Append(old, e)
  OBVIOUS
<1>4. arr \in Seq(Ends) /\ Range(arr) = Range(old) \cup {e}
  <2>1. Range(Append(old, e)) = Range(old) \cup {e}
    BY <1>1, AppendRange
  <2> QED  BY <1>1, <1>3, <2>1
<1>5. connections' = [connections EXCEPT ![n][peer] = arr]
  BY <1>a, <1>3 DEF Registered
<1>6. /\ connections' \in [Nodes -> [Nodes -> Seq(Ends)]] /\ connections'[n][peer] = arr
      /\ \A m, q \in Nodes : m # n \/ q # peer => connections'[m][q] = connections[m][q]
  BY <1>1, <1>2, <1>4, <1>5, TableChange
<1>7. ASSUME NEW m \in Nodes, NEW q \in Nodes, NEW f \in Range(connections'[m][q])
      PROVE  Between(f, m, q)'
  <2>1. Between(f, m, q)
    BY <1>a, <1>4, <1>6, <1>7 DEF TableTyped
  <2> QED  BY <2>1, EndsKeptBetween
<1>8. TableTyped'
  BY <1>6, <1>7 DEF TableTyped
<1> QED  BY <1>1, <1>a, <1>3, <1>4, <1>6, <1>8

LEMMA RemovedFacts ==
    ASSUME ConnsTyped, TableTyped, EndsKept, NEW e \in Made,
           connections' = [connections EXCEPT ![NodeOf(e)][NodeOf(Other(e))] = WithoutEnd(@, e)]
    PROVE  LET n == NodeOf(e)
               peer == NodeOf(Other(e))
           IN  /\ TableTyped' /\ n \in Nodes /\ peer \in Nodes
               /\ connections'[n][peer] = WithoutEnd(connections[n][peer], e)
               /\ \A m, q \in Nodes : m # n \/ q # peer => connections'[m][q] = connections[m][q]
<1>1. PICK n \in Nodes : n = NodeOf(e)
  BY NodesOfEnd
<1>2. PICK peer \in Nodes : peer = NodeOf(Other(e))
  BY NodesOfEnd
<1>3. connections \in [Nodes -> [Nodes -> Seq(Ends)]] /\ connections[n][peer] \in Seq(Ends)
  BY DEF TableTyped
<1>4. PICK arr : arr = WithoutEnd(connections[n][peer], e)
  OBVIOUS
<1>5. arr \in Seq(Ends) /\ Range(arr) \subseteq Range(connections[n][peer])
  BY <1>3, <1>4, WithoutEndRange
<1>6. connections' = [connections EXCEPT ![n][peer] = arr]
  BY <1>1, <1>2, <1>4
<1>7. /\ connections' \in [Nodes -> [Nodes -> Seq(Ends)]] /\ connections'[n][peer] = arr
      /\ \A m, q \in Nodes : m # n \/ q # peer => connections'[m][q] = connections[m][q]
  BY <1>1, <1>2, <1>3, <1>5, <1>6, TableChange
<1>8. ASSUME NEW m \in Nodes, NEW q \in Nodes, NEW f \in Range(connections'[m][q])
      PROVE  Between(f, m, q)'
  <2>1. Between(f, m, q)
    BY <1>5, <1>7, <1>8 DEF TableTyped
  <2> QED  BY <2>1, EndsKeptBetween
<1>9. TableTyped'
  BY <1>7, <1>8 DEF TableTyped
<1> QED  BY <1>1, <1>2, <1>4, <1>7, <1>9

LEMMA TableTypedStep == LinkInv /\ [Next]_vars => TableTyped'
<1> SUFFICES ASSUME LinkInv, [Next]_vars PROVE TableTyped'
  OBVIOUS
<1>0. TableTyped /\ ConnsTyped /\ EndsKept /\ conns \in Seq(Conn)
  BY ConnsTypedStep DEF LinkInv, ConnsTyped
<1>a. ASSUME UNCHANGED connections PROVE TableTyped'
  <2>1. ASSUME NEW m \in Nodes, NEW q \in Nodes, NEW f \in Range(connections[m][q])
        PROVE  Between(f, m, q)'
    BY <1>0, EndsKeptBetween DEF TableTyped
  <2> QED  BY <1>0, <1>a, <2>1 DEF TableTyped
<1>1. ASSUME NEW s \in Senders, Sending(s) PROVE TableTyped'
  <2>1. CASE RegisterOutgoing(s)
    <3>1. Between(sender[s].new, Source(s), Target(s))
      BY <2>1 DEF LinkInv, SendersTyped, SenderTyped, RegisterOutgoing
    <3> QED  BY <1>0, <1>a, <2>1, <3>1, RegisteredFacts DEF RegisterOutgoing
  <2>2. CASE ~RegisterOutgoing(s)
    BY <1>1, <1>a, <2>2 DEF Sending, SendStart, Connect, ConnectFails,
                LaunchOutgoing, SendMsg, Resend, Block
  <2> QED  BY <2>1, <2>2
<1>2. ASSUME NEW e \in Made, Listening(e) PROVE TableTyped'
  <2>1. CASE ReceiveServerIdentity(e)
    <3>1. Between(e, NodeOf(e), NodeOf(Other(e)))
      BY DEF Between
    <3> QED  BY <1>0, <1>a, <2>1, <3>1, IdentityEffect, RegisteredFacts
  <2>2. CASE ~ReceiveServerIdentity(e)
    BY <1>2, <1>a, <2>2 DEF Listening, Accept, Reset, Reject, LaunchIncoming
  <2> QED  BY <2>1, <2>2
<1>3. ASSUME NEW e \in Made, HandleConn(e) PROVE TableTyped'
  <2>1. CASE RemoveConnection(e)
    BY <1>0, <2>1, RemovedFacts DEF RemoveConnection
  <2>2. CASE ~RemoveConnection(e)
    BY <1>3, <1>a, <2>2 DEF HandleConn, Receive, Dispatch, Wake, Cleanup
  <2> QED  BY <2>1, <2>2
<1>4. ASSUME NEW n \in Nodes, \/ Listen(n) \/ Pause(n) \/ Unpause(n) \/ SetValidPeers(n)
                              \/ StopHost(n) \/ Stop(n)
      PROVE  UNCHANGED connections
  BY <1>4 DEF Listen, Pause, Unpause, SetValidPeers, StopHost, Stop, StopConnections,
              StopReturns
<1>5. ASSUME NEW k \in DOMAIN conns, Break(k) PROVE UNCHANGED connections
  BY <1>5 DEF Break
<1>6. Managed \subseteq Nodes
  BY RouterAssumption
<1> QED  BY <1>a, <1>1, <1>2, <1>3, <1>4, <1>5, <1>6 DEF Next, vars

\* One sender goes to a new state.
SenderGoes(s, r) == sender' = [sender EXCEPT ![s] = r]

LEMMA SenderChange ==
    ASSUME sender \in [Senders -> SenderState], NEW s \in Senders, NEW r \in SenderState,
           SenderGoes(s, r)
    PROVE  /\ sender' \in [Senders -> SenderState] /\ sender'[s] = r
           /\ \A t \in Senders : t # s => sender'[t] = sender[t]
  BY DEF SenderGoes

LEMMA ReturnParts ==
    ASSUME sender \in [Senders -> SenderState], NEW s \in Senders,
           NEW result \in {"over", "failed"}, Return(s, result)
    PROVE  \E r \in SenderState :
             /\ SenderGoes(s, r) /\ r.at = result /\ r.conn = NoEnd /\ r.new = NoEnd
             /\ r.next = sender[s].next /\ r.retried = sender[s].retried
<1> DEFINE q == sender[s]
           r == [[[q EXCEPT !.at = result] EXCEPT !.conn = NoEnd] EXCEPT !.new = NoEnd]
<1>1. q \in SenderState
  OBVIOUS
<1>2. r \in SenderState
  BY <1>1 DEF SenderState
<1>3. SenderGoes(s, r)
  BY <1>1 DEF SenderGoes, Return, SenderState
<1>4. /\ r.at = result /\ r.conn = NoEnd /\ r.new = NoEnd
      /\ r.next = q.next /\ r.retried = q.retried
  BY <1>1 DEF SenderState
<1> HIDE DEF r
<1> QED  BY <1>2, <1>3, <1>4

LEMMA SentParts ==
    ASSUME sender \in [Senders -> SenderState], NEW s \in Senders, Sent(s),
           sender[s].next \in 1..Len(Batch[s])
    PROVE  \/ sender[s].next = Len(Batch[s]) /\ Return(s, "over")
           \/ \E r \in SenderState :
                /\ SenderGoes(s, r) /\ r.at = "send" /\ r.next = sender[s].next + 1
                /\ r.next \in 1..Len(Batch[s])
                /\ r.conn = sender[s].conn /\ r.new = sender[s].new
                /\ r.retried = sender[s].retried
<1> SUFFICES ASSUME sender[s].next # Len(Batch[s])
             PROVE  \E r \in SenderState :
                      /\ SenderGoes(s, r) /\ r.at = "send" /\ r.next = sender[s].next + 1
                      /\ r.next \in 1..Len(Batch[s])
                      /\ r.conn = sender[s].conn /\ r.new = sender[s].new
                      /\ r.retried = sender[s].retried
  BY DEF Sent
<1> DEFINE q == sender[s]
<1>1. q \in SenderState /\ q.next \in Nat
  BY DEF SenderState
<1>2. PICK i \in Nat : i = q.next + 1
  BY <1>1
<1> DEFINE r == [[q EXCEPT !.next = i] EXCEPT !.at = "send"]
<1>3. /\ r \in SenderState /\ r.next = i /\ r.at = "send"
      /\ r.conn = q.conn /\ r.new = q.new /\ r.retried = q.retried
  BY <1>1 DEF SenderState
<1>4. SenderGoes(s, r)
  <2>1. sender' = [sender EXCEPT ![s].next = @ + 1, ![s].at = "send"]
    BY DEF Sent
  <2> QED  BY <1>1, <1>2, <2>1 DEF SenderGoes, SenderState
<1>5. i \in 1..Len(Batch[s])
  <2>1. PICK len \in Nat : len = Len(Batch[s])
    BY BatchTyped
  <2>2. PICK j \in 1..len : j = q.next
    BY <2>1
  <2> QED  BY <1>2, <2>1, <2>2
<1> HIDE DEF r
<1> QED  BY <1>2, <1>3, <1>4, <1>5

\* What a step of a sender does to its state.
SenderNext(s, r) ==
    /\ SenderGoes(s, r)
    /\ \/ r.next = sender[s].next
       \/ r.next = sender[s].next + 1 /\ r.next \in 1..Len(Batch[s])
    /\ r.at # "start"
    /\ \/ r.conn = NoEnd \/ r.conn = sender[s].conn \/ r.conn = sender[s].new
       \/ r.conn = FirstConnection(Source(s), Target(s))
    /\ \/ r.new = NoEnd \/ r.new = sender[s].new
       \/ r.new = <<Len(conns) + 1, 1>> /\ Connect(s)
    /\ r.at \in {"send", "resend"} => r.conn # NoEnd
    /\ r.at \in {"register", "launch", "resend"} => r.new # NoEnd

LEMMA SenderParts ==
    ASSUME LinkInv, NEW s \in Senders, Sending(s)
    PROVE  UNCHANGED sender \/ \E r \in SenderState : SenderNext(s, r)
<1> DEFINE q == sender[s]
<1>0. /\ sender \in [Senders -> SenderState] /\ q \in SenderState /\ ConnsTyped /\ TableTyped
      /\ q.next \in 1..Len(Batch[s])
      /\ q.at \in {"send", "resend"} => q.conn # NoEnd
      /\ q.at \in {"register", "launch", "resend"} => q.new # NoEnd
  BY DEF LinkInv, SendersTyped, SenderTyped
<1>a. ASSUME NEW result \in {"over", "failed"}, Return(s, result)
      PROVE  \E r \in SenderState : SenderNext(s, r)
  <2>1. PICK r \in SenderState :
             /\ SenderGoes(s, r) /\ r.at = result /\ r.conn = NoEnd /\ r.new = NoEnd
             /\ r.next = sender[s].next /\ r.retried = sender[s].retried
    BY <1>0, <1>a, ReturnParts
  <2>2. r.at # "start" /\ r.at \notin {"send", "resend"}
        /\ r.at \notin {"register", "launch", "resend"}
    BY <1>a, <2>1
  <2> QED  BY <2>1, <2>2 DEF SenderNext
<1>b. ASSUME Sent(s), q.at \in {"send", "resend"}
      PROVE  \E r \in SenderState : SenderNext(s, r)
  <2>1. CASE Return(s, "over")
    BY <1>a, <2>1
  <2>2. ASSUME NEW r \in SenderState,
                /\ SenderGoes(s, r) /\ r.at = "send" /\ r.next = sender[s].next + 1
                /\ r.next \in 1..Len(Batch[s])
                /\ r.conn = sender[s].conn /\ r.new = sender[s].new
                /\ r.retried = sender[s].retried
        PROVE SenderNext(s, r)
    BY <1>0, <1>b, <2>2 DEF SenderNext
  <2> QED  BY <1>0, <1>b, <2>1, <2>2, SentParts
<1>1. CASE SendStart(s)
  <2>1. CASE Return(s, "over")
    BY <1>a, <2>1
  <2>2. CASE ~Return(s, "over")
    <3> DEFINE c == FirstConnection(Source(s), Target(s))
               r == [[q EXCEPT !.at = IF c = NoEnd THEN "dial" ELSE "send"] EXCEPT !.conn = c]
    <3>1. sender' = [sender EXCEPT ![s].at = IF c = NoEnd THEN "dial" ELSE "send",
                                   ![s].conn = c]
      BY <1>1, <2>2 DEF SendStart
    <3>2. c \in Ends \cup {NoEnd}
      BY <1>0, ServersTyped DEF FirstConnection, TableTyped
    <3>3. PICK d \in Ends \cup {NoEnd} : d = c
      BY <3>2
    <3> HIDE DEF c
    <3>4. r \in SenderState
      BY <1>0, <3>2 DEF SenderState
    <3>5. SenderGoes(s, r)
      BY <1>0, <3>1 DEF SenderGoes, SenderState
    <3>6. SenderNext(s, r)
      BY <3>5 DEF SenderNext, c
    <3> QED  BY <3>4, <3>6
  <2> QED  BY <2>1, <2>2
<1>2. CASE Connect(s)
  <2> DEFINE e == <<Len(conns) + 1, 1>>
             r == [[q EXCEPT !.at = "register"] EXCEPT !.new = e]
  <2>1. Len(conns) + 1 \in 1..MaxConns /\ Len(conns) + 1 # 0
    BY <1>0, <1>2, RouterAssumption DEF ConnsTyped, Connect
  <2>2. e \in Ends /\ e # NoEnd
    BY <2>1 DEF Ends, NoEnd
  <2>3. sender' = [sender EXCEPT ![s].at = "register", ![s].new = e]
    BY <1>2 DEF Connect
  <2>a. e = <<Len(conns) + 1, 1>>
    OBVIOUS
  <2> HIDE DEF e
  <2>4. r \in SenderState
    BY <1>0, <2>2 DEF SenderState
  <2>5. SenderGoes(s, r)
    BY <1>0, <2>3 DEF SenderGoes, SenderState
  <2>6. SenderNext(s, r)
    BY <1>2, <2>2, <2>5, <2>a DEF SenderNext
  <2> QED  BY <2>4, <2>6
<1>3. CASE RegisterOutgoing(s)
  <2>1. CASE Return(s, "failed")
    BY <1>a, <2>1
  <2>2. CASE Go(s, "launch")
    <3> DEFINE r == [q EXCEPT !.at = "launch"]
    <3>1. r \in SenderState
      BY <1>0 DEF SenderState
    <3>2. SenderGoes(s, r)
      BY <1>0, <2>2 DEF SenderGoes, SenderState, Go
    <3>3. q.new # NoEnd
      BY <1>0, <1>3 DEF RegisterOutgoing
    <3>4. SenderNext(s, r)
      BY <3>2, <3>3 DEF SenderNext
    <3> QED  BY <3>1, <3>4
  <2> QED  BY <1>3, <2>1, <2>2 DEF RegisterOutgoing
<1>4. CASE LaunchOutgoing(s)
  <2>1. CASE Return(s, "failed")
    BY <1>a, <2>1
  <2>2. CASE ~Return(s, "failed")
    <3> DEFINE r == [[q EXCEPT !.at = IF q.retried THEN "resend" ELSE "send"]
                       EXCEPT !.conn = IF @ = NoEnd THEN q.new ELSE @]
    <3>1. sender' = [sender EXCEPT ![s].at = IF q.retried THEN "resend" ELSE "send",
                                   ![s].conn = IF @ = NoEnd THEN q.new ELSE @]
      BY <1>4, <2>2 DEF LaunchOutgoing
    <3>2. r \in SenderState
      BY <1>0 DEF SenderState
    <3>3. SenderGoes(s, r)
      BY <1>0, <3>1 DEF SenderGoes, SenderState
    <3>4. q.new # NoEnd
      BY <1>0, <1>4 DEF LaunchOutgoing
    <3>5. SenderNext(s, r)
      BY <3>3, <3>4 DEF SenderNext
    <3> QED  BY <3>2, <3>5
  <2> QED  BY <2>1, <2>2
<1>5. CASE SendMsg(s)
  <2>1. CASE sender' = [sender EXCEPT ![s].at = "dial", ![s].retried = TRUE]
    <3> DEFINE r == [[q EXCEPT !.at = "dial"] EXCEPT !.retried = TRUE]
    <3>1. r \in SenderState
      BY <1>0 DEF SenderState
    <3>2. SenderGoes(s, r)
      BY <1>0, <2>1 DEF SenderGoes, SenderState
    <3>3. SenderNext(s, r)
      BY <3>2 DEF SenderNext
    <3> QED  BY <3>1, <3>3
  <2>2. CASE Sent(s)
    BY <1>5, <1>b, <2>2 DEF SendMsg
  <2> QED  BY <1>5, <2>1, <2>2 DEF SendMsg
<1>6. CASE Resend(s)
  BY <1>6, <1>a, <1>b DEF Resend
<1>7. CASE ConnectFails(s) \/ Block(s)
  BY <1>7, <1>a DEF ConnectFails, Block
<1> QED  BY <1>1, <1>2, <1>3, <1>4, <1>5, <1>6, <1>7 DEF Sending

LEMMA SendersTypedStep == LinkInv /\ [Next]_vars => SendersTyped'
<1> SUFFICES ASSUME LinkInv, [Next]_vars PROVE SendersTyped'
  OBVIOUS
<1>0. /\ sender \in [Senders -> SenderState] /\ ConnsTyped /\ TableTyped /\ EndsKept
      /\ \A s \in Senders : SenderTyped(s)
  BY ConnsTypedStep DEF LinkInv, SendersTyped
<1>a. ASSUME NEW t \in Senders, sender'[t] = sender[t] PROVE SenderTyped(t)'
  <2>1. \A e : Between(e, Source(t), Target(t)) => Between(e, Source(t), Target(t))'
    BY <1>0, EndsKeptBetween
  <2> QED  BY <1>0, <1>a, <2>1 DEF SenderTyped, Source, Target
<1>b. ASSUME UNCHANGED sender PROVE SendersTyped'
  BY <1>0, <1>a, <1>b DEF SendersTyped
<1>1. ASSUME NEW s \in Senders, Sending(s) PROVE SendersTyped'
  <2>1. CASE UNCHANGED sender
    BY <1>b, <2>1
  <2>2. ASSUME NEW r \in SenderState, SenderNext(s, r) PROVE SendersTyped'
    <3>1. /\ sender' \in [Senders -> SenderState] /\ sender'[s] = r
          /\ \A t \in Senders : t # s => sender'[t] = sender[t]
      BY <1>0, <2>2, SenderChange DEF SenderNext
    <3>2. ASSUME r.conn # NoEnd PROVE Between(r.conn, Source(s), Target(s))
      <4>1. CASE r.conn = FirstConnection(Source(s), Target(s))
        <5>1. PICK arr : arr = connections[Source(s)][Target(s)]
          OBVIOUS
        <5>2. arr \in Seq(Ends) /\ arr # <<>> /\ r.conn = Head(arr)
          BY <1>0, <3>2, <4>1, <5>1, ServersTyped DEF FirstConnection, TableTyped
        <5>3. r.conn \in Range(arr)
          BY <5>2 DEF Range
        <5> QED  BY <1>0, <5>1, <5>3, ServersTyped DEF TableTyped
      <4>2. CASE r.conn = sender[s].conn \/ r.conn = sender[s].new
        BY <1>0, <3>2, <4>2 DEF SenderTyped
      <4> QED  BY <2>2, <3>2, <4>1, <4>2 DEF SenderNext
    <3>3. ASSUME r.new # NoEnd PROVE Between(r.new, Source(s), Target(s))'
      <4>1. CASE r.new = sender[s].new
        BY <1>0, <3>3, <4>1, EndsKeptBetween DEF SenderTyped
      <4>2. CASE r.new = <<Len(conns) + 1, 1>> /\ Connect(s)
        <5>1. PICK k : k = Len(conns) + 1
          OBVIOUS
        <5>2. IsNew(s, k)
          BY <1>0, <4>2, <5>1, ConnectEffect DEF ConnsTyped
        <5>3. r.new = <<k, 1>> /\ r.new[1] = k /\ r.new[2] = 1 /\ Other(r.new) = <<k, 2>>
          BY <4>2, <5>1 DEF Other
        <5> QED  BY <5>2, <5>3 DEF Between, IsNew, NodeOf, Other, Source, Target
      <4> QED  BY <2>2, <3>3, <4>1, <4>2 DEF SenderNext
    <3>4. SenderTyped(s)'
      <4>1. r.conn # NoEnd => Between(r.conn, Source(s), Target(s))'
        BY <1>0, <3>2, EndsKeptBetween
      <4>2. sender[s].next \in 1..Len(Batch[s])
        BY <1>0 DEF SenderTyped
      <4>3. /\ r.next \in 1..Len(Batch[s]) /\ r.at # "start"
            /\ r.at \in {"send", "resend"} => r.conn # NoEnd
            /\ r.at \in {"register", "launch", "resend"} => r.new # NoEnd
        BY <2>2, <4>2 DEF SenderNext
      <4> QED  BY <3>1, <3>3, <4>1, <4>3 DEF SenderTyped, Source, Target
    <3> QED  BY <1>a, <3>1, <3>4 DEF SendersTyped
  <2> QED  BY <1>1, <2>1, <2>2, SenderParts
<1>2. ASSUME NEW e \in Made, Listening(e) \/ HandleConn(e) PROVE UNCHANGED sender
  BY <1>2 DEF Listening, Accept, Reset, ReceiveServerIdentity, Reject, LaunchIncoming,
              HandleConn, Receive, Dispatch, Wake, Cleanup, RemoveConnection
<1>3. ASSUME NEW n \in Nodes, \/ Listen(n) \/ Pause(n) \/ Unpause(n) \/ SetValidPeers(n)
                              \/ StopHost(n) \/ Stop(n)
      PROVE  UNCHANGED sender
  BY <1>3 DEF Listen, Pause, Unpause, SetValidPeers, StopHost, Stop, StopConnections,
              StopReturns
<1>4. ASSUME NEW k \in DOMAIN conns, Break(k) PROVE UNCHANGED sender
  BY <1>4 DEF Break
<1>5. Managed \subseteq Nodes
  BY RouterAssumption
<1> QED  BY <1>b, <1>1, <1>2, <1>3, <1>4, <1>5 DEF Next, vars

LEMMA LinkStep == LinkInv /\ [Next]_vars => LinkInv'
  BY NodesTypedStep, ConnsTypedStep, TableTypedStep, SendersTypedStep DEF LinkInv

-----------------------------------------------------------------------------
(* The table holds the connections that have or get a goroutine.           *)

Dialing(s) == sender[s].at \in {"register", "launch"}
\* A connection that a sender dialed is that sender's until it is launched.
Dialed ==
    \A s \in Senders : Dialing(s) =>
        /\ At(sender[s].new) = "dialed"
        /\ \A t \in Senders : Dialing(t) /\ sender[t].new = sender[s].new => s = t

Tracking == Handling \cup {"launch", "remove"}
Row(e) == connections[NodeOf(e)][NodeOf(Other(e))]
Live(e) == At(e) \in Tracking \/ OutgoingLaunch(e)
Tracked(e) ==
    /\ Live(e) => e \in Range(Row(e))
    /\ e \in Range(Row(e)) => Live(e) \/ IsClosed(NodeOf(e))

RowsInjective == \A n, peer \in Nodes : IsInjective(connections[n][peer])
TrackInv == Dialed /\ RowsInjective /\ \A e \in Made : Tracked(e)

LEMMA DialedNew ==
    ASSUME LinkInv, Dialed, NEW s \in Senders, Dialing(s)
    PROVE  /\ sender[s].new \in Made /\ At(sender[s].new) = "dialed"
           /\ NodeOf(sender[s].new) = Source(s) /\ NodeOf(Other(sender[s].new)) = Target(s)
  BY DEF LinkInv, SendersTyped, SenderTyped, Between, Dialed, Dialing

\* An end that is not dialed is no sender's to launch.
LEMMA NotDialed ==
    ASSUME Dialed, NEW e, At(e) # "dialed"
    PROVE  ~OutgoingLaunch(e)
  BY DEF Dialed, Dialing, OutgoingLaunch

\* All ends stay where they are.
Steady ==
    /\ Made' = Made
    /\ \A f \in Made : /\ NodeOf(f)' = NodeOf(f) /\ NodeOf(Other(f))' = NodeOf(Other(f))
                       /\ At(f)' = At(f)
LEMMA SteadyRests == ASSUME Rests PROVE Steady
  BY DEF Rests, SameEnds, Steady
LEMMA SteadyStill == ASSUME UNCHANGED conns PROVE Steady
  BY DEF Made, NodeOf, Other, At, Steady

LEMMA RowOf ==
    ASSUME LinkInv, NEW e \in Made
    PROVE  Row(e) \in Seq(Ends) /\ NodeOf(e) \in Nodes /\ NodeOf(Other(e)) \in Nodes
  BY NodesOfEnd DEF LinkInv, TableTyped, Row

\* Stop goes on: a closed router stays closed.
LEMMA TrackSteady ==
    ASSUME LinkInv, TrackInv, Steady, UNCHANGED <<sender, connections>>,
           \A n \in Nodes : IsClosed(n) => IsClosed(n)'
    PROVE  TrackInv'
<1>1. Dialed'
  <2> SUFFICES ASSUME NEW s \in Senders, Dialing(s)'
               PROVE  /\ conns'[sender'[s].new[1]].at[sender'[s].new[2]] = "dialed"
                      /\ \A t \in Senders : Dialing(t)' /\ sender'[t].new = sender'[s].new => s = t
    BY DEF Dialed, At
  <2>1. Dialing(s) /\ \A t \in Senders : Dialing(t)' => Dialing(t)
    BY DEF Dialing
  <2>2. sender[s].new \in Made /\ At(sender[s].new) = "dialed"
    BY <2>1, DialedNew DEF TrackInv
  <2>3. PICK f \in Made : f = sender[s].new
    BY <2>2
  <2>4. At(f)' = "dialed"
    BY <2>2, <2>3 DEF Steady
  <2> QED  BY <2>1, <2>3, <2>4 DEF TrackInv, Dialed, At
<1>2. RowsInjective'
  BY DEF TrackInv, RowsInjective
<1>3. ASSUME NEW e \in Made PROVE Tracked(e)'
  <2>1. Tracked(e) /\ NodeOf(e) \in Nodes
    BY RowOf DEF TrackInv
  <2>2. OutgoingLaunch(e)' <=> OutgoingLaunch(e)
    BY DEF OutgoingLaunch
  <2>3. Row(e)' = Row(e) /\ At(e)' = At(e) /\ NodeOf(e)' = NodeOf(e)
    BY DEF Row, Steady
  <2>4. IsClosed(NodeOf(e)) => IsClosed(NodeOf(e))'
    BY <2>1, <2>3 DEF IsClosed
  <2> QED  BY <2>1, <2>2, <2>3, <2>4 DEF Tracked, Live
<1> QED  BY <1>1, <1>2, <1>3 DEF TrackInv, Steady

\* The end e moves, and is tracked after the step if it was.
LEMMA TrackGoes ==
    ASSUME LinkInv, TrackInv, NEW e \in Made, NEW place, Goes(e, place),
           UNCHANGED <<sender, connections, stop>>, At(e) # "dialed",
           \/ At(e) \in Tracking <=> place \in Tracking
           \/ place \notin Tracking /\ IsClosed(NodeOf(e))
    PROVE  TrackInv'
<1>1. /\ Made' = Made
      /\ \A f \in Made : /\ NodeOf(f)' = NodeOf(f) /\ NodeOf(Other(f))' = NodeOf(Other(f))
                         /\ At(f)' = IF f = e THEN place ELSE At(f)
  BY DEF Goes, SameEnds
<1>2. Dialed'
  <2> SUFFICES ASSUME NEW s \in Senders, Dialing(s)'
               PROVE  /\ conns'[sender'[s].new[1]].at[sender'[s].new[2]] = "dialed"
                      /\ \A t \in Senders : Dialing(t)' /\ sender'[t].new = sender'[s].new => s = t
    BY DEF Dialed, At
  <2>1. Dialing(s) /\ \A t \in Senders : Dialing(t)' => Dialing(t)
    BY DEF Dialing
  <2>2. sender[s].new \in Made /\ At(sender[s].new) = "dialed"
    BY <2>1, DialedNew DEF TrackInv
  <2>3. PICK f \in Made : f = sender[s].new
    BY <2>2
  <2>4. At(f)' = "dialed"
    BY <1>1, <2>2, <2>3
  <2> QED  BY <2>1, <2>3, <2>4 DEF TrackInv, Dialed, At
<1>3. RowsInjective'
  BY DEF TrackInv, RowsInjective
<1>4. ASSUME NEW f \in Made PROVE Tracked(f)'
  <2>1. Tracked(f) /\ NodeOf(f) \in Nodes
    BY RowOf DEF TrackInv
  <2>2. OutgoingLaunch(f)' <=> OutgoingLaunch(f)
    BY DEF OutgoingLaunch
  <2>3. Row(f)' = Row(f) /\ NodeOf(f)' = NodeOf(f)
    BY <1>1 DEF Row
  <2>4. IsClosed(NodeOf(f))' <=> IsClosed(NodeOf(f))
    BY <2>1, <2>3 DEF IsClosed
  <2>5. CASE f # e
    BY <1>1, <2>1, <2>2, <2>3, <2>4, <2>5 DEF Tracked, Live
  <2>6. CASE f = e
    <3>1. ~OutgoingLaunch(e) /\ At(e)' = place
      BY <1>1, NotDialed DEF TrackInv
    <3> QED  BY <2>1, <2>2, <2>3, <2>4, <2>6, <3>1 DEF Tracked, Live
  <2> QED  BY <2>5, <2>6
<1> QED  BY <1>1, <1>2, <1>3, <1>4 DEF TrackInv

\* A step of a sender that makes or launches no connection.
LEMMA TrackQuiet ==
    ASSUME LinkInv, TrackInv, NEW s \in Senders, Steady, UNCHANGED <<connections, stop>>,
           \A t \in Senders : t # s => sender'[t] = sender[t],
           ~Dialing(s)', sender[s].at = "launch" => IsClosed(Source(s))
    PROVE  TrackInv'
<1>1. Dialed'
  <2> SUFFICES ASSUME NEW t \in Senders, Dialing(t)'
               PROVE  /\ conns'[sender'[t].new[1]].at[sender'[t].new[2]] = "dialed"
                      /\ \A u \in Senders : Dialing(u)' /\ sender'[u].new = sender'[t].new => t = u
    BY DEF Dialed, At
  <2>1. /\ t # s /\ sender'[t] = sender[t] /\ Dialing(t)
        /\ \A u \in Senders : Dialing(u)' => u # s /\ sender'[u] = sender[u] /\ Dialing(u)
    BY DEF Dialing
  <2>2. sender[t].new \in Made /\ At(sender[t].new) = "dialed"
    BY <2>1, DialedNew DEF TrackInv
  <2>3. PICK f \in Made : f = sender[t].new
    BY <2>2
  <2>4. At(f)' = "dialed"
    BY <2>2, <2>3 DEF Steady
  <2> QED  BY <2>1, <2>3, <2>4 DEF TrackInv, Dialed, At
<1>2. RowsInjective'
  BY DEF TrackInv, RowsInjective
<1>3. ASSUME NEW e \in Made PROVE Tracked(e)'
  <2>1. Tracked(e) /\ NodeOf(e) \in Nodes
    BY RowOf DEF TrackInv
  <2>2. Row(e)' = Row(e) /\ At(e)' = At(e) /\ NodeOf(e)' = NodeOf(e)
    BY DEF Row, Steady
  <2>3. IsClosed(NodeOf(e))' <=> IsClosed(NodeOf(e))
    BY <2>1, <2>2 DEF IsClosed
  <2>4. OutgoingLaunch(e)' => OutgoingLaunch(e)
    BY DEF OutgoingLaunch, Dialing
  <2>5. OutgoingLaunch(e) => OutgoingLaunch(e)' \/ IsClosed(NodeOf(e))
    <3>1. ASSUME NEW t \in Senders, sender[t].at = "launch", sender[t].new = e, t = s
          PROVE  IsClosed(NodeOf(e))
      <4>1. NodeOf(sender[s].new) = Source(s)
        BY <3>1, DialedNew DEF TrackInv, Dialing
      <4> QED  BY <3>1, <4>1
    <3>2. ASSUME NEW t \in Senders, sender[t].at = "launch", sender[t].new = e, t # s
          PROVE  OutgoingLaunch(e)'
      BY <3>2 DEF OutgoingLaunch
    <3> QED  BY <3>1, <3>2 DEF OutgoingLaunch
  <2> QED  BY <2>1, <2>2, <2>3, <2>4, <2>5 DEF Tracked, Live
<1> QED  BY <1>1, <1>2, <1>3 DEF TrackInv, Steady

\* The new connection of a sender is nobody else's.
LEMMA TrackConnect ==
    ASSUME LinkInv, TrackInv, NEW s \in Senders, Connect(s)
    PROVE  TrackInv'
<1>1. PICK k : k = Len(conns) + 1
  OBVIOUS
<1>2. conns \in Seq(Conn) /\ sender \in [Senders -> SenderState]
  BY DEF LinkInv, ConnsTyped, SendersTyped
<1>3. Grows(s) /\ IsNew(s, k)
  BY <1>1, <1>2, ConnectEffect
<1>4. /\ sender'[s].at = "register" /\ sender'[s].new = <<k, 1>>
      /\ \A t \in Senders : t # s => sender'[t] = sender[t]
      /\ UNCHANGED <<connections, stop>>
  BY <1>1, <1>2 DEF Connect, nodeVars, SenderState
<1>5. ASSUME NEW t \in Senders, t # s, Dialing(t)'
      PROVE  Dialing(t) /\ sender'[t] = sender[t] /\ sender[t].new \in Made
             /\ sender[t].new # <<k, 1>> /\ At(sender[t].new) = "dialed"
  <2>1. Dialing(t) /\ sender'[t] = sender[t]
    BY <1>4, <1>5 DEF Dialing
  <2> QED  BY <1>3, <2>1, DialedNew DEF TrackInv, IsNew
<1>6. Dialed'
  <2> SUFFICES ASSUME NEW t \in Senders, Dialing(t)'
               PROVE  /\ conns'[sender'[t].new[1]].at[sender'[t].new[2]] = "dialed"
                      /\ \A u \in Senders : Dialing(u)' /\ sender'[u].new = sender'[t].new => t = u
    BY DEF Dialed, At
  <2>1. CASE t = s
    <3>1. conns'[sender'[t].new[1]].at[sender'[t].new[2]] = "dialed"
      BY <1>3, <1>4, <2>1 DEF IsNew
    <3> QED  BY <1>4, <1>5, <2>1, <3>1
  <2>2. CASE t # s
    <3>1. PICK f \in Made : f = sender[t].new
      BY <1>5, <2>2
    <3>2. At(f)' = "dialed"
      BY <1>3, <1>5, <2>2, <3>1 DEF Grows
    <3>3. ASSUME NEW u \in Senders, Dialing(u)', sender'[u].new = sender'[t].new PROVE t = u
      BY <1>4, <1>5, <2>2, <3>3 DEF TrackInv, Dialed
    <3> QED  BY <1>4, <2>2, <3>1, <3>2, <3>3 DEF At
  <2> QED  BY <2>1, <2>2
<1>7. RowsInjective'
  BY <1>4 DEF TrackInv, RowsInjective
<1>8. ASSUME NEW e \in Made PROVE Tracked(e)'
  <2>1. Tracked(e) /\ NodeOf(e) \in Nodes
    BY RowOf DEF TrackInv
  <2>2. Row(e)' = Row(e) /\ At(e)' = At(e) /\ NodeOf(e)' = NodeOf(e)
    BY <1>3, <1>4 DEF Row, Grows
  <2>3. IsClosed(NodeOf(e))' <=> IsClosed(NodeOf(e))
    BY <1>4, <2>1, <2>2 DEF IsClosed
  <2>4. sender[s].at = "dial"
    BY DEF Connect
  <2>5. OutgoingLaunch(e)' <=> OutgoingLaunch(e)
    BY <1>4, <2>4 DEF OutgoingLaunch
  <2> QED  BY <2>1, <2>2, <2>3, <2>5 DEF Tracked, Live
<1>9. ASSUME NEW e, e = <<k, 1>> \/ e = <<k, 2>> PROVE Tracked(e)'
  <2>1. At(e)' \in {"dialed", "backlog", "hello"}
    BY <1>3, <1>9 DEF IsNew, At
  <2>2. ~OutgoingLaunch(e)'
    <3> SUFFICES ASSUME NEW t \in Senders, sender'[t].at = "launch", sender'[t].new = e
                 PROVE  FALSE
      BY DEF OutgoingLaunch
    <3>1. t # s /\ Dialing(t)'
      BY <1>4 DEF Dialing
    <3>2. e \in Made
      BY <1>5, <3>1
    <3> QED  BY <1>3, <1>9, <3>2 DEF IsNew
  <2>3. ~Live(e)'
    BY <2>1, <2>2 DEF Live, Tracking, Handling
  <2>4. e \notin Made /\ e \in Made'
    BY <1>3, <1>9 DEF IsNew
  <2>5. NodeOf(e)' \in Nodes /\ NodeOf(Other(e))' \in Nodes
    <3>1. e[1] = k /\ e[2] \in {1, 2} /\ Other(e)[1] = k /\ Other(e)[2] \in {1, 2}
      BY <1>9 DEF Other
    <3>2. NodeOf(e)' \in {Source(s), Target(s)} /\ NodeOf(Other(e))' \in {Source(s), Target(s)}
      BY <1>3, <3>1 DEF NodeOf, IsNew, Other
    <3> QED  BY <3>2, ServersTyped
  <2>6. e \notin Range(Row(e)')
    <3>1. PICK n \in Nodes : n = NodeOf(e)'
      BY <2>5
    <3>2. PICK peer \in Nodes : peer = NodeOf(Other(e))'
      BY <2>5
    <3>3. Row(e)' = connections[n][peer]
      BY <1>4, <3>1, <3>2 DEF Row
    <3> QED  BY <2>4, <3>3 DEF LinkInv, TableTyped, Between
  <2> QED  BY <2>3, <2>6 DEF Tracked
<1>10. \A e \in Made' : Tracked(e)'
  <2>1. \A e \in Made' : e \in Made \/ e = <<k, 1>> \/ e = <<k, 2>>
    BY <1>1, <1>3 DEF Grows
  <2> QED  BY <1>8, <1>9, <2>1
<1> QED  BY <1>6, <1>7, <1>10 DEF TrackInv

\* Another entry of the table grows: only the end that is added can change.
LEMMA TrackRegistered ==
    ASSUME LinkInv, TrackInv, EndsKept, NEW e \in Made, ~Live(e), ~IsClosed(NodeOf(e)),
           connections' = Registered(NodeOf(e), NodeOf(Other(e)), e),
           Made' = Made
    PROVE  /\ RowsInjective' /\ e \in Range(Row(e)')
           /\ \A f \in Made : f # e => (f \in Range(Row(f)') <=> f \in Range(Row(f)))
<1> DEFINE n == NodeOf(e)
           peer == NodeOf(Other(e))
<1>1. Between(e, n, peer) /\ ConnsTyped /\ TableTyped
  BY DEF Between, LinkInv
<1>2. /\ n \in Nodes /\ peer \in Nodes
      /\ connections'[n][peer] = Append(connections[n][peer], e)
      /\ Range(connections'[n][peer]) = Range(connections[n][peer]) \cup {e}
      /\ \A m, q \in Nodes : m # n \/ q # peer => connections'[m][q] = connections[m][q]
  BY <1>1, RegisteredFacts
<1>3. e \notin Range(connections[n][peer])
  BY DEF TrackInv, Tracked, Row
<1>4. connections[n][peer] \in Seq(Ends) /\ e \in Ends
  BY <1>1, <1>2, MadeAreEnds DEF TableTyped
<1>5. IsInjective(Append(connections[n][peer], e))
  BY <1>2, <1>3, <1>4, AppendedOnce DEF TrackInv, RowsInjective
<1> HIDE DEF n, peer
<1>6. RowsInjective'
  <2> SUFFICES ASSUME NEW m \in Nodes, NEW q \in Nodes PROVE IsInjective(connections'[m][q])
    BY DEF RowsInjective
  <2>1. CASE m = n /\ q = peer
    BY <1>2, <1>5, <2>1
  <2>2. CASE m # n \/ q # peer
    BY <1>2, <2>2 DEF TrackInv, RowsInjective
  <2> QED  BY <2>1, <2>2
<1>7. ASSUME NEW f \in Made
      PROVE  Row(f)' = connections'[NodeOf(f)][NodeOf(Other(f))]
             /\ NodeOf(f) \in Nodes /\ NodeOf(Other(f)) \in Nodes
  BY RowOf DEF Row, EndsKept
<1>8. e \in Range(Row(e)')
  BY <1>2, <1>7 DEF n, peer
<1>9. ASSUME NEW f \in Made, f # e PROVE f \in Range(Row(f)') <=> f \in Range(Row(f))
  <2>1. PICK m \in Nodes : m = NodeOf(f)
    BY <1>7
  <2>2. PICK q \in Nodes : q = NodeOf(Other(f))
    BY <1>7
  <2>3. Row(f)' = connections'[m][q] /\ Row(f) = connections[m][q]
    BY <1>7, <2>1, <2>2 DEF Row
  <2>4. CASE m = n /\ q = peer
    BY <1>2, <1>9, <2>3, <2>4
  <2>5. CASE m # n \/ q # peer
    BY <1>2, <2>3, <2>5
  <2> QED  BY <2>4, <2>5
<1> QED  BY <1>6, <1>8, <1>9

\* RegisterOutgoing, when the router is not closed.
LEMMA TrackOutgoing ==
    ASSUME LinkInv, TrackInv, NEW s \in Senders, RegisterOutgoing(s), ~IsClosed(Source(s))
    PROVE  TrackInv'
<1>1. PICK e : e = sender[s].new
  OBVIOUS
<1>2. /\ sender[s].at = "register" /\ Dialing(s)
      /\ connections' = Registered(Source(s), Target(s), e) /\ Go(s, "launch")
      /\ UNCHANGED <<conns, stop>>
  BY <1>1 DEF RegisterOutgoing, Dialing, nodeVars
<1>3. e \in Made /\ At(e) = "dialed" /\ NodeOf(e) = Source(s) /\ NodeOf(Other(e)) = Target(s)
  BY <1>1, <1>2, DialedNew DEF TrackInv
<1>4. ~OutgoingLaunch(e)
  BY <1>1, <1>2 DEF OutgoingLaunch, TrackInv, Dialed, Dialing
<1>5. ~Live(e)
  BY <1>3, <1>4 DEF Live, Tracking, Handling
<1>6. EndsKept /\ Made' = Made /\ Steady
  BY <1>2, StillKept, SteadyStill
<1>7. /\ RowsInjective' /\ e \in Range(Row(e)')
      /\ \A f \in Made : f # e => (f \in Range(Row(f)') <=> f \in Range(Row(f)))
  BY <1>2, <1>3, <1>5, <1>6, TrackRegistered
<1>8. /\ sender'[s].at = "launch" /\ sender'[s].new = e
      /\ \A t \in Senders : t # s => sender'[t] = sender[t]
  BY <1>1, <1>2 DEF Go, LinkInv, SendersTyped, SenderState
<1>9. /\ \A t \in Senders : sender'[t].new = sender[t].new
      /\ \A t \in Senders : Dialing(t)' => Dialing(t)
  BY <1>1, <1>2, <1>8 DEF Dialing
<1>10. Dialed'
  <2> SUFFICES ASSUME NEW t \in Senders, Dialing(t)'
               PROVE  /\ conns'[sender'[t].new[1]].at[sender'[t].new[2]] = "dialed"
                      /\ \A u \in Senders : Dialing(u)' /\ sender'[u].new = sender'[t].new => t = u
    BY DEF Dialed, At
  <2> QED  BY <1>2, <1>9 DEF TrackInv, Dialed, At
<1>11. OutgoingLaunch(e)' /\ \A f : f # e => (OutgoingLaunch(f)' <=> OutgoingLaunch(f))
  BY <1>1, <1>8 DEF OutgoingLaunch
<1>12. ASSUME NEW f \in Made PROVE Tracked(f)'
  <2>1. Tracked(f) /\ NodeOf(f)' = NodeOf(f) /\ At(f)' = At(f)
    BY <1>6 DEF TrackInv, Steady
  <2>2. IsClosed(NodeOf(f))' <=> IsClosed(NodeOf(f))
    BY <1>2, <2>1 DEF IsClosed
  <2>3. CASE f = e
    BY <1>7, <1>11, <2>3 DEF Tracked, Live
  <2>4. CASE f # e
    BY <1>7, <1>11, <2>1, <2>2, <2>4 DEF Tracked, Live
  <2> QED  BY <2>3, <2>4
<1> QED  BY <1>6, <1>7, <1>10, <1>12 DEF TrackInv

\* An identity is received, and the connection registered.
LEMMA TrackIncoming ==
    ASSUME LinkInv, TrackInv, NEW e \in Made, At(e) = "hello", ~IsClosed(NodeOf(e)),
           Goes(e, "launch"), connections' = Registered(NodeOf(e), NodeOf(Other(e)), e),
           UNCHANGED <<sender, stop>>
    PROVE  TrackInv'
<1>1. /\ Made' = Made
      /\ \A f \in Made : /\ NodeOf(f)' = NodeOf(f) /\ NodeOf(Other(f))' = NodeOf(Other(f))
                         /\ At(f)' = IF f = e THEN "launch" ELSE At(f)
  BY DEF Goes, SameEnds
<1>2. ~OutgoingLaunch(e)
  BY NotDialed DEF TrackInv
<1>3. ~Live(e) /\ EndsKept
  BY <1>1, <1>2 DEF Live, Tracking, Handling, EndsKept
<1>4. /\ RowsInjective' /\ e \in Range(Row(e)')
      /\ \A f \in Made : f # e => (f \in Range(Row(f)') <=> f \in Range(Row(f)))
  BY <1>1, <1>3, TrackRegistered
<1>5. Dialed'
  <2> SUFFICES ASSUME NEW s \in Senders, Dialing(s)'
               PROVE  /\ conns'[sender'[s].new[1]].at[sender'[s].new[2]] = "dialed"
                      /\ \A t \in Senders : Dialing(t)' /\ sender'[t].new = sender'[s].new => s = t
    BY DEF Dialed, At
  <2>1. Dialing(s) /\ \A t \in Senders : Dialing(t)' => Dialing(t)
    BY DEF Dialing
  <2>2. sender[s].new \in Made /\ At(sender[s].new) = "dialed"
    BY <2>1, DialedNew DEF TrackInv
  <2>3. PICK f \in Made : f = sender[s].new
    BY <2>2
  <2>4. At(f)' = "dialed"
    BY <1>1, <2>2, <2>3
  <2> QED  BY <2>1, <2>3, <2>4 DEF TrackInv, Dialed, At
<1>6. ASSUME NEW f \in Made PROVE Tracked(f)'
  <2>1. Tracked(f) /\ NodeOf(f)' = NodeOf(f)
    BY <1>1 DEF TrackInv
  <2>2. IsClosed(NodeOf(f))' <=> IsClosed(NodeOf(f))
    BY <2>1 DEF IsClosed
  <2>3. OutgoingLaunch(f)' <=> OutgoingLaunch(f)
    BY DEF OutgoingLaunch
  <2>4. CASE f = e
    BY <1>1, <1>4, <2>4 DEF Tracked, Live, Tracking
  <2>5. CASE f # e
    BY <1>1, <1>4, <2>1, <2>2, <2>3, <2>5 DEF Tracked, Live
  <2> QED  BY <2>4, <2>5
<1> QED  BY <1>1, <1>4, <1>5, <1>6 DEF TrackInv

\* The goroutine of a connection that was dialed starts.
LEMMA TrackLaunch ==
    ASSUME LinkInv, TrackInv, NEW s \in Senders, sender[s].at = "launch",
           Goes(sender[s].new, "receive"), UNCHANGED <<connections, stop>>,
           \A t \in Senders : t # s => sender'[t] = sender[t], ~Dialing(s)'
    PROVE  TrackInv'
<1>1. PICK e : e = sender[s].new
  OBVIOUS
<1>2. Dialing(s) /\ e \in Made /\ At(e) = "dialed" /\ OutgoingLaunch(e)
  BY <1>1, DialedNew DEF TrackInv, Dialing, OutgoingLaunch
<1>3. /\ Made' = Made
      /\ \A f \in Made : /\ NodeOf(f)' = NodeOf(f) /\ NodeOf(Other(f))' = NodeOf(Other(f))
                         /\ At(f)' = IF f = e THEN "receive" ELSE At(f)
  BY <1>1 DEF Goes, SameEnds
<1>4. \A t \in Senders : Dialing(t)' => t # s /\ sender'[t] = sender[t] /\ Dialing(t)
  BY DEF Dialing
<1>5. Dialed'
  <2> SUFFICES ASSUME NEW t \in Senders, Dialing(t)'
               PROVE  /\ conns'[sender'[t].new[1]].at[sender'[t].new[2]] = "dialed"
                      /\ \A u \in Senders : Dialing(u)' /\ sender'[u].new = sender'[t].new => t = u
    BY DEF Dialed, At
  <2>1. t # s /\ sender'[t] = sender[t] /\ Dialing(t)
    BY <1>4
  <2>2. sender[t].new \in Made /\ At(sender[t].new) = "dialed"
    BY <2>1, DialedNew DEF TrackInv
  <2>3. PICK f \in Made : f = sender[t].new
    BY <2>2
  <2>4. f # e
    BY <1>1, <1>2, <2>1, <2>3 DEF TrackInv, Dialed
  <2>5. At(f)' = "dialed"
    BY <1>3, <2>2, <2>3, <2>4
  <2> QED  BY <1>4, <2>1, <2>3, <2>5 DEF TrackInv, Dialed, At
<1>6. RowsInjective'
  BY DEF TrackInv, RowsInjective
<1>7. ASSUME NEW f \in Made PROVE Tracked(f)'
  <2>1. Tracked(f) /\ NodeOf(f)' = NodeOf(f) /\ Row(f)' = Row(f)
    BY <1>3 DEF TrackInv, Row
  <2>2. IsClosed(NodeOf(f))' <=> IsClosed(NodeOf(f))
    BY <2>1 DEF IsClosed
  <2>3. CASE f = e
    <3>1. Live(f) /\ Live(f)'
      BY <1>2, <1>3, <2>3 DEF Live, Tracking, Handling
    <3> QED  BY <2>1, <3>1 DEF Tracked
  <2>4. CASE f # e
    <3>1. OutgoingLaunch(f)' <=> OutgoingLaunch(f)
      BY <1>1, <1>4, <2>4 DEF OutgoingLaunch, Dialing
    <3> QED  BY <1>3, <2>1, <2>2, <2>4, <3>1 DEF Tracked, Live
  <2> QED  BY <2>3, <2>4
<1> QED  BY <1>3, <1>5, <1>6, <1>7 DEF TrackInv

\* removeConnection finds its own connection and takes out no other.
LEMMA TrackRemove ==
    ASSUME LinkInv, TrackInv, NEW e \in Made, RemoveConnection(e)
    PROVE  TrackInv'
<1>1. conns \in Seq(Conn) /\ ConnsTyped /\ TableTyped
  BY DEF LinkInv, ConnsTyped
<1>2. Goes(e, "gone") /\ At(e) = "remove" /\ UNCHANGED <<sender, stop>>
  BY <1>1, RemoveEffect DEF RemoveConnection, nodeVars
<1>3. /\ Made' = Made
      /\ \A f \in Made : /\ NodeOf(f)' = NodeOf(f) /\ NodeOf(Other(f))' = NodeOf(Other(f))
                         /\ At(f)' = IF f = e THEN "gone" ELSE At(f)
  BY <1>2 DEF Goes, SameEnds
<1>4. EndsKept
  BY <1>3 DEF EndsKept
<1>5. PICK n : n = NodeOf(e)
  OBVIOUS
<1>6. PICK peer : peer = NodeOf(Other(e))
  OBVIOUS
<1>7. /\ n \in Nodes /\ peer \in Nodes
      /\ connections'[n][peer] = WithoutEnd(connections[n][peer], e)
      /\ \A m, q \in Nodes : m # n \/ q # peer => connections'[m][q] = connections[m][q]
  BY <1>1, <1>4, <1>5, <1>6, RemovedFacts DEF RemoveConnection
<1>8. PICK arr \in Seq(Ends) : arr = connections[n][peer]
  BY <1>1, <1>7 DEF TableTyped
<1>9. PICK out : out = connections'[n][peer]
  OBVIOUS
<1>10. IsInjective(arr)
  BY <1>7, <1>8 DEF TrackInv, RowsInjective
<1>11. /\ Range(out) \subseteq Range(arr) /\ IsInjective(out) /\ e \notin Range(out)
       /\ \A f \in Range(arr) : f # e => f \in Range(out)
  <2>1. out = WithoutEnd(arr, e)
    BY <1>7, <1>8, <1>9
  <2> QED  BY <1>10, <2>1, WithoutEndRange
<1>12. RowsInjective'
  <2> SUFFICES ASSUME NEW m \in Nodes, NEW q \in Nodes PROVE IsInjective(connections'[m][q])
    BY DEF RowsInjective
  <2>1. CASE m = n /\ q = peer
    BY <1>9, <1>11, <2>1
  <2>2. CASE m # n \/ q # peer
    BY <1>7, <2>2 DEF TrackInv, RowsInjective
  <2> QED  BY <2>1, <2>2
<1>13. ~OutgoingLaunch(e) /\ \A f : OutgoingLaunch(f)' <=> OutgoingLaunch(f)
  BY <1>2, NotDialed DEF TrackInv, OutgoingLaunch
<1>14. Dialed'
  <2> SUFFICES ASSUME NEW s \in Senders, Dialing(s)'
               PROVE  /\ conns'[sender'[s].new[1]].at[sender'[s].new[2]] = "dialed"
                      /\ \A t \in Senders : Dialing(t)' /\ sender'[t].new = sender'[s].new => s = t
    BY DEF Dialed, At
  <2>1. Dialing(s) /\ \A t \in Senders : Dialing(t)' => Dialing(t)
    BY <1>2 DEF Dialing
  <2>2. sender[s].new \in Made /\ At(sender[s].new) = "dialed"
    BY <2>1, DialedNew DEF TrackInv
  <2>3. PICK f \in Made : f = sender[s].new
    BY <2>2
  <2>4. At(f)' = "dialed"
    BY <1>2, <1>3, <2>2, <2>3
  <2> QED  BY <1>2, <2>1, <2>3, <2>4 DEF TrackInv, Dialed, At
<1>15. ASSUME NEW f \in Made PROVE Tracked(f)'
  <2>1. Tracked(f) /\ NodeOf(f)' = NodeOf(f)
    BY <1>3 DEF TrackInv
  <2>2. IsClosed(NodeOf(f))' <=> IsClosed(NodeOf(f))
    BY <1>2, <2>1 DEF IsClosed
  <2>3. CASE f = e
    <3>1. ~Live(f)'
      BY <1>3, <1>13, <2>3 DEF Live, Tracking, Handling
    <3>2. Row(f)' = out
      BY <1>3, <1>5, <1>6, <1>9, <2>3 DEF Row
    <3> QED  BY <1>11, <2>3, <3>1, <3>2 DEF Tracked
  <2>4. CASE f # e
    <3>1. PICK m \in Nodes : m = NodeOf(f)
      BY RowOf
    <3>2. PICK q \in Nodes : q = NodeOf(Other(f))
      BY RowOf
    <3>3. Row(f)' = connections'[m][q] /\ Row(f) = connections[m][q]
      BY <1>3, <3>1, <3>2 DEF Row
    <3>4. f \in Range(Row(f)') <=> f \in Range(Row(f))
      <4>1. CASE m = n /\ q = peer
        BY <1>8, <1>9, <1>11, <2>4, <3>3, <4>1
      <4>2. CASE m # n \/ q # peer
        BY <1>7, <3>3, <4>2
      <4> QED  BY <4>1, <4>2
    <3> QED  BY <1>3, <1>13, <2>1, <2>2, <2>4, <3>4 DEF Tracked, Live
  <2> QED  BY <2>3, <2>4
<1> QED  BY <1>3, <1>12, <1>14, <1>15 DEF TrackInv

LEMMA SendersElse ==
    ASSUME LinkInv, NEW s \in Senders, Sending(s)
    PROVE  \A t \in Senders : t # s => sender'[t] = sender[t]
<1>1. sender \in [Senders -> SenderState]
  BY DEF LinkInv, SendersTyped
<1>2. ASSUME NEW r \in SenderState, SenderNext(s, r)
      PROVE  \A t \in Senders : t # s => sender'[t] = sender[t]
  BY <1>1, <1>2, SenderChange DEF SenderNext
<1> QED  BY <1>2, SenderParts

\* After these steps a sender has no connection to register or launch.
LEMMA SenderQuiet ==
    ASSUME LinkInv, NEW s \in Senders,
           \/ SendStart(s) \/ ConnectFails(s) \/ SendMsg(s) \/ Resend(s) \/ LaunchOutgoing(s)
           \/ RegisterOutgoing(s) /\ IsClosed(Source(s))
    PROVE  ~Dialing(s)' /\ \A t \in Senders : t # s => sender'[t] = sender[t]
<1>0. sender \in [Senders -> SenderState]
  BY DEF LinkInv, SendersTyped
<1>a. ASSUME NEW result \in {"over", "failed"}, Return(s, result) PROVE sender'[s].at = result
  BY <1>0, <1>a DEF Return, SenderState
<1>b. ASSUME Sent(s) PROVE sender'[s].at \in {"over", "send"}
  BY <1>0, <1>a, <1>b DEF Sent, SenderState
<1>c. \A t \in Senders : t # s => sender'[t] = sender[t]
  BY SendersElse DEF Sending
<1>1. ASSUME SendStart(s) PROVE ~Dialing(s)'
  <2>1. CASE Return(s, "over")
    BY <1>a, <2>1 DEF Dialing
  <2>2. CASE ~Return(s, "over")
    <3>1. PICK c : c = FirstConnection(Source(s), Target(s))
      OBVIOUS
    <3>2. sender' = [sender EXCEPT ![s].at = IF c = NoEnd THEN "dial" ELSE "send",
                                   ![s].conn = c]
      BY <1>1, <2>2, <3>1 DEF SendStart
    <3>3. sender'[s].at \in {"dial", "send"}
      BY <1>0, <3>2 DEF SenderState
    <3> QED  BY <3>3 DEF Dialing
  <2> QED  BY <2>1, <2>2
<1>2. ASSUME ConnectFails(s) \/ (RegisterOutgoing(s) /\ IsClosed(Source(s))) PROVE ~Dialing(s)'
  BY <1>2, <1>a DEF ConnectFails, RegisterOutgoing, Dialing
<1>3. ASSUME SendMsg(s) PROVE ~Dialing(s)'
  <2>1. CASE Sent(s)
    BY <1>b, <2>1 DEF Dialing
  <2>2. CASE sender' = [sender EXCEPT ![s].at = "dial", ![s].retried = TRUE]
    <3>1. sender'[s].at = "dial"
      BY <1>0, <2>2 DEF SenderState
    <3> QED  BY <3>1 DEF Dialing
  <2> QED  BY <1>3, <2>1, <2>2 DEF SendMsg
<1>4. ASSUME Resend(s) PROVE ~Dialing(s)'
  <2>1. CASE Sent(s)
    BY <1>b, <2>1 DEF Dialing
  <2>2. CASE Return(s, "failed")
    BY <1>a, <2>2 DEF Dialing
  <2> QED  BY <1>4, <2>1, <2>2 DEF Resend
<1>5. ASSUME LaunchOutgoing(s) PROVE ~Dialing(s)'
  <2>1. CASE Return(s, "failed")
    BY <1>a, <2>1 DEF Dialing
  <2>2. CASE sender' = [sender EXCEPT
                      ![s].at = IF sender[s].retried THEN "resend" ELSE "send",
                      ![s].conn = IF @ = NoEnd THEN sender[s].new ELSE @]
    <3>1. sender'[s].at \in {"resend", "send"}
      BY <1>0, <2>2 DEF SenderState
    <3> QED  BY <3>1 DEF Dialing
  <2> QED  BY <1>5, <2>1, <2>2, LaunchOutgoingEffect
<1>6. ~Dialing(s)'
  BY <1>1, <1>2, <1>3, <1>4, <1>5
<1> QED  BY <1>6, <1>c

LEMMA TrackInit == Init => TrackInv
<1> SUFFICES ASSUME Init PROVE TrackInv
  OBVIOUS
<1>1. \A s \in Senders : ~Dialing(s)
  <2>1. PICK scenario \in Scenarios :
          sender = [s \in Senders |->
              [at |-> IF s \in scenario.running THEN "start" ELSE "over", next |-> 1,
               conn |-> NoEnd, new |-> NoEnd, retried |-> FALSE]]
    BY DEF Init
  <2> QED  BY <2>1 DEF Dialing
<1>2. Made = {}
  BY DEF Init, Made
<1>3. RowsInjective
  BY DEF Init, RowsInjective, IsInjective
<1> QED  BY <1>1, <1>2, <1>3 DEF TrackInv, Dialed

LEMMA TrackStep == LinkInv /\ TrackInv /\ [Next]_vars => TrackInv'
<1> SUFFICES ASSUME LinkInv, TrackInv, [Next]_vars PROVE TrackInv'
  OBVIOUS
<1>0. conns \in Seq(Conn) /\ ConnsTyped /\ NodesTyped
  BY DEF LinkInv, ConnsTyped
<1>a. UNCHANGED stop => \A n \in Nodes : IsClosed(n) => IsClosed(n)'
  BY DEF IsClosed
<1>1. ASSUME NEW s \in Senders, Sending(s) PROVE TrackInv'
  <2>1. CASE SendStart(s) \/ ConnectFails(s)
    <3>1. sender[s].at # "launch" /\ UNCHANGED <<conns, connections, stop>>
      BY <2>1 DEF SendStart, ConnectFails, nodeVars
    <3> QED  BY <2>1, <3>1, SteadyStill, SenderQuiet, TrackQuiet
  <2>2. CASE SendMsg(s) \/ Resend(s)
    <3>1. sender[s].at # "launch" /\ UNCHANGED <<connections, stop>>
      BY <2>2 DEF SendMsg, Resend, nodeVars
    <3>2. Steady
      BY <2>2, SendMsgEffect, ResendEffect, SteadyStill, SteadyRests
    <3> QED  BY <2>2, <3>1, <3>2, SenderQuiet, TrackQuiet
  <2>3. CASE LaunchOutgoing(s)
    <3>1. sender[s].at = "launch" /\ UNCHANGED <<connections, stop>>
      BY <2>3 DEF LaunchOutgoing, nodeVars
    <3>2. ~Dialing(s)' /\ \A t \in Senders : t # s => sender'[t] = sender[t]
      BY <2>3, SenderQuiet
    <3>3. CASE Goes(sender[s].new, "receive")
      BY <3>1, <3>2, <3>3, TrackLaunch
    <3>4. CASE UNCHANGED conns /\ IsClosed(Source(s))
      BY <3>1, <3>2, <3>4, SteadyStill, TrackQuiet
    <3> QED  BY <2>3, <3>3, <3>4, LaunchOutgoingEffect
  <2>4. CASE RegisterOutgoing(s)
    <3>1. CASE IsClosed(Source(s))
      <4>1. sender[s].at # "launch" /\ UNCHANGED <<conns, connections, stop>>
        BY <2>4, <3>1 DEF RegisterOutgoing, nodeVars
      <4> QED  BY <2>4, <3>1, <4>1, SteadyStill, SenderQuiet, TrackQuiet
    <3> QED  BY <2>4, <3>1, TrackOutgoing
  <2>5. CASE Block(s)
    BY <1>a, <2>5, SteadyStill, TrackSteady DEF Block, nodeVars
  <2> QED  BY <1>1, <2>1, <2>2, <2>3, <2>4, <2>5, TrackConnect DEF Sending
<1>2. ASSUME NEW e \in Made, Listening(e) PROVE TrackInv'
  <2>1. CASE ReceiveServerIdentity(e)
    <3>1. At(e) = "hello" /\ UNCHANGED <<sender, stop>>
      BY <2>1 DEF ReceiveServerIdentity, nodeVars
    <3>2. CASE /\ Goes(e, "launch") /\ ~IsClosed(NodeOf(e))
               /\ connections' = Registered(NodeOf(e), NodeOf(Other(e)), e)
      BY <3>1, <3>2, TrackIncoming
    <3>3. ASSUME NEW place \in {"gone", "reject"}, Goes(e, place), UNCHANGED connections
          PROVE  TrackInv'
      <4>1. At(e) \notin Tracking /\ place \notin Tracking /\ At(e) # "dialed"
        BY <3>1, <3>3 DEF Tracking, Handling
      <4> QED  BY <3>1, <3>3, <4>1, TrackGoes
    <3> QED  BY <1>0, <2>1, <3>2, <3>3, IdentityEffect
  <2>2. CASE Accept(e) \/ Reset(e) \/ Reject(e)
    <3>1. At(e) \notin Tracking /\ At(e) # "dialed" /\ UNCHANGED <<sender, connections, stop>>
      BY <2>2 DEF Accept, Reset, Reject, nodeVars, Tracking, Handling
    <3>2. "hello" \notin Tracking /\ "gone" \notin Tracking
      BY DEF Tracking, Handling
    <3> QED  BY <1>0, <2>2, <3>1, <3>2, AcceptEffect, ResetEffect, RejectEffect, TrackGoes
  <2>3. CASE LaunchIncoming(e)
    <3>1. At(e) \in Tracking /\ At(e) # "dialed" /\ UNCHANGED <<sender, connections, stop>>
      BY <2>3 DEF LaunchIncoming, nodeVars, Tracking, Handling
    <3>2. "receive" \in Tracking /\ "gone" \notin Tracking
      BY DEF Tracking, Handling
    <3> QED  BY <1>0, <2>3, <3>1, <3>2, LaunchEffect, TrackGoes
  <2> QED  BY <1>2, <2>1, <2>2, <2>3 DEF Listening
<1>3. ASSUME NEW e \in Made, HandleConn(e) PROVE TrackInv'
  <2>1. CASE RemoveConnection(e)
    BY <2>1, TrackRemove
  <2>2. CASE Receive(e) \/ Dispatch(e) \/ Wake(e) \/ Cleanup(e)
    <3>1. At(e) \in Tracking /\ At(e) # "dialed" /\ UNCHANGED <<sender, connections, stop>>
      BY <2>2 DEF Receive, Dispatch, Wake, Cleanup, nodeVars, Tracking, Handling
    <3>2. /\ "paused" \in Tracking /\ "cleanup" \in Tracking /\ "dispatch" \in Tracking
          /\ "receive" \in Tracking /\ "remove" \in Tracking
      BY DEF Tracking, Handling
    <3>3. paused[NodeOf(e)] \in Nat
      BY <1>0, NodesOfEnd DEF NodesTyped
    <3>4. \E place \in Tracking : Goes(e, place)
      BY <1>0, <2>2, <3>2, <3>3, ReceiveEffect, DispatchEffect, WakeEffect, CleanupEffect
    <3> QED  BY <3>1, <3>4, TrackGoes
  <2> QED  BY <1>3, <2>1, <2>2 DEF HandleConn
<1>4. ASSUME NEW n \in Nodes, Listen(n) \/ Pause(n) \/ Unpause(n) \/ SetValidPeers(n)
      PROVE  TrackInv'
  BY <1>4, <1>a, SteadyStill, TrackSteady DEF Listen, Pause, Unpause, SetValidPeers, nodeVars
<1>5. ASSUME NEW n \in Nodes, StopHost(n) \/ Stop(n) PROVE TrackInv'
  <2>1. \A m \in Nodes : IsClosed(m) => IsClosed(m)'
    BY <1>0, <1>5 DEF StopHost, Stop, StopConnections, StopReturns, IsClosed, NodesTyped
  <2>2. Steady
    BY <1>0, <1>5, SteadyStill, SteadyRests, StopEffect DEF StopHost, Stop, StopReturns
  <2>3. UNCHANGED <<sender, connections>>
    BY <1>5 DEF StopHost, Stop, StopConnections, StopReturns
  <2> QED  BY <2>1, <2>2, <2>3, TrackSteady
<1>6. ASSUME NEW k \in DOMAIN conns, Break(k) PROVE TrackInv'
  BY <1>0, <1>6, <1>a, BreakEffect, SteadyRests, TrackSteady DEF Break, nodeVars
<1>7. CASE UNCHANGED vars
  BY <1>7, <1>a, SteadyStill, TrackSteady DEF vars, nodeVars
<1>8. Managed \subseteq Nodes
  BY RouterAssumption
<1> QED  BY <1>1, <1>2, <1>3, <1>4, <1>5, <1>6, <1>7, <1>8 DEF Next

\* The table of connections and the goroutines agree (registerConnection,
\* launchHandleRoutine, removeConnection), for any number of servers, senders
\* and connections, however Stop, errors and pauses interleave.
THEOREM TableTracksConnections == Spec => []ConnectionsTracked
<1>1. Init => LinkInv /\ TrackInv
  BY LinkInit, TrackInit
<1>2. LinkInv /\ TrackInv /\ [Next]_vars => (LinkInv /\ TrackInv)'
  BY LinkStep, TrackStep
<1>3. LinkInv /\ TrackInv => ConnectionsTracked
  BY RowOf DEF TrackInv, RowsInjective, Tracked, Live, Row, Tracking, ConnectionsTracked
<1> QED  BY <1>1, <1>2, <1>3, PTL DEF Spec

-----------------------------------------------------------------------------
(* Stop.                                                                   *)

\* A goroutine that Stop waits for reads a connection that is closed.
Shut == \A e \in Made : IsClosed(NodeOf(e)) /\ At(e) \in Handling => ~IsOpen(e)
ShutInv == Shut /\ QuietAfterStop

OpenFalls == \A f \in Made : IsOpen(f)' => IsOpen(f)

LEMMA ShutGoes ==
    ASSUME ShutInv, NEW e \in Made, NEW place, Goes(e, place), UNCHANGED stop,
           place \in Handling => At(e) \in Handling \/ ~IsClosed(NodeOf(e))
    PROVE  ShutInv'
<1>1. /\ Made' = Made
      /\ \A f \in Made : /\ NodeOf(f)' = NodeOf(f) /\ (IsOpen(f)' => IsOpen(f))
                         /\ At(f)' = IF f = e THEN place ELSE At(f)
  BY DEF Goes, SameEnds
<1>2. ASSUME NEW f \in Made, At(f)' \in Handling
      PROVE  At(f) \in Handling \/ ~IsClosed(NodeOf(f))
  BY <1>1, <1>2
<1>3. \A f \in Made : IsClosed(NodeOf(f))' <=> IsClosed(NodeOf(f))
  BY <1>1 DEF IsClosed
<1>4. \A f \in Made : stop'[NodeOf(f)'] = "stopped" =>
                        stop[NodeOf(f)] = "stopped" /\ IsClosed(NodeOf(f))
  BY <1>1 DEF IsClosed
<1>5. Shut'
  BY <1>1, <1>2, <1>3 DEF ShutInv, Shut
<1>6. QuietAfterStop'
  BY <1>1, <1>2, <1>4 DEF ShutInv, QuietAfterStop
<1> QED  BY <1>5, <1>6 DEF ShutInv

LEMMA ShutSteady ==
    ASSUME ShutInv, Steady, OpenFalls, UNCHANGED stop
    PROVE  ShutInv'
<1>1. \A f \in Made : IsClosed(NodeOf(f))' <=> IsClosed(NodeOf(f))
  BY DEF IsClosed, Steady
<1>2. Shut'
  BY <1>1 DEF ShutInv, Shut, Steady, OpenFalls
<1>3. QuietAfterStop'
  BY DEF ShutInv, QuietAfterStop, Steady
<1> QED  BY <1>2, <1>3 DEF ShutInv

LEMMA StillFalls == ASSUME UNCHANGED conns PROVE Steady /\ OpenFalls
  BY SteadyStill DEF OpenFalls, IsOpen
LEMMA RestsFalls == ASSUME Rests PROVE Steady /\ OpenFalls
  BY SteadyRests DEF OpenFalls, Rests, SameEnds

LEMMA ShutConnect ==
    ASSUME LinkInv, ShutInv, NEW s \in Senders, Connect(s)
    PROVE  ShutInv'
<1>1. PICK k : k = Len(conns) + 1
  OBVIOUS
<1>2. Grows(s) /\ IsNew(s, k) /\ UNCHANGED stop
  BY <1>1, ConnectEffect DEF LinkInv, ConnsTyped, Connect, nodeVars
<1>3. \A e \in Made' : e \in Made \/ e = <<k, 1>> \/ e = <<k, 2>>
  BY <1>1, <1>2 DEF Grows
<1>4. ASSUME NEW e, e = <<k, 1>> \/ e = <<k, 2>> PROVE At(e)' \notin Handling
  BY <1>2, <1>4 DEF IsNew, At, Handling
<1>5. ASSUME NEW e \in Made', At(e)' \in Handling
      PROVE  /\ e \in Made /\ At(e) \in Handling /\ NodeOf(e)' = NodeOf(e)
             /\ IsOpen(e)' = IsOpen(e)
  BY <1>2, <1>3, <1>4, <1>5 DEF Grows
<1>6. Shut'
  <2> SUFFICES ASSUME NEW e \in Made', IsClosed(NodeOf(e))', At(e)' \in Handling
               PROVE  ~IsOpen(e)'
    BY DEF Shut
  <2>1. IsClosed(NodeOf(e))
    BY <1>2, <1>5 DEF IsClosed
  <2> QED  BY <1>5, <2>1 DEF ShutInv, Shut
<1>7. QuietAfterStop'
  BY <1>2, <1>5 DEF ShutInv, QuietAfterStop
<1> QED  BY <1>6, <1>7 DEF ShutInv

\* All goroutines that Stop is about to wait for are in the table.
LEMMA ShutStopConnections ==
    ASSUME LinkInv, TrackInv, ShutInv, NEW n \in Nodes, StopConnections(n)
    PROVE  ShutInv'
<1>1. /\ Rests
      /\ \A m \in Nodes : \A e \in Made : e \in Range(connections[n][m]) => ~IsOpen(e)'
  BY StopEffect DEF LinkInv, ConnsTyped
<1>2. Steady /\ OpenFalls /\ stop \in [Nodes -> {"no", "closing", "waiting", "stopped"}]
  BY <1>1, RestsFalls DEF LinkInv, NodesTyped
<1>3. stop' = [stop EXCEPT ![n] = "waiting"]
  BY DEF StopConnections
<1>4. ASSUME NEW e \in Made, IsClosed(NodeOf(e))', At(e)' \in Handling PROVE ~IsOpen(e)'
  <2>1. NodeOf(e)' = NodeOf(e) /\ At(e)' = At(e) /\ NodeOf(e) \in Nodes
        /\ NodeOf(Other(e)) \in Nodes
    BY <1>2, RowOf DEF Steady
  <2>2. CASE NodeOf(e) = n
    <3>1. Live(e)
      BY <1>4, <2>1 DEF Live, Tracking
    <3>2. e \in Range(connections[n][NodeOf(Other(e))])
      BY <2>2, <3>1 DEF TrackInv, Tracked, Row
    <3> QED  BY <1>1, <2>1, <3>2
  <2>3. CASE NodeOf(e) # n
    <3>1. IsClosed(NodeOf(e))
      BY <1>2, <1>3, <1>4, <2>1, <2>3 DEF IsClosed
    <3> QED  BY <1>2, <1>4, <2>1, <3>1 DEF ShutInv, Shut, OpenFalls
  <2> QED  BY <2>2, <2>3
<1>5. ASSUME NEW e \in Made, stop'[NodeOf(e)'] = "stopped" PROVE At(e)' \notin Handling
  <2>1. NodeOf(e)' = NodeOf(e) /\ At(e)' = At(e) /\ NodeOf(e) \in Nodes
    BY <1>2, RowOf DEF Steady
  <2>2. stop[NodeOf(e)] = "stopped"
    BY <1>2, <1>3, <1>5, <2>1
  <2> QED  BY <2>1, <2>2 DEF ShutInv, QuietAfterStop
<1> QED  BY <1>2, <1>4, <1>5 DEF ShutInv, Shut, QuietAfterStop, Steady

LEMMA ShutStep == LinkInv /\ TrackInv /\ ShutInv /\ [Next]_vars => ShutInv'
<1> SUFFICES ASSUME LinkInv, TrackInv, ShutInv, [Next]_vars PROVE ShutInv'
  OBVIOUS
<1>0. conns \in Seq(Conn) /\ ConnsTyped /\ NodesTyped
  BY DEF LinkInv, ConnsTyped
<1>1. ASSUME NEW s \in Senders, Sending(s) PROVE ShutInv'
  <2>1. UNCHANGED stop
    BY <1>1 DEF Sending, SendStart, Connect, ConnectFails, RegisterOutgoing, LaunchOutgoing,
                SendMsg, Resend, Block, nodeVars
  <2>2. CASE SendStart(s) \/ ConnectFails(s) \/ RegisterOutgoing(s) \/ Block(s)
    <3>1. UNCHANGED conns
      BY <2>2 DEF SendStart, ConnectFails, RegisterOutgoing, Block
    <3> QED  BY <2>1, <3>1, StillFalls, ShutSteady
  <2>3. CASE SendMsg(s) \/ Resend(s)
    BY <2>1, <2>3, SendMsgEffect, ResendEffect, StillFalls, RestsFalls, ShutSteady
  <2>4. CASE LaunchOutgoing(s)
    <3>1. CASE Goes(sender[s].new, "receive") /\ ~IsClosed(Source(s))
      <4>1. sender[s].new \in Made /\ NodeOf(sender[s].new) = Source(s)
        BY <2>4, LaunchOutgoingEffect DEF Between
      <4> QED  BY <2>1, <3>1, <4>1, ShutGoes
    <3>2. CASE UNCHANGED conns
      BY <2>1, <3>2, StillFalls, ShutSteady
    <3> QED  BY <2>4, <3>1, <3>2, LaunchOutgoingEffect
  <2> QED  BY <1>1, <2>2, <2>3, <2>4, ShutConnect DEF Sending
<1>2. ASSUME NEW e \in Made, Listening(e) PROVE ShutInv'
  <2>1. UNCHANGED stop
    BY <1>2 DEF Listening, Accept, Reset, ReceiveServerIdentity, Reject, LaunchIncoming, nodeVars
  <2>2. "hello" \notin Handling /\ "gone" \notin Handling /\ "launch" \notin Handling
        /\ "reject" \notin Handling
    BY DEF Handling
  <2>3. CASE LaunchIncoming(e)
    BY <1>0, <2>1, <2>2, <2>3, LaunchEffect, ShutGoes
  <2>4. CASE Accept(e) \/ Reset(e) \/ Reject(e) \/ ReceiveServerIdentity(e)
    <3>1. Goes(e, "hello") \/ Goes(e, "gone") \/ Goes(e, "launch") \/ Goes(e, "reject")
      BY <1>0, <2>4, AcceptEffect, ResetEffect, RejectEffect, IdentityEffect
    <3> QED  BY <2>1, <2>2, <3>1, ShutGoes
  <2> QED  BY <1>2, <2>3, <2>4 DEF Listening
<1>3. ASSUME NEW e \in Made, HandleConn(e) PROVE ShutInv'
  <2>1. UNCHANGED stop
    BY <1>3 DEF HandleConn, Receive, Dispatch, Wake, Cleanup, RemoveConnection, nodeVars
  <2>2. CASE RemoveConnection(e)
    BY <1>0, <2>1, <2>2, RemoveEffect, ShutGoes DEF Handling
  <2>3. CASE Receive(e) \/ Dispatch(e) \/ Wake(e) \/ Cleanup(e)
    <3>1. At(e) \in Handling
      BY <2>3 DEF Receive, Dispatch, Wake, Cleanup, Handling
    <3>2. paused[NodeOf(e)] \in Nat
      BY <1>0, NodesOfEnd DEF NodesTyped
    <3>3. \E place : Goes(e, place)
      BY <1>0, <2>3, <3>2, ReceiveEffect, DispatchEffect, WakeEffect, CleanupEffect
    <3> QED  BY <2>1, <3>1, <3>3, ShutGoes
  <2> QED  BY <1>3, <2>2, <2>3 DEF HandleConn
<1>4. ASSUME NEW n \in Nodes, Listen(n) \/ Pause(n) \/ Unpause(n) \/ SetValidPeers(n)
      PROVE  ShutInv'
  BY <1>4, StillFalls, ShutSteady DEF Listen, Pause, Unpause, SetValidPeers, nodeVars
<1>5. ASSUME NEW n \in Nodes, StopHost(n) PROVE ShutInv'
  <2>1. Steady /\ OpenFalls
    BY <1>5, StillFalls DEF StopHost
  <2>2. ASSUME NEW e \in Made
        PROVE  /\ IsClosed(NodeOf(e))' => IsClosed(NodeOf(e))
               /\ stop'[NodeOf(e)'] = "stopped" => stop[NodeOf(e)] = "stopped"
    BY <1>0, <1>5, <2>1, NodesOfEnd DEF StopHost, IsClosed, Steady, NodesTyped
  <2> QED  BY <2>1, <2>2 DEF ShutInv, Shut, QuietAfterStop, Steady, OpenFalls
<1>6. ASSUME NEW n \in Nodes, StopReturns(n) PROVE ShutInv'
  <2>1. Steady /\ OpenFalls
    BY <1>6, StillFalls DEF StopReturns
  <2>2. ASSUME NEW e \in Made
        PROVE  /\ IsClosed(NodeOf(e))' => IsClosed(NodeOf(e))
               /\ stop'[NodeOf(e)'] = "stopped" =>
                    stop[NodeOf(e)] = "stopped" \/ At(e) \notin Handling
    BY <1>0, <1>6, <2>1, NodesOfEnd DEF StopReturns, IsClosed, Steady, NodesTyped
  <2> QED  BY <2>1, <2>2 DEF ShutInv, Shut, QuietAfterStop, Steady, OpenFalls
<1>7. ASSUME NEW k \in DOMAIN conns, Break(k) PROVE ShutInv'
  BY <1>0, <1>7, BreakEffect, RestsFalls, ShutSteady DEF Break, nodeVars
<1>8. CASE UNCHANGED vars
  BY <1>8, StillFalls, ShutSteady DEF vars, nodeVars
<1>9. Managed \subseteq Nodes
  BY RouterAssumption
<1> QED  BY <1>1, <1>2, <1>3, <1>4, <1>5, <1>6, <1>7, <1>8, <1>9, ShutStopConnections
         DEF Next, Stop

LEMMA ShutInit == Init => ShutInv
<1>1. Init => Made = {}
  BY DEF Init, Made
<1> QED  BY <1>1 DEF ShutInv, Shut, QuietAfterStop

\* When Stop has returned, no goroutine handles a connection of the server any
\* more, whoever dials, accepts or sends meanwhile (router.go:255-280, 504-529).
THEOREM QuietOnceStopped == Spec => []QuietAfterStop
<1>1. Init => LinkInv /\ TrackInv /\ ShutInv
  BY LinkInit, TrackInit, ShutInit
<1>2. LinkInv /\ TrackInv /\ ShutInv /\ [Next]_vars => (LinkInv /\ TrackInv /\ ShutInv)'
  BY LinkStep, TrackStep, ShutStep
<1>3. ShutInv => QuietAfterStop
  BY DEF ShutInv
<1> QED  BY <1>1, <1>2, <1>3, PTL DEF Spec

\* A goroutine that is paused waits for the present pause of its router, or
\* for a channel that was closed or forgotten.  A closed router has no pause.
WaitsFor(e) ==
    \/ Channel(e) \in unpaused \cup forgotten
    \/ paused[NodeOf(e)] # 0 /\ Channel(e) = paused[NodeOf(e)]
PauseInv ==
    /\ \A n \in Nodes : IsClosed(n) => paused[n] = 0
    /\ \A e \in Made : At(e) = "paused" => WaitsFor(e)

LEMMA PauseGoes ==
    ASSUME LinkInv, PauseInv, NEW e \in Made, NEW place, Goes(e, place),
           UNCHANGED <<stop, paused, unpaused, forgotten>>,
           place = "paused" => paused[NodeOf(e)] # 0 /\ Channel(e)' = paused[NodeOf(e)]
    PROVE  PauseInv'
<1>1. /\ Made' = Made
      /\ \A f \in Made : /\ NodeOf(f)' = NodeOf(f)
                         /\ At(f)' = IF f = e THEN place ELSE At(f)
                         /\ f # e => Channel(f)' = Channel(f)
  BY DEF Goes, SameEnds
<1>2. \A n \in Nodes : IsClosed(n)' => paused'[n] = 0
  BY DEF PauseInv, IsClosed
<1>3. ASSUME NEW f \in Made, At(f)' = "paused" PROVE WaitsFor(f)'
  <2>1. CASE f = e
    BY <1>1, <1>3, <2>1 DEF WaitsFor
  <2>2. CASE f # e
    BY <1>1, <1>3, <2>2 DEF PauseInv, WaitsFor
  <2> QED  BY <2>1, <2>2
<1> QED  BY <1>1, <1>2, <1>3 DEF PauseInv

\* No end moves, and the router n alone may drop its pause.
LEMMA PauseSteady ==
    ASSUME PauseInv, Made' = Made,
           \A f \in Made : /\ NodeOf(f)' = NodeOf(f) /\ At(f)' = At(f)
                           /\ Channel(f)' = Channel(f),
           unpaused \subseteq unpaused', forgotten \subseteq forgotten',
           \A n \in Nodes : IsClosed(n)' => paused'[n] = 0,
           \A f \in Made : At(f) = "paused" /\ paused[NodeOf(f)] # 0 =>
               \/ paused'[NodeOf(f)] = paused[NodeOf(f)]
               \/ paused[NodeOf(f)] \in unpaused' \cup forgotten'
    PROVE  PauseInv'
<1>1. ASSUME NEW f \in Made, At(f)' = "paused" PROVE WaitsFor(f)'
  <2>1. At(f) = "paused" /\ WaitsFor(f) /\ Channel(f)' = Channel(f) /\ NodeOf(f)' = NodeOf(f)
    BY <1>1 DEF PauseInv
  <2>2. CASE Channel(f) \in unpaused \cup forgotten
    BY <2>1, <2>2 DEF WaitsFor
  <2>3. CASE paused[NodeOf(f)] # 0 /\ Channel(f) = paused[NodeOf(f)]
    BY <2>1, <2>3 DEF WaitsFor
  <2> QED  BY <2>1, <2>2, <2>3 DEF WaitsFor
<1> QED  BY <1>1 DEF PauseInv

\* Nothing that the invariant is about changes.
LEMMA PauseStill ==
    ASSUME PauseInv, UNCHANGED conns \/ Rests, UNCHANGED <<stop, paused, unpaused, forgotten>>
    PROVE  PauseInv'
<1>1. /\ Made' = Made
      /\ \A f \in Made : /\ NodeOf(f)' = NodeOf(f) /\ At(f)' = At(f)
                         /\ Channel(f)' = Channel(f)
  <2>1. CASE UNCHANGED conns
    BY <2>1 DEF Made, NodeOf, At, Channel
  <2>2. CASE Rests
    BY <2>2 DEF Rests, SameEnds
  <2> QED  BY <2>1, <2>2
<1>2. \A n \in Nodes : IsClosed(n)' => paused'[n] = 0
  BY DEF PauseInv, IsClosed
<1> QED  BY <1>1, <1>2, PauseSteady

LEMMA PauseConnect ==
    ASSUME LinkInv, PauseInv, NEW s \in Senders, Connect(s)
    PROVE  PauseInv'
<1>1. PICK k : k = Len(conns) + 1
  OBVIOUS
<1>2. Grows(s) /\ IsNew(s, k) /\ UNCHANGED <<stop, paused, unpaused, forgotten>>
  BY <1>1, ConnectEffect DEF LinkInv, ConnsTyped, Connect, nodeVars, pauseVars
<1>3. \A e \in Made' : e \in Made \/ e = <<k, 1>> \/ e = <<k, 2>>
  BY <1>1, <1>2 DEF Grows
<1>4. ASSUME NEW e, e = <<k, 1>> \/ e = <<k, 2>> PROVE At(e)' # "paused"
  BY <1>2, <1>4 DEF IsNew, At
<1>5. ASSUME NEW e \in Made', At(e)' = "paused" PROVE WaitsFor(e)'
  <2>1. e \in Made /\ At(e) = "paused" /\ NodeOf(e)' = NodeOf(e) /\ Channel(e)' = Channel(e)
    BY <1>2, <1>3, <1>4, <1>5 DEF Grows
  <2> QED  BY <1>2, <2>1 DEF PauseInv, WaitsFor
<1>6. \A n \in Nodes : IsClosed(n)' => paused'[n] = 0
  BY <1>2 DEF PauseInv, IsClosed
<1> QED  BY <1>5, <1>6 DEF PauseInv

\* Wake drops the pause of its router, which is then closed or forgotten.
LEMMA PauseWake ==
    ASSUME LinkInv, PauseInv, NEW e \in Made, Wake(e)
    PROVE  PauseInv'
<1>1. Goes(e, "cleanup") /\ NodeOf(e) \in Nodes /\ paused \in [Nodes -> Nat]
  BY WakeEffect, NodesOfEnd DEF LinkInv, ConnsTyped, NodesTyped
<1>2. /\ paused' = [paused EXCEPT ![NodeOf(e)] = 0]
      /\ forgotten' = forgotten \cup ({paused[NodeOf(e)]} \ {0})
      /\ UNCHANGED <<stop, unpaused>>
  BY DEF Wake, nodeVars
<1>3. /\ Made' = Made
      /\ \A f \in Made : /\ NodeOf(f)' = NodeOf(f)
                         /\ At(f)' = IF f = e THEN "cleanup" ELSE At(f)
                         /\ f # e => Channel(f)' = Channel(f)
  BY <1>1 DEF Goes, SameEnds
<1>4. \A n \in Nodes : IsClosed(n)' => paused'[n] = 0
  BY <1>1, <1>2 DEF PauseInv, IsClosed
<1>5. ASSUME NEW f \in Made, At(f)' = "paused" PROVE WaitsFor(f)'
  <2>1. f # e /\ At(f) = "paused" /\ WaitsFor(f) /\ Channel(f)' = Channel(f)
        /\ NodeOf(f)' = NodeOf(f) /\ NodeOf(f) \in Nodes
    BY <1>3, <1>5, NodesOfEnd DEF PauseInv, LinkInv
  <2>2. CASE NodeOf(f) = NodeOf(e)
    BY <1>2, <2>1, <2>2 DEF WaitsFor
  <2>3. CASE NodeOf(f) # NodeOf(e)
    BY <1>1, <1>2, <2>1, <2>3 DEF WaitsFor
  <2> QED  BY <2>2, <2>3
<1> QED  BY <1>3, <1>4, <1>5 DEF PauseInv

LEMMA PauseStep == LinkInv /\ PauseInv /\ [Next]_vars => PauseInv'
<1> SUFFICES ASSUME LinkInv, PauseInv, [Next]_vars PROVE PauseInv'
  OBVIOUS
<1>0. conns \in Seq(Conn) /\ ConnsTyped /\ NodesTyped
  BY DEF LinkInv, ConnsTyped
<1>1. ASSUME NEW s \in Senders, Sending(s) PROVE PauseInv'
  <2>1. UNCHANGED <<stop, paused, unpaused, forgotten>>
    BY <1>1 DEF Sending, SendStart, Connect, ConnectFails, RegisterOutgoing, LaunchOutgoing,
                SendMsg, Resend, Block, nodeVars, pauseVars
  <2>2. CASE SendStart(s) \/ ConnectFails(s) \/ RegisterOutgoing(s) \/ Block(s)
    <3>1. UNCHANGED conns
      BY <2>2 DEF SendStart, ConnectFails, RegisterOutgoing, Block
    <3> QED  BY <2>1, <3>1, PauseStill
  <2>3. CASE SendMsg(s) \/ Resend(s)
    BY <2>1, <2>3, SendMsgEffect, ResendEffect, PauseStill
  <2>4. CASE LaunchOutgoing(s)
    <3>1. sender[s].new \in Made
      BY <2>4, LaunchOutgoingEffect DEF Between
    <3> QED  BY <2>1, <2>4, <3>1, LaunchOutgoingEffect, PauseGoes, PauseStill
  <2> QED  BY <1>1, <2>2, <2>3, <2>4, PauseConnect DEF Sending
<1>2. ASSUME NEW e \in Made, Listening(e) PROVE PauseInv'
  <2>1. UNCHANGED <<stop, paused, unpaused, forgotten>>
    BY <1>2 DEF Listening, Accept, Reset, ReceiveServerIdentity, Reject, LaunchIncoming,
                nodeVars, pauseVars
  <2>2. \E place \in {"hello", "gone", "launch", "reject", "receive"} : Goes(e, place)
    BY <1>0, <1>2, AcceptEffect, ResetEffect, RejectEffect, IdentityEffect, LaunchEffect
    DEF Listening
  <2> QED  BY <2>1, <2>2, PauseGoes
<1>3. ASSUME NEW e \in Made, HandleConn(e) PROVE PauseInv'
  <2>1. CASE Receive(e)
    <3>1. paused[NodeOf(e)] \in Nat /\ UNCHANGED <<stop, paused, unpaused, forgotten>>
      BY <1>0, <2>1, NodesOfEnd DEF NodesTyped, Receive, nodeVars, pauseVars
    <3> QED  BY <1>0, <2>1, <3>1, ReceiveEffect, PauseGoes
  <2>2. CASE Dispatch(e) \/ Cleanup(e) \/ RemoveConnection(e)
    <3>1. UNCHANGED <<stop, paused, unpaused, forgotten>>
      BY <2>2 DEF Dispatch, Cleanup, RemoveConnection, nodeVars, pauseVars
    <3>2. \E place \in {"receive", "remove", "gone"} : Goes(e, place)
      BY <1>0, <2>2, DispatchEffect, CleanupEffect, RemoveEffect
    <3> QED  BY <3>1, <3>2, PauseGoes
  <2> QED  BY <1>3, <2>1, <2>2, PauseWake DEF HandleConn
<1>a. ASSUME UNCHANGED conns \/ Rests
      PROVE  /\ Made' = Made
             /\ \A f \in Made : /\ NodeOf(f)' = NodeOf(f) /\ At(f)' = At(f)
                                /\ Channel(f)' = Channel(f)
  <2>1. CASE UNCHANGED conns
    BY <2>1 DEF Made, NodeOf, At, Channel
  <2>2. CASE Rests
    BY <2>2 DEF Rests, SameEnds
  <2> QED  BY <1>a, <2>1, <2>2
<1>4. ASSUME NEW n \in Nodes, Listen(n) \/ SetValidPeers(n) PROVE PauseInv'
  BY <1>4, PauseStill DEF Listen, SetValidPeers, pauseVars
<1>5. ASSUME NEW n \in Nodes, Pause(n) PROVE PauseInv'
  <2>1. /\ stop[n] = "no" /\ paused[n] = 0 /\ paused' = [paused EXCEPT ![n] = events]
        /\ UNCHANGED <<stop, unpaused, forgotten, conns>>
    BY <1>5 DEF Pause, nodeVars
  <2>2. \A m \in Nodes : IsClosed(m)' => paused'[m] = 0
    BY <1>0, <2>1 DEF PauseInv, IsClosed, NodesTyped
  <2>3. \A f \in Made : paused[NodeOf(f)] # 0 => paused'[NodeOf(f)] = paused[NodeOf(f)]
    BY <1>0, <2>1, NodesOfEnd DEF NodesTyped
  <2> QED  BY <1>a, <2>1, <2>2, <2>3, PauseSteady
<1>6. ASSUME NEW n \in Nodes, Unpaused(n), UNCHANGED conns \/ Rests,
             \A m \in Nodes : m # n => (IsClosed(m)' => IsClosed(m))
      PROVE  PauseInv'
  <2>1. /\ unpaused' = IF paused[n] = 0 THEN unpaused ELSE unpaused \cup {paused[n]}
        /\ paused' = [paused EXCEPT ![n] = 0] /\ UNCHANGED forgotten
    BY <1>6 DEF Unpaused
  <2>2. paused'[n] = 0 /\ \A m \in Nodes : m # n => paused'[m] = paused[m]
    BY <1>0, <2>1 DEF NodesTyped
  <2>3. \A m \in Nodes : IsClosed(m)' => paused'[m] = 0
    BY <1>6, <2>2 DEF PauseInv
  <2>4. ASSUME NEW f \in Made, paused[NodeOf(f)] # 0
        PROVE  \/ paused'[NodeOf(f)] = paused[NodeOf(f)]
               \/ paused[NodeOf(f)] \in unpaused' \cup forgotten'
    BY <1>0, <2>1, <2>2, <2>4, NodesOfEnd
  <2>5. unpaused \subseteq unpaused' /\ forgotten \subseteq forgotten'
    BY <2>1
  <2> QED  BY <1>6, <1>a, <2>3, <2>4, <2>5, PauseSteady
<1>7. ASSUME NEW n \in Nodes, Unpause(n) PROVE PauseInv'
  BY <1>6, <1>7 DEF Unpause, nodeVars, IsClosed
<1>8. ASSUME NEW n \in Nodes, StopConnections(n) PROVE PauseInv'
  <2>1. Rests
    BY <1>0, <1>8, StopEffect
  <2>2. \A m \in Nodes : m # n => (IsClosed(m)' => IsClosed(m))
    BY <1>0, <1>8 DEF StopConnections, IsClosed, NodesTyped
  <2> QED  BY <1>6, <1>8, <2>1, <2>2 DEF StopConnections
<1>9. ASSUME NEW n \in Nodes, StopHost(n) \/ StopReturns(n) PROVE PauseInv'
  <2>1. UNCHANGED <<conns, paused, unpaused, forgotten>>
    BY <1>9 DEF StopHost, StopReturns, pauseVars
  <2>2. \A m \in Nodes : IsClosed(m)' => IsClosed(m)
    BY <1>0, <1>9 DEF StopHost, StopReturns, IsClosed, NodesTyped
  <2>3. \A m \in Nodes : IsClosed(m)' => paused'[m] = 0
    BY <2>1, <2>2 DEF PauseInv
  <2> QED  BY <1>a, <2>1, <2>3, PauseSteady
<1>10. ASSUME NEW k \in DOMAIN conns, Break(k) PROVE PauseInv'
  BY <1>0, <1>10, BreakEffect, PauseStill DEF Break, nodeVars, pauseVars
<1>11. CASE UNCHANGED vars
  BY <1>11, PauseStill DEF vars, nodeVars, pauseVars
<1>12. Managed \subseteq Nodes
  BY RouterAssumption
<1> QED  BY <1>1, <1>2, <1>3, <1>4, <1>5, <1>7, <1>8, <1>9, <1>10, <1>11, <1>12 DEF Next, Stop

LEMMA PauseInit == Init => PauseInv
<1>1. Init => Made = {}
  BY DEF Init, Made
<1> QED  BY <1>1 DEF Init, PauseInv

\* While Stop waits, every goroutine it waits for can go on: it reads a closed
\* connection, or its pause is over (or was forgotten by the router).
THEOREM StopIsNotStuck == Spec => []StopNeverStuck
<1>1. Init => LinkInv /\ TrackInv /\ ShutInv /\ PauseInv
  BY LinkInit, TrackInit, ShutInit, PauseInit
<1>2. LinkInv /\ TrackInv /\ ShutInv /\ PauseInv /\ [Next]_vars
        => (LinkInv /\ TrackInv /\ ShutInv /\ PauseInv)'
  BY LinkStep, TrackStep, ShutStep, PauseStep
<1>3. LinkInv /\ ShutInv /\ PauseInv => StopNeverStuck
  <2> SUFFICES ASSUME LinkInv, ShutInv, PauseInv, NEW e \in Made, stop[NodeOf(e)] = "waiting"
               PROVE  /\ At(e) = "receive" => HasMsg(e) \/ ReceiveError(e)
                      /\ At(e) = "paused" =>
                           conns[e[1]].channel[e[2]] \in unpaused \cup forgotten
    BY DEF StopNeverStuck
  <2>1. IsClosed(NodeOf(e)) /\ NodeOf(e) \in Nodes
    BY NodesOfEnd DEF IsClosed, LinkInv
  <2>2. At(e) = "receive" => ~IsOpen(e)
    BY <2>1 DEF ShutInv, Shut, Handling
  <2> QED  BY <2>1, <2>2 DEF ReceiveError, PauseInv, WaitsFor, Channel
<1> QED  BY <1>1, <1>2, <1>3, PTL DEF Spec

-----------------------------------------------------------------------------
(* What is on its way, held, and dispatched.                               *)

\* The identity is the first frame, and is read before handleConn starts, so
\* that only messages are dispatched.
Ungreeted == {"backlog", "hello", "reject", "gone"}
FramesOf(e) ==
    /\ \A j \in 1..Len(Incoming(e)) : Incoming(e)[j] = Hello => j = 1 /\ At(e) \in Ungreeted
    /\ At(e) = "dispatch" => Got(e) # Hello
FrameInv ==
    /\ \A e \in Made : FramesOf(e)
    /\ dispatched \in [Nodes -> Seq(Msgs)]

LEMMA IncomingTyped ==
    ASSUME conns \in Seq(Conn), NEW e \in Made
    PROVE  /\ Incoming(e) \in Seq(Frames) /\ Got(e) \in Frames
           /\ Len(Incoming(e)) \in Nat /\ DOMAIN Incoming(e) = 1..Len(Incoming(e))
<1>1. conns[e[1]] \in Conn /\ e[2] \in Sides
  BY MadeParts
<1>2. Incoming(e) \in Seq(Frames) /\ Got(e) \in Frames
  BY <1>1 DEF Conn, Incoming, Got
<1> QED  BY <1>2

LEMMA TailParts ==
    ASSUME NEW S, NEW b \in Seq(S), b # <<>>, NEW c, c = Tail(b)
    PROVE  /\ Len(b) \in Nat \ {0} /\ Len(c) = Len(b) - 1 /\ Head(b) = b[1]
           /\ \A j \in 1..Len(c) : c[j] = b[j + 1] /\ j + 1 \in 1..Len(b)
  OBVIOUS

LEMMA FramesDrop ==
    ASSUME LinkInv, FrameInv, NEW e \in Made, NEW place, Goes(e, place), Drops,
           UNCHANGED dispatched, place # "dispatch",
           At(e) \in Ungreeted => place \in Ungreeted
    PROVE  FrameInv'
<1>1. /\ Made' = Made
      /\ \A f \in Made : /\ At(f)' = IF f = e THEN place ELSE At(f)
                         /\ f # e => Got(f)' = Got(f)
  BY DEF Goes, SameEnds
<1>2. ASSUME NEW f \in Made PROVE FramesOf(f)'
  <2>1. FramesOf(f) /\ (Incoming(f)' = Incoming(f) \/ Incoming(f)' = <<>>)
    BY DEF FrameInv, Drops
  <2>2. \A j \in 1..Len(Incoming(f)') : Incoming(f)'[j] = Hello => j = 1 /\ At(f)' \in Ungreeted
    <3>1. CASE Incoming(f)' = Incoming(f)
      BY <1>1, <2>1, <3>1 DEF FramesOf
    <3>2. CASE Incoming(f)' = <<>>
      BY <3>2
    <3> QED  BY <2>1, <3>1, <3>2
  <2>3. At(f)' = "dispatch" => Got(f)' # Hello
    BY <1>1, <2>1 DEF FramesOf
  <2> QED  BY <2>2, <2>3 DEF FramesOf
<1> QED  BY <1>1, <1>2 DEF FrameInv

LEMMA FramesTake ==
    ASSUME LinkInv, FrameInv, NEW e \in Made, NEW place, Goes(e, place), Takes(e),
           UNCHANGED dispatched, place = "dispatch" => At(e) \notin Ungreeted
    PROVE  FrameInv'
<1>1. /\ Made' = Made
      /\ \A f \in Made : /\ At(f)' = IF f = e THEN place ELSE At(f)
                         /\ f # e => Got(f)' = Got(f)
  BY DEF Goes, SameEnds
<1>2. ASSUME NEW f \in Made, f # e PROVE FramesOf(f)'
  <2>1. Incoming(f)' = Incoming(f) /\ At(f)' = At(f) /\ Got(f)' = Got(f)
    BY <1>1, <1>2 DEF Takes
  <2> QED  BY <2>1 DEF FrameInv, FramesOf
<1>3. FramesOf(e)'
  <2>1. PICK b : b = Incoming(e)
    OBVIOUS
  <2>2. b \in Seq(Frames) /\ b # <<>> /\ Incoming(e)' = Tail(b) /\ Got(e)' = Head(b)
    BY <2>1, IncomingTyped DEF LinkInv, ConnsTyped, Takes
  <2>3. PICK c : c = Tail(b)
    OBVIOUS
  <2>4. /\ Len(b) \in Nat \ {0} /\ Len(c) = Len(b) - 1 /\ Head(b) = b[1]
        /\ \A j \in 1..Len(c) : c[j] = b[j + 1] /\ j + 1 \in 1..Len(b)
    BY <2>2, <2>3, TailParts
  <2>5. \A j \in 1..Len(b) : b[j] = Hello => j = 1 /\ At(e) \in Ungreeted
    BY <2>1 DEF FrameInv, FramesOf
  <2>6. \A j \in 1..Len(c) : c[j] # Hello
    BY <2>4, <2>5
  <2>7. At(e)' = "dispatch" => b[1] # Hello
    BY <1>1, <2>4, <2>5
  <2> QED  BY <2>2, <2>3, <2>4, <2>6, <2>7 DEF FramesOf
<1> QED  BY <1>1, <1>2, <1>3 DEF FrameInv

\* No end moves, and no buffer gets an identity.
LEMMA FramesRest ==
    ASSUME LinkInv, FrameInv, Rests, UNCHANGED dispatched,
           Drops \/ \E g \in Made, m \in Msgs : Adds(g, m)
    PROVE  FrameInv'
<1>1. Made' = Made /\ \A f \in Made : At(f)' = At(f) /\ Got(f)' = Got(f)
  BY DEF Rests, SameEnds
<1>2. ASSUME NEW f \in Made PROVE FramesOf(f)'
  <2>1. PICK b : b = Incoming(f)
    OBVIOUS
  <2>2. /\ b \in Seq(Frames)
        /\ \A j \in 1..Len(b) : b[j] = Hello => j = 1 /\ At(f) \in Ungreeted
        /\ At(f) = "dispatch" => Got(f) # Hello
    BY <2>1, IncomingTyped DEF LinkInv, ConnsTyped, FrameInv, FramesOf
  <2>3. ASSUME NEW m \in Msgs, Incoming(f)' = Append(b, m)
        PROVE  \A j \in 1..Len(Incoming(f)') :
                 Incoming(f)'[j] = Hello => j = 1 /\ At(f) \in Ungreeted
    <3>1. m \in Frames /\ m # Hello
      BY RouterAssumption DEF Frames
    <3>2. PICK c : c = Append(b, m)
      OBVIOUS
    <3>3. /\ Len(b) \in Nat /\ Len(c) = Len(b) + 1
          /\ c[Len(b) + 1] = m /\ \A i \in 1..Len(b) : c[i] = b[i]
      BY <2>2, <3>1, <3>2, AppendParts
    <3>4. \A j \in 1..Len(c) : c[j] = Hello => j = 1 /\ At(f) \in Ungreeted
      BY <2>2, <3>1, <3>3
    <3> QED  BY <2>3, <3>2, <3>4
  <2>4. Incoming(f)' = b \/ Incoming(f)' = <<>> \/ \E m \in Msgs : Incoming(f)' = Append(b, m)
    BY <2>1 DEF Drops, Adds
  <2>5. \A j \in 1..Len(Incoming(f)') : Incoming(f)'[j] = Hello => j = 1 /\ At(f) \in Ungreeted
    <3>1. CASE Incoming(f)' = b
      BY <2>2, <3>1
    <3>2. CASE Incoming(f)' = <<>>
      BY <3>2
    <3> QED  BY <2>3, <2>4, <3>1, <3>2
  <2> QED  BY <1>1, <2>2, <2>5 DEF FramesOf
<1> QED  BY <1>1, <1>2 DEF FrameInv

LEMMA FramesStill ==
    ASSUME FrameInv, UNCHANGED <<conns, dispatched>>
    PROVE  FrameInv'
  BY DEF FrameInv, FramesOf, Made, Incoming, At, Got

LEMMA FramesConnect ==
    ASSUME LinkInv, FrameInv, NEW s \in Senders, Connect(s)
    PROVE  FrameInv'
<1>1. PICK k : k = Len(conns) + 1
  OBVIOUS
<1>2. Grows(s) /\ IsNew(s, k) /\ UNCHANGED dispatched
  BY <1>1, ConnectEffect DEF LinkInv, ConnsTyped, Connect
<1>3. \A e \in Made' : e \in Made \/ e = <<k, 1>> \/ e = <<k, 2>>
  BY <1>1, <1>2 DEF Grows
<1>4. ASSUME NEW e, e = <<k, 1>> \/ e = <<k, 2>> PROVE FramesOf(e)'
  <2>1. At(e)' \in {"dialed", "backlog", "hello"}
    BY <1>2, <1>4 DEF IsNew, At
  <2>2. CASE e = <<k, 1>>
    <3>1. Incoming(e)' = <<>>
      BY <1>2, <2>2 DEF IsNew, Incoming
    <3> QED  BY <2>1, <3>1 DEF FramesOf
  <2>3. CASE e = <<k, 2>>
    <3>1. Incoming(e)' = <<Hello>> /\ At(e)' \in {"backlog", "hello"}
      BY <1>2, <2>3 DEF IsNew, Incoming, At
    <3>2. Len(Incoming(e)') = 1
      BY <3>1
    <3>3. \A j \in 1..Len(Incoming(e)') : j = 1
      BY <3>2
    <3> QED  BY <3>1, <3>3 DEF FramesOf, Ungreeted
  <2> QED  BY <1>4, <2>2, <2>3
<1>5. ASSUME NEW e \in Made PROVE FramesOf(e)'
  BY <1>2 DEF FrameInv, FramesOf, Grows
<1> QED  BY <1>2, <1>3, <1>4, <1>5 DEF FrameInv

LEMMA FramesDispatch ==
    ASSUME LinkInv, FrameInv, NEW e \in Made, Dispatch(e)
    PROVE  FrameInv'
<1>1. Goes(e, "receive") /\ Drops /\ At(e) = "dispatch" /\ NodeOf(e) \in Nodes
  BY DispatchEffect, NodesOfEnd DEF LinkInv, ConnsTyped, Dispatch
<1>2. Got(e) \in Msgs
  BY <1>1, IncomingTyped DEF LinkInv, ConnsTyped, FrameInv, FramesOf, Frames
<1>3. PICK m \in Msgs : m = Got(e)
  BY <1>2
<1>4. PICK n \in Nodes : n = NodeOf(e)
  BY <1>1
<1>5. dispatched' = [dispatched EXCEPT ![n] = Append(@, m)]
  BY <1>3, <1>4 DEF Dispatch, Got
<1>6. dispatched' \in [Nodes -> Seq(Msgs)]
  BY <1>5 DEF FrameInv
<1>7. /\ Made' = Made
      /\ \A f \in Made : /\ At(f)' = IF f = e THEN "receive" ELSE At(f)
                         /\ f # e => Got(f)' = Got(f)
  BY <1>1 DEF Goes, SameEnds
<1>8. ASSUME NEW f \in Made PROVE FramesOf(f)'
  <2>1. FramesOf(f) /\ (Incoming(f)' = Incoming(f) \/ Incoming(f)' = <<>>)
    BY <1>1 DEF FrameInv, Drops
  <2>2. At(f) \in Ungreeted => At(f)' = At(f)
    BY <1>1, <1>7 DEF Ungreeted
  <2>3. \A j \in 1..Len(Incoming(f)') : Incoming(f)'[j] = Hello => j = 1 /\ At(f)' \in Ungreeted
    <3>1. CASE Incoming(f)' = Incoming(f)
      BY <2>1, <2>2, <3>1 DEF FramesOf
    <3>2. CASE Incoming(f)' = <<>>
      BY <3>2
    <3> QED  BY <2>1, <3>1, <3>2
  <2> QED  BY <1>7, <2>1, <2>3 DEF FramesOf
<1> QED  BY <1>6, <1>7, <1>8 DEF FrameInv

LEMMA FramesInit == Init => FrameInv
<1> SUFFICES ASSUME Init PROVE FrameInv
  OBVIOUS
<1>1. Made = {}
  BY DEF Init, Made
<1>2. dispatched = [n \in Nodes |-> <<>>] /\ <<>> \in Seq(Msgs)
  BY DEF Init
<1> QED  BY <1>1, <1>2 DEF FrameInv

LEMMA FramesStart ==
    ASSUME LinkInv, FrameInv, NEW s \in Senders, SendStart(s)
    PROVE  FrameInv'
<1>1. UNCHANGED conns
  BY DEF SendStart
<1>2. PICK n \in Nodes : n = Source(s)
  BY ServersTyped
<1>3. PICK b \in Seq(Msgs) : b = Batch[s]
  BY BatchTyped
<1>4. UNCHANGED dispatched \/ dispatched' = [dispatched EXCEPT ![n] = @ \o b]
  BY <1>2, <1>3 DEF SendStart
<1>5. dispatched' \in [Nodes -> Seq(Msgs)]
  <2>1. dispatched[n] \o b \in Seq(Msgs)
    BY DEF FrameInv
  <2> QED  BY <1>4, <2>1 DEF FrameInv
<1>6. Made' = Made /\ \A e \in Made : FramesOf(e)'
  BY <1>1 DEF FrameInv, FramesOf, Made, Incoming, At, Got
<1> QED  BY <1>5, <1>6 DEF FrameInv

LEMMA FramesStep == LinkInv /\ TrackInv /\ FrameInv /\ [Next]_vars => FrameInv'
<1> SUFFICES ASSUME LinkInv, TrackInv, FrameInv, [Next]_vars PROVE FrameInv'
  OBVIOUS
<1>0. conns \in Seq(Conn) /\ ConnsTyped /\ NodesTyped
  BY DEF LinkInv, ConnsTyped
<1>1. ASSUME NEW s \in Senders, Sending(s) PROVE FrameInv'
  <2>1. CASE ConnectFails(s) \/ RegisterOutgoing(s) \/ Block(s)
    <3>1. UNCHANGED <<conns, dispatched>>
      BY <2>1 DEF ConnectFails, RegisterOutgoing, Block
    <3> QED  BY <3>1, FramesStill
  <2>2. CASE SendMsg(s) \/ Resend(s)
    <3>1. UNCHANGED dispatched /\ Message(s) \in Msgs
      BY <2>2, MessageTyped DEF SendMsg, Resend
    <3>2. UNCHANGED conns \/ (Rests /\ \E g \in Made : Adds(g, Message(s)))
      BY <2>2, SendMsgEffect, ResendEffect, MadeParts DEF Between
    <3> QED  BY <3>1, <3>2, FramesStill, FramesRest
  <2>3. CASE LaunchOutgoing(s)
    <3>1. UNCHANGED dispatched /\ sender[s].at = "launch"
      BY <2>3 DEF LaunchOutgoing
    <3>2. sender[s].new \in Made /\ At(sender[s].new) = "dialed"
      BY <3>1, DialedNew DEF Dialing, TrackInv
    <3>3. UNCHANGED conns \/ (Goes(sender[s].new, "receive") /\ Drops)
      BY <2>3, LaunchOutgoingEffect
    <3> QED  BY <3>1, <3>2, <3>3, FramesStill, FramesDrop DEF Ungreeted
  <2> QED  BY <1>1, <2>1, <2>2, <2>3, FramesStart, FramesConnect DEF Sending
<1>2. ASSUME NEW e \in Made, Listening(e) PROVE FrameInv'
  <2>1. UNCHANGED dispatched
    BY <1>2 DEF Listening, Accept, Reset, ReceiveServerIdentity, Reject, LaunchIncoming
  <2>2. CASE Accept(e) \/ Reset(e) \/ Reject(e)
    BY <1>0, <2>1, <2>2, AcceptEffect, ResetEffect, RejectEffect, FramesDrop DEF Ungreeted
  <2>3. CASE ReceiveServerIdentity(e)
    <3>1. \E place \in {"launch", "gone", "reject"} :
            Goes(e, place) /\ (Takes(e) \/ (Drops /\ place # "launch"))
      BY <1>0, <2>3, IdentityEffect
    <3> QED  BY <2>1, <3>1, FramesTake, FramesDrop DEF Ungreeted
  <2>4. CASE LaunchIncoming(e)
    <3>1. At(e) = "launch"
      BY <2>4 DEF LaunchIncoming
    <3>2. \E place \in {"receive", "gone"} : Goes(e, place) /\ Drops
      BY <1>0, <2>4, LaunchEffect
    <3> QED  BY <2>1, <3>1, <3>2, FramesDrop DEF Ungreeted
  <2> QED  BY <1>2, <2>2, <2>3, <2>4 DEF Listening
<1>3. ASSUME NEW e \in Made, HandleConn(e) PROVE FrameInv'
  <2>1. CASE Receive(e)
    <3>1. At(e) = "receive" /\ UNCHANGED dispatched /\ paused[NodeOf(e)] \in Nat
      BY <1>0, <2>1, NodesOfEnd DEF Receive, NodesTyped
    <3>2. \E place \in {"paused", "cleanup", "dispatch"} :
            Goes(e, place) /\ (Takes(e) \/ (Drops /\ place # "dispatch"))
      BY <1>0, <2>1, <3>1, ReceiveEffect
    <3> QED  BY <3>1, <3>2, FramesTake, FramesDrop DEF Ungreeted
  <2>2. CASE Wake(e) \/ Cleanup(e) \/ RemoveConnection(e)
    <3>1. At(e) \in {"paused", "cleanup", "remove"} /\ UNCHANGED dispatched
      BY <2>2 DEF Wake, Cleanup, RemoveConnection
    <3>2. \E place \in {"cleanup", "remove", "gone"} : Goes(e, place) /\ Drops
      BY <1>0, <2>2, WakeEffect, CleanupEffect, RemoveEffect
    <3> QED  BY <3>1, <3>2, FramesDrop DEF Ungreeted
  <2> QED  BY <1>3, <2>1, <2>2, FramesDispatch DEF HandleConn
<1>4. ASSUME NEW n \in Nodes,
             Listen(n) \/ SetValidPeers(n) \/ Pause(n) \/ Unpause(n) \/ StopHost(n) \/ StopReturns(n)
      PROVE  FrameInv'
  <2>1. UNCHANGED <<conns, dispatched>>
    BY <1>4 DEF Listen, SetValidPeers, Pause, Unpause, StopHost, StopReturns
  <2> QED  BY <2>1, FramesStill
<1>5. ASSUME NEW n \in Nodes, StopConnections(n) PROVE FrameInv'
  <2>1. UNCHANGED dispatched
    BY <1>5 DEF StopConnections
  <2> QED  BY <1>0, <1>5, <2>1, StopEffect, FramesRest
<1>6. ASSUME NEW k \in DOMAIN conns, Break(k) PROVE FrameInv'
  <2>1. UNCHANGED dispatched
    BY <1>6 DEF Break
  <2> QED  BY <1>0, <1>6, <2>1, BreakEffect, FramesRest
<1>7. CASE UNCHANGED vars
  BY <1>7, FramesStill DEF vars
<1>8. Managed \subseteq Nodes
  BY RouterAssumption
<1> QED  BY <1>1, <1>2, <1>3, <1>4, <1>5, <1>6, <1>7, <1>8 DEF Next, Stop

\* The variables of the routers have their types: in particular only messages
\* that somebody sent are given to a processor, never the identity that opens
\* a connection, which is read before handleConn starts.
THEOREM RouterTypeCorrect == Spec => []TypeOK
<1>1. Init => LinkInv /\ TrackInv /\ FrameInv
  BY LinkInit, TrackInit, FramesInit
<1>2. LinkInv /\ TrackInv /\ FrameInv /\ [Next]_vars => (LinkInv /\ TrackInv /\ FrameInv)'
  BY LinkStep, TrackStep, FramesStep
<1>3. LinkInv /\ FrameInv => TypeOK
  <2> SUFFICES ASSUME LinkInv, FrameInv PROVE TypeOK
    OBVIOUS
  <2>1. \A k \in DOMAIN conns : conns[k].at \in [{1, 2} -> Places]
    <3>1. \A k \in DOMAIN conns : conns[k] \in Conn
      BY DEF LinkInv, ConnsTyped
    <3> QED  BY <3>1 DEF Conn, Sides
  <2> QED  BY <2>1 DEF LinkInv, FrameInv, NodesTyped, ConnsTyped, TableTyped, TypeOK
<1> QED  BY <1>1, <1>2, <1>3, PTL DEF Spec

-----------------------------------------------------------------------------
(* No message is dispatched twice.                                         *)

\* Where a message can be: in a buffer, with a handleConn that is about to
\* dispatch it, or with the processor; or its sender has still to send it.
InBuffer(m, e, j) == j \in 1..Len(Incoming(e)) /\ Incoming(e)[j] = m
HeldAt(m, e) == At(e) = "dispatch" /\ Got(e) = m
DoneAt(m, n, j) == j \in 1..Len(dispatched[n]) /\ dispatched[n][j] = m
Ended == {"over", "failed"}
Unsent(m) ==
    \E s \in Senders :
        /\ sender[s].at \notin Ended
        /\ \E i \in 1..Len(Batch[s]) : i >= sender[s].next /\ Batch[s][i] = m

InNoBuffer(m) == \A e \in Made : \A j \in Nat : ~InBuffer(m, e, j)
HeldByNone(m) == \A e \in Made : ~HeldAt(m, e)
NotDone(m) == \A n \in Nodes : \A j \in Nat : ~DoneAt(m, n, j)

\* It is in one place at most, and nowhere before it is sent ...
InOnePlace(m) ==
    /\ \A e, f \in Made : \A i, j \in Nat :
         InBuffer(m, e, i) /\ InBuffer(m, f, j) => e = f /\ i = j
    /\ \A e, f \in Made : HeldAt(m, e) /\ HeldAt(m, f) => e = f
    /\ \A n, p \in Nodes : \A i, j \in Nat : DoneAt(m, n, i) /\ DoneAt(m, p, j) => n = p /\ i = j
    /\ InNoBuffer(m) \/ (HeldByNone(m) /\ NotDone(m))
    /\ HeldByNone(m) \/ NotDone(m)
    /\ Unsent(m) => InNoBuffer(m) /\ HeldByNone(m) /\ NotDone(m)
\* ... and at the server it was sent to.
AtTarget(m) ==
    \A s \in Senders : m \in Range(Batch[s]) =>
        /\ \A e \in Made : \A j \in Nat : InBuffer(m, e, j) => NodeOf(e) = Target(s)
        /\ \A e \in Made : HeldAt(m, e) => NodeOf(e) = Target(s)
        /\ \A n \in Nodes : \A j \in Nat : DoneAt(m, n, j) => n = Target(s)
OnceInv == \A m \in Msgs : InOnePlace(m) /\ AtTarget(m)

\* The ends that hold or buffer the message do so already; a buffer may have
\* lost its first frame.
BufferFrom(m, shift) ==
    \A f \in Made' : \A j \in Nat :
        InBuffer(m, f, j)' => f \in Made /\ NodeOf(f)' = NodeOf(f) /\ InBuffer(m, f, j + shift[f])
HeldFrom(m) ==
    \A f \in Made' : HeldAt(m, f)' => f \in Made /\ NodeOf(f)' = NodeOf(f) /\ HeldAt(m, f)

LEMMA OnceMoves ==
    ASSUME NEW m, InOnePlace(m), AtTarget(m), NEW shift \in [Made' -> {0, 1}],
           BufferFrom(m, shift), HeldFrom(m), UNCHANGED dispatched, Unsent(m)' => Unsent(m)
    PROVE  InOnePlace(m)' /\ AtTarget(m)'
<1>1. InNoBuffer(m) => InNoBuffer(m)'
  BY DEF BufferFrom, InNoBuffer
<1>2. HeldByNone(m) => HeldByNone(m)'
  BY DEF HeldFrom, HeldByNone
<1>3. \A n, j : DoneAt(m, n, j)' <=> DoneAt(m, n, j)
  BY DEF DoneAt
<1>4. NotDone(m) => NotDone(m)'
  BY <1>3 DEF NotDone
<1>5. ASSUME NEW e \in Made', NEW f \in Made', NEW i \in Nat, NEW j \in Nat,
             InBuffer(m, e, i)', InBuffer(m, f, j)'
      PROVE  e = f /\ i = j
  <2>1. /\ e \in Made /\ InBuffer(m, e, i + shift[e])
        /\ f \in Made /\ InBuffer(m, f, j + shift[f])
    BY <1>5 DEF BufferFrom
  <2>2. i + shift[e] \in Nat /\ j + shift[f] \in Nat
    OBVIOUS
  <2>3. e = f /\ i + shift[e] = j + shift[f]
    BY <2>1, <2>2 DEF InOnePlace
  <2> QED  BY <2>3
<1>6. \A e, f \in Made' : HeldAt(m, e)' /\ HeldAt(m, f)' => e = f
  BY DEF HeldFrom, InOnePlace
<1>7. \A n, p \in Nodes : \A i, j \in Nat : DoneAt(m, n, i)' /\ DoneAt(m, p, j)' => n = p /\ i = j
  BY <1>3 DEF InOnePlace
<1>8. InOnePlace(m)'
  BY <1>1, <1>2, <1>4, <1>5, <1>6, <1>7 DEF InOnePlace
<1>9. ASSUME NEW s \in Senders, m \in Range(Batch[s])
      PROVE  /\ \A e \in Made' : \A j \in Nat : InBuffer(m, e, j)' => NodeOf(e)' = Target(s)
             /\ \A e \in Made' : HeldAt(m, e)' => NodeOf(e)' = Target(s)
             /\ \A n \in Nodes : \A j \in Nat : DoneAt(m, n, j)' => n = Target(s)
  <2>1. ASSUME NEW e \in Made', NEW j \in Nat, InBuffer(m, e, j)' PROVE NodeOf(e)' = Target(s)
    <3>1. e \in Made /\ NodeOf(e)' = NodeOf(e) /\ InBuffer(m, e, j + shift[e])
      BY <2>1 DEF BufferFrom
    <3>2. j + shift[e] \in Nat
      OBVIOUS
    <3> QED  BY <1>9, <3>1, <3>2 DEF AtTarget
  <2>2. \A e \in Made' : HeldAt(m, e)' => NodeOf(e)' = Target(s)
    BY <1>9 DEF HeldFrom, AtTarget
  <2> QED  BY <1>3, <1>9, <2>1, <2>2 DEF AtTarget
<1>10. AtTarget(m)'
  <2>1. \A s \in Senders : Target(s)' = Target(s)
    BY DEF Target
  <2> QED  BY <1>9, <2>1 DEF AtTarget
<1> QED  BY <1>8, <1>10

\* Nothing new is held, and buffers keep what they have or are emptied.
LEMMA OnceDrops ==
    ASSUME OnceInv, SameEnds, Drops, UNCHANGED dispatched,
           \A f \in Made : At(f)' = "dispatch" => At(f) = "dispatch" /\ Got(f)' = Got(f),
           \A m \in Msgs : Unsent(m)' => Unsent(m)
    PROVE  OnceInv'
<1> SUFFICES ASSUME NEW m \in Msgs PROVE InOnePlace(m)' /\ AtTarget(m)'
  BY DEF OnceInv, Msgs
<1>1. Made' = Made /\ \A f \in Made : NodeOf(f)' = NodeOf(f)
  BY DEF SameEnds
<1>2. PICK shift : shift = [f \in Made' |-> 0]
  OBVIOUS
<1>3. shift \in [Made' -> {0, 1}] /\ \A f \in Made' : \A j \in Nat : j + shift[f] = j
  BY <1>2
<1>4. ASSUME NEW f \in Made, NEW j \in Nat, InBuffer(m, f, j)' PROVE InBuffer(m, f, j)
  <2>1. CASE Incoming(f)' = Incoming(f)
    BY <1>4, <2>1 DEF InBuffer
  <2>2. CASE Incoming(f)' = <<>>
    BY <1>4, <2>2 DEF InBuffer
  <2> QED  BY <2>1, <2>2 DEF Drops
<1>5. BufferFrom(m, shift)
  BY <1>1, <1>3, <1>4 DEF BufferFrom
<1>6. HeldFrom(m)
  BY <1>1 DEF HeldFrom, HeldAt
<1> QED  BY <1>3, <1>5, <1>6, OnceMoves DEF OnceInv

\* The first frame of a buffer is taken, to be dispatched or to be dropped.
LEMMA OnceTakes ==
    ASSUME LinkInv, OnceInv, NEW e \in Made, NEW place, Goes(e, place), Takes(e),
           At(e) # "dispatch", UNCHANGED dispatched, \A m \in Msgs : Unsent(m)' => Unsent(m)
    PROVE  OnceInv'
<1> SUFFICES ASSUME NEW m \in Msgs PROVE InOnePlace(m)' /\ AtTarget(m)'
  BY DEF OnceInv, Msgs
<1>0. InOnePlace(m) /\ AtTarget(m)
  BY DEF OnceInv
<1>1. /\ Made' = Made
      /\ \A f \in Made : NodeOf(f)' = NodeOf(f) /\ At(f)' = IF f = e THEN place ELSE At(f)
      /\ \A f \in Made : f # e => Got(f)' = Got(f)
  BY DEF Goes, SameEnds
<1>2. PICK b : b = Incoming(e)
  OBVIOUS
<1>3. b \in Seq(Frames) /\ b # <<>> /\ Incoming(e)' = Tail(b) /\ Got(e)' = Head(b)
  BY <1>2, IncomingTyped DEF LinkInv, ConnsTyped, Takes
<1>4. PICK c : c = Tail(b)
  OBVIOUS
<1>5. /\ Len(b) \in Nat \ {0} /\ Len(c) = Len(b) - 1 /\ Head(b) = b[1]
      /\ \A j \in 1..Len(c) : c[j] = b[j + 1] /\ j + 1 \in 1..Len(b)
  BY <1>3, <1>4, TailParts
<1>6. PICK shift : shift = [f \in Made' |-> IF f = e THEN 1 ELSE 0]
  OBVIOUS
<1>7. /\ shift \in [Made' -> {0, 1}] /\ \A j \in Nat : j + shift[e] = j + 1
      /\ \A f \in Made' : f # e => \A j \in Nat : j + shift[f] = j
  BY <1>1, <1>6
<1>8. \A j \in Nat : InBuffer(m, e, j)' => InBuffer(m, e, j + 1)
  BY <1>2, <1>3, <1>4, <1>5 DEF InBuffer
<1>9. \A f \in Made : f # e => \A j \in Nat : InBuffer(m, f, j)' => InBuffer(m, f, j)
  BY DEF InBuffer, Takes
<1>10. BufferFrom(m, shift)
  BY <1>1, <1>7, <1>8, <1>9 DEF BufferFrom
<1>11. CASE ~(place = "dispatch" /\ m = b[1])
  <2>1. HeldFrom(m)
    BY <1>1, <1>3, <1>5, <1>11 DEF HeldFrom, HeldAt
  <2> QED  BY <1>0, <1>7, <1>10, <2>1, OnceMoves
<1>12. CASE place = "dispatch" /\ m = b[1]
  <2>1. InBuffer(m, e, 1)
    BY <1>2, <1>5, <1>12 DEF InBuffer
  <2>2. HeldByNone(m) /\ NotDone(m) /\ ~Unsent(m)
    BY <1>0, <2>1 DEF InOnePlace, InNoBuffer
  <2>3. InNoBuffer(m)'
    <3> SUFFICES ASSUME NEW f \in Made, NEW j \in Nat, InBuffer(m, f, j)' PROVE FALSE
      BY <1>1 DEF InNoBuffer
    <3>1. CASE f = e
      <4>1. InBuffer(m, e, j + 1) /\ j >= 1
        BY <1>8, <3>1 DEF InBuffer
      <4>2. j + 1 \in Nat /\ 1 \in Nat
        OBVIOUS
      <4>3. j + 1 = 1
        BY <1>0, <2>1, <4>1, <4>2 DEF InOnePlace
      <4> QED  BY <4>1, <4>3
    <3>2. CASE f # e
      BY <1>0, <1>9, <2>1, <3>2 DEF InOnePlace
    <3> QED  BY <3>1, <3>2
  <2>4. \A f \in Made : HeldAt(m, f)' => f = e
    BY <1>1, <2>2 DEF HeldAt, HeldByNone
  <2>5. NotDone(m)' /\ ~Unsent(m)'
    BY <2>2 DEF NotDone, DoneAt
  <2>6. InOnePlace(m)'
    BY <1>1, <2>3, <2>4, <2>5 DEF InOnePlace, InNoBuffer, NotDone
  <2>7. ASSUME NEW s \in Senders, m \in Range(Batch[s]) PROVE NodeOf(e) = Target(s)
    BY <1>0, <2>1, <2>7 DEF AtTarget
  <2>8. AtTarget(m)'
    BY <1>1, <2>3, <2>4, <2>5, <2>7 DEF AtTarget, InNoBuffer, NotDone, Target
  <2> QED  BY <2>6, <2>8
<1> QED  BY <1>11, <1>12

\* A message that was not sent before is added to a buffer of its server.
LEMMA OnceAdds ==
    ASSUME LinkInv, OnceInv, Rests, NEW g \in Made, NEW x \in Msgs, Adds(g, x),
           UNCHANGED dispatched, Unsent(x), ~Unsent(x)',
           \A s \in Senders : x \in Range(Batch[s]) => NodeOf(g) = Target(s),
           \A m \in Msgs : Unsent(m)' => Unsent(m)
    PROVE  OnceInv'
<1> SUFFICES ASSUME NEW m \in Msgs PROVE InOnePlace(m)' /\ AtTarget(m)'
  BY DEF OnceInv, Msgs
<1>0. InOnePlace(m) /\ AtTarget(m)
  BY DEF OnceInv
<1>1. Made' = Made /\ \A f \in Made : /\ NodeOf(f)' = NodeOf(f) /\ At(f)' = At(f)
                                      /\ Got(f)' = Got(f)
  BY DEF Rests, SameEnds
<1>2. \A f \in Made : HeldAt(m, f)' <=> HeldAt(m, f)
  BY <1>1 DEF HeldAt
<1>3. PICK b : b = Incoming(g)
  OBVIOUS
<1>4. b \in Seq(Frames) /\ Incoming(g)' = Append(b, x) /\ x \in Frames
  BY <1>3, IncomingTyped DEF LinkInv, ConnsTyped, Adds, Frames
<1>5. PICK c : c = Append(b, x)
  OBVIOUS
<1>6. /\ Len(b) \in Nat /\ Len(c) = Len(b) + 1
      /\ c[Len(b) + 1] = x /\ \A i \in 1..Len(b) : c[i] = b[i]
  BY <1>4, <1>5, AppendParts
<1>7. \A f \in Made : f # g => \A j \in Nat : InBuffer(m, f, j)' <=> InBuffer(m, f, j)
  BY DEF InBuffer, Adds
<1>8. \A j \in Nat : InBuffer(m, g, j)' => InBuffer(m, g, j) \/ (j = Len(b) + 1 /\ m = x)
  BY <1>3, <1>4, <1>5, <1>6 DEF InBuffer
<1>9. CASE m # x
  <2>1. PICK shift : shift = [f \in Made' |-> 0]
    OBVIOUS
  <2>2. shift \in [Made' -> {0, 1}] /\ \A f \in Made' : \A j \in Nat : j + shift[f] = j
    BY <2>1
  <2>3. BufferFrom(m, shift)
    BY <1>1, <1>7, <1>8, <1>9, <2>2 DEF BufferFrom
  <2>4. HeldFrom(m)
    BY <1>1, <1>2 DEF HeldFrom
  <2> QED  BY <1>0, <2>2, <2>3, <2>4, OnceMoves
<1>10. CASE m = x
  <2>1. InNoBuffer(m) /\ HeldByNone(m) /\ NotDone(m)
    BY <1>0, <1>10 DEF InOnePlace
  <2>2. HeldByNone(m)' /\ NotDone(m)'
    BY <1>1, <1>2, <2>1 DEF HeldByNone, NotDone, DoneAt
  <2>3. \A f \in Made' : \A j \in Nat : InBuffer(m, f, j)' => f = g /\ j = Len(b) + 1
    BY <1>1, <1>7, <1>8, <2>1 DEF InNoBuffer
  <2>4. InOnePlace(m)'
    BY <1>10, <2>2, <2>3 DEF InOnePlace, HeldByNone, NotDone
  <2>5. AtTarget(m)'
    BY <1>1, <1>10, <2>2, <2>3 DEF AtTarget, HeldByNone, NotDone, Target
  <2> QED  BY <2>4, <2>5
<1> QED  BY <1>9, <1>10

\* The message that is held goes to the processor.
LEMMA OnceDispatch ==
    ASSUME LinkInv, FrameInv, OnceInv, NEW e \in Made, Dispatch(e),
           \A m \in Msgs : Unsent(m)' => Unsent(m)
    PROVE  OnceInv'
<1> SUFFICES ASSUME NEW m \in Msgs PROVE InOnePlace(m)' /\ AtTarget(m)'
  BY DEF OnceInv, Msgs
<1>0. InOnePlace(m) /\ AtTarget(m)
  BY DEF OnceInv
<1>1. Goes(e, "receive") /\ Drops /\ At(e) = "dispatch" /\ NodeOf(e) \in Nodes
  BY DispatchEffect, NodesOfEnd DEF LinkInv, ConnsTyped, Dispatch
<1>2. PICK x \in Msgs : x = Got(e)
  BY <1>1, IncomingTyped DEF LinkInv, ConnsTyped, FrameInv, FramesOf, Frames
<1>3. PICK n \in Nodes : n = NodeOf(e)
  BY <1>1
<1>4. PICK a : a = dispatched[n]
  OBVIOUS
<1>5. a \in Seq(Msgs)
  BY <1>4 DEF FrameInv
<1>6. PICK c : c = Append(a, x)
  OBVIOUS
<1>7. /\ Len(a) \in Nat /\ Len(c) = Len(a) + 1
      /\ c[Len(a) + 1] = x /\ \A i \in 1..Len(a) : c[i] = a[i]
  BY <1>5, <1>6, AppendParts
<1>8. dispatched'[n] = c /\ \A p \in Nodes : p # n => dispatched'[p] = dispatched[p]
  BY <1>2, <1>3, <1>4, <1>6 DEF Dispatch, Got, FrameInv
<1>9. /\ \A p \in Nodes : p # n => \A j \in Nat : DoneAt(m, p, j)' <=> DoneAt(m, p, j)
      /\ \A j \in Nat : DoneAt(m, n, j)' => DoneAt(m, n, j) \/ (j = Len(a) + 1 /\ m = x)
      /\ m # x => \A j \in Nat : DoneAt(m, n, j)' <=> DoneAt(m, n, j)
  BY <1>4, <1>7, <1>8 DEF DoneAt
<1>10. /\ Made' = Made
       /\ \A f \in Made : NodeOf(f)' = NodeOf(f) /\ At(f)' = IF f = e THEN "receive" ELSE At(f)
       /\ \A f \in Made : f # e => Got(f)' = Got(f)
  BY <1>1 DEF Goes, SameEnds
<1>11. \A f \in Made : HeldAt(m, f)' => f # e /\ HeldAt(m, f)
  BY <1>10 DEF HeldAt
<1>12. ASSUME NEW f \in Made, NEW j \in Nat, InBuffer(m, f, j)' PROVE InBuffer(m, f, j)
  <2>1. CASE Incoming(f)' = Incoming(f)
    BY <1>12, <2>1 DEF InBuffer
  <2>2. CASE Incoming(f)' = <<>>
    BY <1>12, <2>2 DEF InBuffer
  <2> QED  BY <1>1, <2>1, <2>2 DEF Drops
<1>13. /\ InNoBuffer(m) => InNoBuffer(m)'
       /\ HeldByNone(m) => HeldByNone(m)'
       /\ \A f, g \in Made' : \A i, j \in Nat :
            InBuffer(m, f, i)' /\ InBuffer(m, g, j)' => f = g /\ i = j
       /\ \A f, g \in Made' : HeldAt(m, f)' /\ HeldAt(m, g)' => f = g
  BY <1>0, <1>10, <1>11, <1>12 DEF InNoBuffer, HeldByNone, InOnePlace
<1>14. CASE m # x
  <2>1. /\ NotDone(m) => NotDone(m)'
        /\ \A p, q \in Nodes : \A i, j \in Nat :
             DoneAt(m, p, i)' /\ DoneAt(m, q, j)' => p = q /\ i = j
    BY <1>0, <1>9, <1>14 DEF NotDone, InOnePlace
  <2>2. InOnePlace(m)'
    BY <1>0, <1>13, <2>1 DEF InOnePlace
  <2>3. AtTarget(m)'
    BY <1>0, <1>9, <1>10, <1>11, <1>12, <1>14 DEF AtTarget, Target
  <2> QED  BY <2>2, <2>3
<1>15. CASE m = x
  <2>1. HeldAt(m, e)
    BY <1>1, <1>2, <1>15 DEF HeldAt
  <2>2. InNoBuffer(m) /\ NotDone(m) /\ ~Unsent(m)
    BY <1>0, <2>1 DEF InOnePlace, HeldByNone
  <2>3. InNoBuffer(m)' /\ HeldByNone(m)' /\ ~Unsent(m)'
    BY <1>0, <1>10, <1>11, <1>13, <2>1, <2>2 DEF InOnePlace, HeldByNone
  <2>4. \A p \in Nodes : \A j \in Nat : DoneAt(m, p, j)' => p = n /\ j = Len(a) + 1
    BY <1>9, <2>2 DEF NotDone
  <2>5. InOnePlace(m)'
    BY <2>3, <2>4 DEF InOnePlace, InNoBuffer, HeldByNone
  <2>6. ASSUME NEW s \in Senders, m \in Range(Batch[s]) PROVE n = Target(s)
    BY <1>0, <1>3, <2>1, <2>6 DEF AtTarget
  <2>7. AtTarget(m)'
    BY <2>3, <2>4, <2>6 DEF AtTarget, InNoBuffer, HeldByNone, Target
  <2> QED  BY <2>5, <2>7
<1> QED  BY <1>14, <1>15

LEMMA ConcatParts ==
    ASSUME NEW S, NEW a \in Seq(S), NEW b \in Seq(S), NEW c, c = a \o b
    PROVE  /\ Len(a) \in Nat /\ Len(b) \in Nat /\ Len(c) = Len(a) + Len(b)
           /\ \A i \in 1..Len(a) : c[i] = a[i]
           /\ \A j \in 1..Len(c) :
                j \in 1..Len(a) \/ (j - Len(a) \in 1..Len(b) /\ c[j] = b[j - Len(a)])
  OBVIOUS

\* A server sends its batch to itself.
LEMMA OnceSelf ==
    ASSUME LinkInv, FrameInv, OnceInv, NEW s \in Senders, sender[s].at = "start",
           Source(s) = Target(s), UNCHANGED conns,
           dispatched' = [dispatched EXCEPT ![Source(s)] = @ \o Batch[s]],
           \A m \in Msgs : Unsent(m)' => Unsent(m),
           \A m \in Range(Batch[s]) : ~Unsent(m)'
    PROVE  OnceInv'
<1> SUFFICES ASSUME NEW m \in Msgs PROVE InOnePlace(m)' /\ AtTarget(m)'
  BY DEF OnceInv, Msgs
<1>0. InOnePlace(m) /\ AtTarget(m)
  BY DEF OnceInv
<1>1. PICK n \in Nodes : n = Source(s)
  BY ServersTyped
<1>2. PICK b \in Seq(Msgs) : b = Batch[s]
  BY BatchTyped
<1>3. PICK a : a = dispatched[n]
  OBVIOUS
<1>4. a \in Seq(Msgs)
  BY <1>3 DEF FrameInv
<1>5. PICK c : c = a \o b
  OBVIOUS
<1>6. /\ Len(a) \in Nat /\ Len(b) \in Nat /\ Len(c) = Len(a) + Len(b)
      /\ \A i \in 1..Len(a) : c[i] = a[i]
      /\ \A j \in 1..Len(c) :
           j \in 1..Len(a) \/ (j - Len(a) \in 1..Len(b) /\ c[j] = b[j - Len(a)])
  BY <1>4, <1>5, ConcatParts
<1>7. dispatched'[n] = c /\ \A p \in Nodes : p # n => dispatched'[p] = dispatched[p]
  BY <1>1, <1>2, <1>3, <1>5 DEF FrameInv
<1>8. \A p \in Nodes : p # n => \A j \in Nat : DoneAt(m, p, j)' <=> DoneAt(m, p, j)
  BY <1>7 DEF DoneAt
<1>9. \A j \in Nat : DoneAt(m, n, j)' =>
        DoneAt(m, n, j) \/ (j - Len(a) \in 1..Len(b) /\ b[j - Len(a)] = m)
  BY <1>3, <1>6, <1>7 DEF DoneAt
<1>10. /\ Made' = Made /\ \A f \in Made : NodeOf(f)' = NodeOf(f)
       /\ \A f \in Made : HeldAt(m, f)' <=> HeldAt(m, f)
       /\ \A f \in Made : \A j \in Nat : InBuffer(m, f, j)' <=> InBuffer(m, f, j)
  BY DEF Made, NodeOf, HeldAt, InBuffer, At, Got, Incoming
<1>11. /\ InNoBuffer(m)' <=> InNoBuffer(m)
       /\ HeldByNone(m)' <=> HeldByNone(m)
  BY <1>10 DEF InNoBuffer, HeldByNone
<1>12. m \in Range(Batch[s]) <=> \E i \in 1..Len(b) : b[i] = m
  BY <1>2 DEF Range
<1>13. CASE m \notin Range(Batch[s])
  <2>1. \A p \in Nodes : \A j \in Nat : DoneAt(m, p, j)' => DoneAt(m, p, j)
    BY <1>8, <1>9, <1>12, <1>13
  <2>2. /\ NotDone(m) => NotDone(m)'
        /\ \A p, q \in Nodes : \A i, j \in Nat :
             DoneAt(m, p, i)' /\ DoneAt(m, q, j)' => p = q /\ i = j
    BY <1>0, <2>1 DEF NotDone, InOnePlace
  <2>3. InOnePlace(m)'
    BY <1>0, <1>10, <1>11, <2>2 DEF InOnePlace
  <2>4. AtTarget(m)'
    BY <1>0, <1>10, <2>1 DEF AtTarget, Target
  <2> QED  BY <2>3, <2>4
<1>14. CASE m \in Range(Batch[s])
  <2>1. Unsent(m)
    <3>1. sender[s].next = 1 /\ sender[s].at \notin Ended
      BY DEF LinkInv, SendersTyped, SenderTyped, Ended
    <3>2. PICK i \in 1..Len(b) : b[i] = m
      BY <1>12, <1>14
    <3> QED  BY <1>2, <3>1, <3>2 DEF Unsent
  <2>2. InNoBuffer(m) /\ HeldByNone(m) /\ NotDone(m)
    BY <1>0, <2>1 DEF InOnePlace
  <2>3. InNoBuffer(m)' /\ HeldByNone(m)' /\ ~Unsent(m)'
    BY <1>11, <1>14, <2>2
  <2>4. \A p \in Nodes : \A j \in Nat :
          DoneAt(m, p, j)' => p = n /\ j - Len(a) \in 1..Len(b) /\ b[j - Len(a)] = m
    BY <1>8, <1>9, <2>2 DEF NotDone
  <2>5. \A i, j \in 1..Len(b) : b[i] = b[j] => i = j
    BY <1>2, BatchTyped DEF IsInjective
  <2>6. \A p, q \in Nodes : \A i, j \in Nat :
          DoneAt(m, p, i)' /\ DoneAt(m, q, j)' => p = q /\ i = j
    BY <1>6, <2>4, <2>5
  <2>7. InOnePlace(m)'
    BY <2>3, <2>6 DEF InOnePlace, InNoBuffer, HeldByNone
  <2>8. ASSUME NEW t \in Senders, m \in Range(Batch[t]) PROVE n = Target(t)
    BY <1>1, <1>14, <2>8, RouterAssumption
  <2>9. AtTarget(m)'
    BY <2>3, <2>4, <2>8 DEF AtTarget, InNoBuffer, HeldByNone, Target
  <2> QED  BY <2>7, <2>9
<1> QED  BY <1>13, <1>14

\* Nothing is in the buffers of a new connection but the identity.
LEMMA OnceConnect ==
    ASSUME LinkInv, OnceInv, NEW s \in Senders, Connect(s), \A m \in Msgs : Unsent(m)' => Unsent(m)
    PROVE  OnceInv'
<1> SUFFICES ASSUME NEW m \in Msgs PROVE InOnePlace(m)' /\ AtTarget(m)'
  BY DEF OnceInv, Msgs
<1>1. PICK k : k = Len(conns) + 1
  OBVIOUS
<1>2. Grows(s) /\ IsNew(s, k) /\ UNCHANGED dispatched
  BY <1>1, ConnectEffect DEF LinkInv, ConnsTyped, Connect
<1>3. \A e \in Made' : e \in Made \/ e = <<k, 1>> \/ e = <<k, 2>>
  BY <1>1, <1>2 DEF Grows
<1>4. ASSUME NEW e, e = <<k, 1>> \/ e = <<k, 2>>
      PROVE  ~HeldAt(m, e)' /\ \A j \in Nat : ~InBuffer(m, e, j)'
  <2>1. At(e)' \in {"dialed", "backlog", "hello"}
    BY <1>2, <1>4 DEF IsNew, At
  <2>2. Incoming(e)' = <<>> \/ Incoming(e)' = <<Hello>>
    BY <1>2, <1>4 DEF IsNew, Incoming
  <2>3. m # Hello
    BY RouterAssumption
  <2>4. \A j \in Nat : ~InBuffer(m, e, j)'
    <3>1. CASE Incoming(e)' = <<>>
      BY <3>1 DEF InBuffer
    <3>2. CASE Incoming(e)' = <<Hello>>
      <4>1. Len(Incoming(e)') = 1 /\ Incoming(e)'[1] = Hello
        BY <3>2
      <4> QED  BY <2>3, <4>1 DEF InBuffer
    <3> QED  BY <2>2, <3>1, <3>2
  <2> QED  BY <2>1, <2>4 DEF HeldAt
<1>5. PICK shift : shift = [f \in Made' |-> 0]
  OBVIOUS
<1>6. shift \in [Made' -> {0, 1}] /\ \A f \in Made' : \A j \in Nat : j + shift[f] = j
  BY <1>5
<1>7. BufferFrom(m, shift)
  BY <1>2, <1>3, <1>4, <1>6 DEF BufferFrom, Grows, InBuffer
<1>8. HeldFrom(m)
  BY <1>2, <1>3, <1>4 DEF HeldFrom, Grows, HeldAt
<1> QED  BY <1>2, <1>6, <1>7, <1>8, OnceMoves DEF OnceInv

\* A sender never goes back in its batch ...
LEMMA UnsentFalls ==
    ASSUME LinkInv, NEW s \in Senders, Sending(s), NEW m, Unsent(m)'
    PROVE  Unsent(m)
<1>1. PICK t \in Senders : /\ sender'[t].at \notin Ended
                           /\ \E i \in 1..Len(Batch[t]) : i >= sender'[t].next /\ Batch[t][i] = m
  BY DEF Unsent
<1>2. CASE t # s \/ UNCHANGED sender
  <2>1. sender'[t] = sender[t]
    BY <1>2, SendersElse
  <2> QED  BY <1>1, <2>1 DEF Unsent
<1>3. CASE t = s /\ ~UNCHANGED sender
  <2>1. sender[s].at \notin Ended
    BY DEF Sending, SendStart, Connect, ConnectFails, RegisterOutgoing, LaunchOutgoing,
           SendMsg, Resend, Block, Ended
  <2>2. PICK r \in SenderState : SenderNext(s, r)
    BY <1>3, SenderParts
  <2>3. sender'[s] = r /\ (r.next = sender[s].next \/ r.next = sender[s].next + 1)
    BY <2>2, SenderChange DEF SenderNext, LinkInv, SendersTyped
  <2>4. sender[s].next \in Nat
    BY DEF LinkInv, SendersTyped, SenderState
  <2>5. PICK i \in 1..Len(Batch[s]) : i >= r.next /\ Batch[s][i] = m
    BY <1>1, <1>3, <2>3
  <2>6. Len(Batch[s]) \in Nat
    BY BatchTyped
  <2>7. i >= sender[s].next
    BY <2>3, <2>4, <2>5, <2>6
  <2> QED  BY <2>1, <2>5, <2>7 DEF Unsent
<1> QED  BY <1>2, <1>3

\* ... and has done with a message once it was sent.
LEMMA SentIsSent ==
    ASSUME LinkInv, NEW s \in Senders, sender[s].at \in {"send", "resend"}, Sent(s),
           NEW x, x = Message(s)
    PROVE  Unsent(x) /\ ~Unsent(x)' /\ x \in Range(Batch[s])
<1>1. PICK k \in 1..Len(Batch[s]) : k = sender[s].next
  BY DEF LinkInv, SendersTyped, SenderTyped
<1>2. /\ x = Batch[s][k] /\ Len(Batch[s]) \in Nat /\ DOMAIN Batch[s] = 1..Len(Batch[s])
      /\ IsInjective(Batch[s])
  BY <1>1, BatchTyped DEF Message
<1>3. x \in Range(Batch[s])
  BY <1>1, <1>2 DEF Range
<1>4. Unsent(x)
  BY <1>1, <1>2 DEF Unsent, Ended
<1>5. ASSUME Unsent(x)' PROVE FALSE
  <2>1. PICK t \in Senders :
          /\ sender'[t].at \notin Ended
          /\ \E i \in 1..Len(Batch[t]) : i >= sender'[t].next /\ Batch[t][i] = x
    BY <1>5 DEF Unsent
  <2>2. x \in Range(Batch[t])
    BY <2>1, BatchTyped DEF Range
  <2>3. t = s
    BY <1>3, <2>2, RouterAssumption
  <2>4. PICK i \in 1..Len(Batch[s]) : i >= sender'[s].next /\ Batch[s][i] = x
    BY <2>1, <2>3
  <2>5. i = k
    BY <1>1, <1>2, <2>4 DEF IsInjective
  <2>6. sender \in [Senders -> SenderState] /\ sender[s].next \in 1..Len(Batch[s])
    BY <1>1 DEF LinkInv, SendersTyped
  <2>7. CASE Return(s, "over")
    <3>1. PICK r \in SenderState : SenderGoes(s, r) /\ r.at = "over"
      BY <2>6, <2>7, ReturnParts
    <3>2. sender'[s] = r
      BY <2>6, <3>1, SenderChange
    <3> QED  BY <2>1, <2>3, <3>1, <3>2 DEF Ended
  <2>8. CASE ~Return(s, "over")
    <3>1. PICK r \in SenderState : SenderGoes(s, r) /\ r.next = sender[s].next + 1
      BY <2>6, <2>8, SentParts
    <3>2. sender'[s] = r
      BY <2>6, <3>1, SenderChange
    <3>3. i >= k + 1
      BY <1>1, <2>4, <3>1, <3>2
    <3> QED  BY <1>1, <1>2, <2>5, <3>3
  <2> QED  BY <2>7, <2>8
<1> QED  BY <1>3, <1>4, <1>5

LEMMA UnsentStill ==
    ASSUME UNCHANGED sender PROVE \A m : Unsent(m)' => Unsent(m)
  BY DEF Unsent

LEMMA OnceStill ==
    ASSUME OnceInv, UNCHANGED <<conns, dispatched>>, \A m \in Msgs : Unsent(m)' => Unsent(m)
    PROVE  OnceInv'
<1> SUFFICES ASSUME NEW m \in Msgs PROVE InOnePlace(m)' /\ AtTarget(m)'
  BY DEF OnceInv, Msgs
<1>1. /\ Made' = Made /\ \A f \in Made : NodeOf(f)' = NodeOf(f)
      /\ \A f \in Made : HeldAt(m, f)' <=> HeldAt(m, f)
      /\ \A f \in Made : \A j \in Nat : InBuffer(m, f, j)' <=> InBuffer(m, f, j)
  BY DEF Made, NodeOf, HeldAt, InBuffer, At, Got, Incoming
<1>2. PICK shift : shift = [f \in Made' |-> 0]
  OBVIOUS
<1>3. shift \in [Made' -> {0, 1}] /\ \A f \in Made' : \A j \in Nat : j + shift[f] = j
  BY <1>2
<1>4. BufferFrom(m, shift) /\ HeldFrom(m)
  BY <1>1, <1>3 DEF BufferFrom, HeldFrom
<1> QED  BY <1>3, <1>4, OnceMoves DEF OnceInv

LEMMA OnceSending ==
    ASSUME LinkInv, TrackInv, FrameInv, OnceInv, NEW s \in Senders, Sending(s)
    PROVE  OnceInv'
<1>1. \A m \in Msgs : Unsent(m)' => Unsent(m)
  BY UnsentFalls
<1>2. CASE ConnectFails(s) \/ RegisterOutgoing(s) \/ Block(s)
  <2>1. UNCHANGED <<conns, dispatched>>
    BY <1>2 DEF ConnectFails, RegisterOutgoing, Block
  <2> QED  BY <1>1, <2>1, OnceStill
<1>3. CASE SendMsg(s) \/ Resend(s)
  <2>1. PICK x \in Msgs : x = Message(s)
    BY MessageTyped
  <2>2. UNCHANGED dispatched /\ sender[s].at \in {"send", "resend"}
    BY <1>3 DEF SendMsg, Resend
  <2>3. \/ UNCHANGED conns
        \/ Rests /\ Sent(s) /\ \E e \in Made : NodeOf(Other(e)) = Target(s) /\ Adds(Other(e), x)
    BY <1>3, <2>1, SendMsgEffect, ResendEffect DEF Between
  <2>4. CASE UNCHANGED conns
    BY <1>1, <2>2, <2>4, OnceStill
  <2>5. CASE ~UNCHANGED conns
    <3>1. PICK e \in Made : NodeOf(Other(e)) = Target(s) /\ Adds(Other(e), x)
      BY <2>3, <2>5
    <3>2. PICK g \in Made : g = Other(e)
      BY MadeParts
    <3>3. Rests /\ Unsent(x) /\ ~Unsent(x)' /\ x \in Range(Batch[s])
      BY <2>1, <2>2, <2>3, <2>5, SentIsSent
    <3>4. \A t \in Senders : x \in Range(Batch[t]) => NodeOf(g) = Target(t)
      BY <3>1, <3>2, <3>3, RouterAssumption
    <3> QED  BY <1>1, <2>2, <3>1, <3>2, <3>3, <3>4, OnceAdds
  <2> QED  BY <2>4, <2>5
<1>4. CASE LaunchOutgoing(s)
  <2>1. UNCHANGED dispatched
    BY <1>4 DEF LaunchOutgoing
  <2>2. UNCHANGED conns \/ \E e \in Made : Goes(e, "receive") /\ Drops
    BY <1>4, LaunchOutgoingEffect DEF Between
  <2>3. CASE UNCHANGED conns
    BY <1>1, <2>1, <2>3, OnceStill
  <2>4. ASSUME NEW e \in Made, Goes(e, "receive"), Drops PROVE OnceInv'
    BY <1>1, <2>1, <2>4, OnceDrops DEF Goes
  <2> QED  BY <2>2, <2>3, <2>4
<1>5. CASE SendStart(s)
  <2>1. UNCHANGED conns /\ sender[s].at = "start"
    BY <1>5 DEF SendStart
  <2>2. CASE Source(s) # Target(s)
    <3>1. UNCHANGED dispatched
      BY <1>5, <2>2 DEF SendStart
    <3> QED  BY <1>1, <2>1, <3>1, OnceStill
  <2>3. CASE Source(s) = Target(s)
    <3>1. /\ dispatched' = [dispatched EXCEPT ![Source(s)] = @ \o Batch[s]]
          /\ Return(s, "over")
      BY <1>5, <2>3 DEF SendStart
    <3>2. sender'[s].at = "over"
      <4>1. sender \in [Senders -> SenderState]
        BY DEF LinkInv, SendersTyped
      <4>2. PICK r \in SenderState : SenderGoes(s, r) /\ r.at = "over"
        BY <3>1, <4>1, ReturnParts
      <4> QED  BY <4>1, <4>2, SenderChange
    <3>3. ASSUME NEW m \in Range(Batch[s]), Unsent(m)' PROVE FALSE
      <4>1. PICK t \in Senders : sender'[t].at \notin Ended
                                 /\ \E i \in 1..Len(Batch[t]) : Batch[t][i] = m
        BY <3>3 DEF Unsent
      <4>2. m \in Range(Batch[t])
        BY <4>1, BatchTyped DEF Range
      <4>3. t = s
        BY <4>2, RouterAssumption
      <4> QED  BY <3>2, <4>1, <4>3 DEF Ended
    <3> QED  BY <1>1, <2>1, <2>3, <3>1, <3>3, OnceSelf
  <2> QED  BY <2>2, <2>3
<1> QED  BY <1>1, <1>2, <1>3, <1>4, <1>5, OnceConnect DEF Sending

LEMMA OnceStep == LinkInv /\ TrackInv /\ FrameInv /\ OnceInv /\ [Next]_vars => OnceInv'
<1> SUFFICES ASSUME LinkInv, TrackInv, FrameInv, OnceInv, [Next]_vars PROVE OnceInv'
  OBVIOUS
<1>0. conns \in Seq(Conn) /\ ConnsTyped /\ NodesTyped
  BY DEF LinkInv, ConnsTyped
<1>1. ASSUME NEW e \in Made, Listening(e) PROVE OnceInv'
  <2>1. UNCHANGED <<sender, dispatched>> /\ At(e) # "dispatch"
    BY <1>1 DEF Listening, Accept, Reset, ReceiveServerIdentity, Reject, LaunchIncoming
  <2>2. \E place \in {"hello", "gone", "launch", "reject", "receive"} :
          Goes(e, place) /\ (Takes(e) \/ Drops)
    BY <1>0, <1>1, AcceptEffect, ResetEffect, RejectEffect, IdentityEffect, LaunchEffect
    DEF Listening
  <2>3. ASSUME NEW place \in {"hello", "gone", "launch", "reject", "receive"},
               Goes(e, place), Drops
        PROVE  OnceInv'
    BY <2>1, <2>3, UnsentStill, OnceDrops DEF Goes
  <2> QED  BY <2>1, <2>2, <2>3, UnsentStill, OnceTakes
<1>2. ASSUME NEW e \in Made, HandleConn(e) PROVE OnceInv'
  <2>1. CASE Receive(e)
    <3>1. /\ At(e) = "receive" /\ UNCHANGED <<sender, dispatched>>
          /\ paused[NodeOf(e)] \in Nat
      BY <1>0, <2>1, NodesOfEnd DEF Receive, NodesTyped
    <3>2. \E place \in {"paused", "cleanup", "dispatch"} :
            Goes(e, place) /\ (Takes(e) \/ (Drops /\ place # "dispatch"))
      BY <1>0, <2>1, <3>1, ReceiveEffect
    <3>3. ASSUME NEW place \in {"paused", "cleanup"}, Goes(e, place), Drops
          PROVE  OnceInv'
      BY <3>1, <3>3, UnsentStill, OnceDrops DEF Goes
    <3> QED  BY <3>1, <3>2, <3>3, UnsentStill, OnceTakes
  <2>2. CASE Wake(e) \/ Cleanup(e) \/ RemoveConnection(e)
    <3>1. UNCHANGED <<sender, dispatched>>
      BY <2>2 DEF Wake, Cleanup, RemoveConnection
    <3>2. PICK place \in {"cleanup", "remove", "gone"} : Goes(e, place) /\ Drops
      BY <1>0, <2>2, WakeEffect, CleanupEffect, RemoveEffect
    <3> QED  BY <3>1, <3>2, UnsentStill, OnceDrops DEF Goes
  <2>3. CASE Dispatch(e)
    <3>1. UNCHANGED sender
      BY <2>3 DEF Dispatch
    <3> QED  BY <2>3, <3>1, UnsentStill, OnceDispatch
  <2> QED  BY <1>2, <2>1, <2>2, <2>3 DEF HandleConn
<1>3. ASSUME NEW n \in Nodes,
             Listen(n) \/ SetValidPeers(n) \/ Pause(n) \/ Unpause(n) \/ StopHost(n) \/ StopReturns(n)
      PROVE  OnceInv'
  <2>1. UNCHANGED <<conns, dispatched, sender>>
    BY <1>3 DEF Listen, SetValidPeers, Pause, Unpause, StopHost, StopReturns
  <2> QED  BY <2>1, UnsentStill, OnceStill
<1>4. ASSUME Rests, Drops, UNCHANGED <<dispatched, sender>> PROVE OnceInv'
  BY <1>4, UnsentStill, OnceDrops DEF Rests
<1>5. ASSUME NEW n \in Nodes, StopConnections(n) PROVE OnceInv'
  <2>1. UNCHANGED <<dispatched, sender>>
    BY <1>5 DEF StopConnections
  <2> QED  BY <1>0, <1>4, <1>5, <2>1, StopEffect
<1>6. ASSUME NEW k \in DOMAIN conns, Break(k) PROVE OnceInv'
  <2>1. UNCHANGED <<dispatched, sender>>
    BY <1>6 DEF Break
  <2> QED  BY <1>0, <1>4, <1>6, <2>1, BreakEffect
<1>7. CASE UNCHANGED vars
  BY <1>7, UnsentStill, OnceStill DEF vars
<1>8. Managed \subseteq Nodes
  BY RouterAssumption
<1> QED  BY <1>1, <1>2, <1>3, <1>5, <1>6, <1>7, <1>8, OnceSending DEF Next, Stop

LEMMA OnceInit == Init => OnceInv
<1> SUFFICES ASSUME Init, NEW m \in Msgs PROVE InOnePlace(m) /\ AtTarget(m)
  BY DEF OnceInv
<1>1. Made = {}
  BY DEF Init, Made
<1>2. \A n \in Nodes : dispatched[n] = <<>>
  BY DEF Init
<1>3. \A n \in Nodes : \A j \in Nat : ~DoneAt(m, n, j)
  BY <1>2 DEF DoneAt
<1> QED  BY <1>1, <1>3 DEF InOnePlace, AtTarget, InNoBuffer, HeldByNone, NotDone

\* Although Send repeats a message on a new connection after an error, and
\* several connections lead to one server, no message is dispatched twice, and
\* none by a server it was not sent to.
THEOREM NoneTwice == Spec => []AtMostOnce
<1>1. Init => LinkInv /\ TrackInv /\ FrameInv /\ OnceInv
  BY LinkInit, TrackInit, FramesInit, OnceInit
<1>2. LinkInv /\ TrackInv /\ FrameInv /\ OnceInv /\ [Next]_vars
        => (LinkInv /\ TrackInv /\ FrameInv /\ OnceInv)'
  BY LinkStep, TrackStep, FramesStep, OnceStep
<1>3. FrameInv /\ OnceInv => AtMostOnce
  <2> SUFFICES ASSUME FrameInv, OnceInv, NEW n \in Nodes
               PROVE  /\ IsInjective(dispatched[n])
                      /\ \A s \in Senders :
                           Range(Batch[s]) \cap Range(dispatched[n]) # {} => SendsTo[s] = n
    BY DEF AtMostOnce
  <2>1. PICK d \in Seq(Msgs) : d = dispatched[n]
    BY DEF FrameInv
  <2>2. DOMAIN d = 1..Len(d) /\ Len(d) \in Nat /\ \A j \in 1..Len(d) : d[j] \in Msgs /\ j \in Nat
    OBVIOUS
  <2>3. \A j \in 1..Len(d) : DoneAt(d[j], n, j)
    BY <2>1 DEF DoneAt
  <2>4. \A i, j \in 1..Len(d) : d[i] = d[j] => i = j
    BY <2>2, <2>3 DEF OnceInv, InOnePlace
  <2>5. IsInjective(d)
    BY <2>2, <2>4 DEF IsInjective
  <2>6. ASSUME NEW s \in Senders, NEW m \in Range(Batch[s]) \cap Range(d) PROVE SendsTo[s] = n
    <3>1. PICK j \in 1..Len(d) : d[j] = m
      BY <2>2 DEF Range
    <3>2. DoneAt(m, n, j) /\ m \in Msgs /\ j \in Nat
      BY <2>2, <2>3, <3>1
    <3> QED  BY <3>2 DEF OnceInv, AtTarget, Target
  <2> QED  BY <2>1, <2>5, <2>6
<1> QED  BY <1>1, <1>2, <1>3, PTL DEF Spec
=============================================================================
