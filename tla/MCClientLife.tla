------------------------------ MODULE MCClientLife -----------------------------
(***************************************************************************)
(* The worlds TLC explores: texts of all lengths, and each way in which    *)
(* things can go wrong.                                                    *)
(***************************************************************************)
EXTENDS ClientLife, TLC

CONSTANTS h1, h2, Lengths

(* Each message has its own bytes.                                          *)
MCOpenSSL(id, part, i) ==
  (CASE part = "msg" -> id * 37 + i * 11
     [] part = "key" -> id * 3 + i * 7
     [] part = "iv" -> id * 5 + i * 13) % 256

Text1 == [id |-> 1, to |-> Me, len |-> 5, after |-> 0]
Text2 == [id |-> 2, to |-> Me, len |-> 40, after |-> 0]
Strange == [id |-> 3, to |-> "other", len |-> 5, after |-> 0]
Sized(n, after) == [id |-> 4, to |-> Me, len |-> n, after |-> after]

Feed(s1, s2) == (h1 :> s1) @@ (h2 :> s2)
File1(name, ext) == [name |-> name, ext |-> ext, readable |-> TRUE]
Unreadable == [name |-> "bad", ext |-> "pub", readable |-> FALSE]
Directories ==
  {<< <<File1("alice", "pub"), File1("notes", "txt"), File1("bob", "pub")>> >>,
   << <<File1("alice", "pub"), File1("bob", "pub")>>, <<File1("carol", "pub")>> >>,
   << <<File1("alice", "pub"), Unreadable>> >>}
Addresses == << [ip |-> <<49, 46>>, port |-> <<50>>], [ip |-> <<51>>, port |-> <<52, 53>>] >>

Quiet == [feed |-> Feed(<<>>, <<>>), dir |-> <<>>, private |-> TRUE, bind |-> TRUE,
          server |-> TRUE, peers |-> <<>>, lines |-> <<>>, eof |-> FALSE, ends |-> {}]

MCWorlds ==
  {[Quiet EXCEPT !.feed = Feed(<<Sized(n, a)>>, <<>>)] : n \in Lengths, a \in {0, 255}}
  \union {[Quiet EXCEPT !.feed = f] :
            f \in {Feed(<<Text1>>, <<Text2>>), Feed(<<Text1>>, <<Strange>>),
                   Feed(<<Text1, Text2>>, <<>>)}}
  \union {[Quiet EXCEPT !.feed = Feed(<<Text1>>, <<>>), !.peers = Addresses, !.ends = e] :
            e \in {{}, {"fin", "rst"}}}
  \union {[Quiet EXCEPT !.dir = d, !.peers = Addresses, !.lines = l, !.eof = e,
                        !.ends = {"fin", "rst"}, !.bind = b] :
            d \in Directories, l \in {<<TRUE>>, <<TRUE, FALSE>>}, e \in BOOLEAN,
            b \in BOOLEAN}
  \union {[Quiet EXCEPT !.private = FALSE], [Quiet EXCEPT !.server = FALSE],
          [Quiet EXCEPT !.ends = {"fin", "rst"}]}

MCFeeds == {w.feed : w \in MCWorlds}
===============================================================================
