--------------------------- MODULE MCRadiusCodec ---------------------------
(* Small bytes: an integer has one, the header two, Message-Authenticator  *)
(* one.                                                                    *)
EXTENDS RadiusCodec

(* Acct-Session-Time, the one of OptionalAttrs that is sent.               *)
TimeAttr == 0

(* Well-formed attributes, and pieces that are none. *)
Token(type, value) == <<type, Len(value) + 2>> \o value
Mac == Token(MacAttr, <<0>>)
Tokens == {Token(StatusAttr, <<1>>), Token(SessionAttr, <<7>>), Token(SessionAttr, <<>>),
           Token(NasAttr, <<7>>), Token(NasIpAttr, <<1, 1>>), Token(OctetsAttr, <<7>>),
           Token(OctetsAttr, <<>>), Token(GigawordsAttr, <<2>>), Token(GigawordsAttr, <<3>>),
           Token(TimeAttr, <<5>>), Token(TimeAttr, <<5, 1>>),
           <<NasAttr>>, <<NasAttr, 0>>, <<NasAttr, 1>>, <<NasAttr, 5, 1>>}
Complete == Token(StatusAttr, <<1>>) \o Token(SessionAttr, <<7>>)
Pairs == {s \o t : s, t \in Tokens \cup {<<>>}}
Bodies == Pairs \cup {Complete \o p : p \in Pairs} \cup {Complete \o Mac \o t : t \in Tokens \cup {<<>>}}

Signed(d) ==
  LET withMac == [d EXCEPT !.mac = MacOver(Zeros, d)] IN
  {[e EXCEPT !.authenticator = AuthenticatorOver(e)] : e \in {d, withMac}} \cup {d}
MCDatagrams ==
  UNION {Signed([size |-> HeaderSize + Len(b), declared |-> HeaderSize + Len(b) + k, code |-> c,
                 body |-> b, mac |-> <<"none">>, authenticator |-> <<"forged">>])
         : b \in Bodies, k \in -1..1, c \in {Request}}
=============================================================================
