------------------------------- MODULE MCHTTP -------------------------------
(* Payloads for TLC: first lines of every kind, complete or not, each with up to
   two header lines and with or without the end of the last one. *)
EXTENDS HTTP

StartLines ==
  {<<"GET", " ", "u", " ", "v", CR, LF>>,
   <<"PUT", " ", " ", "u", "u", " ", " ", "v", " ", LF>>,
   <<"GET", " ", "u", " ", LF>>,
   <<"GET", " ", "u", " ", CR, LF>>,
   <<"GET", " ", "u", LF>>,
   <<"GET", " ", LF>>,
   <<"GET", LF>>,
   <<"GET", "u", " ", "u", " ", "v", LF>>,
   <<" ", "GET", " ", "u", " ", "v", LF>>,
   <<"HTTP/", "v", CR, LF>>,
   <<LF>>,
   <<"GET", " ", "u", " ", "v">>}

HeaderLines ==
  {<<>>, <<CR, LF>>, <<LF>>, <<"x", LF>>, <<"x", ":", " ", "y", CR, LF>>,
   <<"Host", ":", " ", "h", CR, LF>>, <<"Host", ":", " ", "g", ":", "g", LF>>,
   <<"Host", ":", "h", LF>>, <<"Host", ":", LF>>, <<"Host", ":", " ", " ", LF>>,
   <<"Host", ":", " ", CR, "h", LF>>, <<"Host", "x", ":", " ", "h", LF>>,
   <<"x", "Host", ":", " ", "h", LF>>, <<"Host", ":", " ", "h">>}

LastLines ==
  {<<>>, <<CR, LF>>, <<"x", LF>>, <<"Host", ":", " ", "h", CR, LF>>,
   <<"Host", ":", LF>>, <<"Host", ":", " ", "h">>}

MCBodies ==
  {s \o h \o k : s \in StartLines, h \in HeaderLines, k \in LastLines}
=============================================================================
