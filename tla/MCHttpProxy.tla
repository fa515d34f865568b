---------------------------- MODULE MCHttpProxy ----------------------------
(* The handler of one client for TLC: the shapes of request it tells apart. *)
EXTENDS HttpProxy

\* Absolute URL with port, path and headers; without port and path; https; a
\* relative URL; an absolute URL without a host.
MCRequests == {
    <<"method", "http://", "ho", "st", ":", "port", "/path", "protocol", "headers">>,
    <<"method", "http://", "ho", "st", "protocol", "headers">>,
    <<"method", "https://", "ho", "st", "/path", "protocol", "headers">>,
    <<"method", "/path", "protocol", "headers">>,
    <<"method", "http://", "/path", "protocol", "headers">>}
=============================================================================
