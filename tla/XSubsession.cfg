\* Three processes, and sockets in which one message fits.
SPECIFICATION Spec
CONSTANTS
  Proc = {sh, d1, d2}
  Child = sh
  Room = 1
  MayFail = {"e_epoll_create", "e_open_display", "e_egl_display", "e_egl_init",
             "e_choose_egl_config", "e_get_x_visual", "e_get_visual_info",
             "e_egl_surface", "e_bind_api", "e_egl_context",
             "e_get_proc_address", "e_register_x", "e_session"}
INVARIANTS
  SessionIsThere
  NoDeadlock
  UndoneInOrder
PROPERTY
  ProgramEnds
