------------------------------- MODULE Sidebar --------------------------------
(***************************************************************************)
(* The sidebar of a team's pages (website/components/ui/sidebar.tsx): a    *)
(* column that can be collapsed or, in a narrow window, a sheet over the   *)
(* page.  Each has a state of its own, which belongs to the layout around  *)
(* the pages and is lost with it.                                          *)
(*                                                                         *)
(* The cookie sidebar_state, which setOpen writes and nothing reads, is    *)
(* left out.                                                               *)
(***************************************************************************)
VARIABLES
  isMobile,     \* the window is narrower than MOBILE_BREAKPOINT
  open,         \* the column is expanded
  openMobile    \* the sheet is open

sidebarVars == <<isMobile, open, openMobile>>

SidebarUnmounted == isMobile = FALSE /\ open = TRUE /\ openMobile = FALSE

UnmountSidebar == isMobile' = FALSE /\ open' = TRUE /\ openMobile' = FALSE

(* The layout appears, in a window of any width.                           *)
SidebarProvider ==
  /\ isMobile' \in BOOLEAN
  /\ open' = TRUE
  /\ openMobile' = FALSE

setOpen(openState) == open' = openState /\ UNCHANGED <<isMobile, openMobile>>

setOpenMobile(openState) == openMobile' = openState /\ UNCHANGED <<isMobile, open>>

(* Mutant: the window is taken for a wide one.                             *)
toggleSidebarDesktop == setOpen(~open)

toggleSidebar ==
  \/ isMobile /\ setOpenMobile(~openMobile)
  \/ ~isMobile /\ setOpen(~open)

(* Whether the user sees it, as a column or as a sheet.                    *)
Shown == IF isMobile THEN openMobile ELSE open

(* The sheet is modal: what it covers cannot be used, and what is in it    *)
(* only while it is open.  A collapsed column keeps its icons.             *)
PageUsable == ~(isMobile /\ openMobile)
SidebarUsable == isMobile => openMobile

(* The button of the page's header; the rail at the sidebar's edge; Ctrl-B;*)
(* Escape or a click beside the sheet.                                     *)
SidebarTrigger == PageUsable /\ toggleSidebar
SidebarRail == SidebarUsable /\ toggleSidebar
handleKeyDown == toggleSidebar
SheetContent == ~PageUsable /\ setOpenMobile(FALSE)

(* The window becomes narrow or wide.                                      *)
useIsMobile == isMobile' = ~isMobile /\ UNCHANGED <<open, openMobile>>

UseSidebar == SidebarTrigger \/ SidebarRail \/ handleKeyDown \/ SheetContent \/ useIsMobile
===============================================================================
